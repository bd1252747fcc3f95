--------------------------- MODULE OAuthTokensProofs ---------------------------
(***************************************************************************)
(* What TLAPS proves of OAuthTokens, for any clients, users, requests,     *)
(* lifetimes and bounds: only the newest pair of a family answers, a       *)
(* revoked family stays dead, tokens stay with their client, and the       *)
(* provider implements TokenFamilies.                                      *)
(***************************************************************************)
EXTENDS OAuthTokens, SequenceTheorems, TLAPS

Grant == [client : Clients, by : Users \cup {Nobody}, at : Nat]
Pair == [family : Nat, client : Clients, at : Nat]
Loaded == [kind : {"code", "refresh", "revoke"}, id : Nat, client : Clients]

\* Clean-up only takes rows away.
LEMMA FreshRows ==
  /\ FreshPending \subseteq pending /\ FreshCodes \subseteq codes
  /\ FreshAccess \subseteq access /\ FreshRefresh \subseteq refresh
  BY DEF FreshPending, FreshCodes, FreshAccess, FreshRefresh

\* Adding a grant or a pair keeps the rows there are.
LEMMA Appended ==
  ASSUME NEW S, NEW s \in Seq(S), NEW e \in S
  PROVE  /\ Append(s, e) \in Seq(S)
         /\ Len(Append(s, e)) = Len(s) + 1
         /\ \A i \in 1 .. Len(s) : i \in 1 .. Len(s) + 1 /\ Append(s, e)[i] = s[i]
         /\ Append(s, e)[Len(s) + 1] = e
         /\ Len(s) \in Nat
  OBVIOUS

LEMMA GrantsAdded ==
  ASSUME TypeOK, NEW c \in Clients, Authorize(c)
  PROVE  /\ grants' \in Seq(Grant) /\ Len(grants') = Len(grants) + 1
         /\ \A g \in Grants : grants'[g] = grants[g]
         /\ grants'[Len(grants) + 1] = [client |-> c, by |-> Nobody, at |-> now]
         /\ Grants' = Grants \cup {Len(grants) + 1} /\ Len(grants) + 1 \notin Grants
  <1>1. [client |-> c, by |-> Nobody, at |-> now] \in Grant /\ grants \in Seq(Grant)
    BY DEF TypeOK, Grant
  <1>2. grants' = Append(grants, [client |-> c, by |-> Nobody, at |-> now])
    BY DEF Authorize
  <1> QED
    BY <1>1, <1>2, Appended DEF Grants

LEMMA PairsAdded ==
  ASSUME TypeOK, NEW f \in Nat, NEW c \in Clients, InsertPair(f, c)
  PROVE  /\ pairs' \in Seq(Pair) /\ Len(pairs') = Len(pairs) + 1
         /\ \A n \in Pairs : pairs'[n] = pairs[n]
         /\ pairs'[Len(pairs) + 1] = [family |-> f, client |-> c, at |-> now]
         /\ Pairs' = Pairs \cup {Len(pairs) + 1} /\ Len(pairs) + 1 \notin Pairs
         /\ Len(pairs) \in Nat
  <1>1. [family |-> f, client |-> c, at |-> now] \in Pair /\ pairs \in Seq(Pair)
    BY DEF TypeOK, Pair
  <1>2. pairs' = Append(pairs, [family |-> f, client |-> c, at |-> now])
    BY DEF InsertPair
  <1> QED
    BY <1>1, <1>2, Appended DEF Pairs

LEMMA FamiliesAdded ==
  ASSUME TypeOK, NEW g \in Grants, families' = Append(families, g)
  PROVE  /\ families' \in Seq(Nat) /\ Len(families') = Len(families) + 1
         /\ \A f \in Families : families'[f] = families[f]
         /\ families'[Len(families) + 1] = g
         /\ Families' = Families \cup {Len(families) + 1} /\ Len(families) + 1 \notin Families
         /\ Len(families) \in Nat
  <1>1. families \in Seq(Nat) /\ g \in Nat
    BY DEF TypeOK, Grants
  <1> QED
    BY <1>1, Appended DEF Families

\* Consent is written into a row that stays.
LEMMA GrantsApproved ==
  ASSUME TypeOK, NEW g, NEW u \in Users, Approve(g, u)
  PROVE  /\ g \in Grants
         /\ grants' \in Seq(Grant) /\ Len(grants') = Len(grants) /\ Grants' = Grants
         /\ \A h \in Grants : grants'[h].client = grants[h].client
         /\ \A h \in Grants : h # g => grants'[h] = grants[h]
         /\ grants'[g].by = u /\ grants'[g].at = now
  <1>1. g \in Grants /\ now \in Nat /\ grants \in Seq(Grant)
    BY FreshRows DEF Approve, TypeOK, Grant
  <1>2. grants[g] \in Grant
    BY <1>1 DEF Grants
  <1>3. grants' = [grants EXCEPT ![g] = [grants[g] EXCEPT !.by = u, !.at = now]]
    BY DEF Approve
  <1>4. [grants[g] EXCEPT !.by = u, !.at = now] \in Grant
    BY <1>1, <1>2 DEF Grant
  <1> QED
    BY <1>1, <1>2, <1>3, <1>4 DEF Grants, Grant

\* What a request has loaded names rows that exist.
LEMMA HandRows ==
  ASSUME TypeOK, NEW s \in Slots
  PROVE  /\ hand[s].kind = "code" => hand[s].id \in Grants /\ hand[s].client \in Clients
         /\ hand[s].kind \in {"refresh", "revoke"} => hand[s].id \in Pairs /\ hand[s].client \in Clients
  BY DEF TypeOK, Nothing

LEMMA PairFamilies ==
  ASSUME TypeOK, NEW n \in Pairs
  PROVE  pairs[n].family \in Families /\ pairs[n].family \in Nat /\ pairs[n].at \in Nat
  <1>1. pairs \in Seq(Pair) /\ n \in 1 .. Len(pairs)
    BY DEF TypeOK, Pair, Pairs
  <1>2. pairs[n] \in Pair
    BY <1>1
  <1> QED
    BY <1>2 DEF TypeOK, Pair

LEMMA Bounds ==
  /\ MaxGrants \in Nat /\ MaxPairs \in Nat /\ MaxTime \in Nat
  /\ CodeTTL \in Nat /\ CodeTTL > 0 /\ RefreshTTL \in Nat /\ RefreshTTL > 0
  /\ Nobody \notin Users
  BY OAuthAssumption

\* The type invariant in two parts: what requests hold, and the tables.
HandOK ==
  /\ hand \in [Slots -> {Nothing} \cup Loaded]
  /\ \A s \in Slots :
       /\ hand[s].kind = "code" => hand[s].id \in Grants
       /\ hand[s].kind \in {"refresh", "revoke"} => hand[s].id \in Pairs

TablesOK ==
  /\ now \in 0 .. MaxTime
  /\ grants \in Seq(Grant) /\ Len(grants) <= MaxGrants
  /\ pairs \in Seq(Pair) /\ Len(pairs) <= MaxPairs
  /\ pending \subseteq Grants /\ codes \subseteq Grants
  /\ access \subseteq Pairs /\ refresh \subseteq Pairs
  /\ families \in Seq(Nat)
  /\ \A f \in Families : families[f] \in Grants
  /\ \A n \in Pairs : pairs[n].family \in Families
  /\ revoked \subseteq Families

LEMMA TypeParts == TypeOK <=> TablesOK /\ HandOK
  BY DEF TypeOK, TablesOK, HandOK, Grant, Pair, Loaded

LEMMA TypePartsNext == TypeOK' <=> TablesOK' /\ HandOK'
  BY TypeParts, PTL

\* Ending a request, or leaving it alone, keeps what it holds typed while rows stay.
LEMMA HandKept ==
  ASSUME HandOK, Grants \subseteq Grants', Pairs \subseteq Pairs',
         UNCHANGED hand \/ \E s \in Slots : Done(s)
  PROVE  HandOK'
  <1>1. Nothing.kind = "none"
    BY DEF Nothing
  <1>2. hand' \in [Slots -> {Nothing} \cup Loaded]
    BY DEF HandOK, Done
  <1>3. \A t \in Slots : hand'[t] = Nothing \/ hand'[t] = hand[t]
    BY DEF HandOK, Done
  <1> QED
    BY <1>1, <1>2, <1>3 DEF HandOK

\* The tables when only rows of tokens, codes and pending grants are taken away.
LEMMA TablesShrink ==
  ASSUME TablesOK, UNCHANGED <<now, grants, pairs, families>>,
         pending' \subseteq Grants, codes' \subseteq Grants,
         access' \subseteq Pairs, refresh' \subseteq Pairs,
         revoked' \subseteq Families
  PROVE  TablesOK' /\ Grants' = Grants /\ Pairs' = Pairs /\ Families' = Families
  <1>1. Grants' = Grants /\ Pairs' = Pairs /\ Families' = Families
    BY DEF Grants, Pairs, Families
  <1> QED
    BY <1>1 DEF TablesOK

LEMMA StartTyped == OAuthInit => TypeOK
  BY Bounds DEF OAuthInit, TypeOK, Grants, Pairs, Families, Nothing

LEMMA StepTyped == TypeOK /\ [OAuthNext]_oauthVars => TypeOK'
  <1> SUFFICES ASSUME TypeOK, [OAuthNext]_oauthVars
               PROVE  TablesOK' /\ HandOK'
    BY TypePartsNext
  <1>0. TablesOK /\ HandOK
    BY TypeParts
  <1>r. /\ FreshPending \subseteq Grants /\ FreshCodes \subseteq Grants
        /\ FreshAccess \subseteq Pairs /\ FreshRefresh \subseteq Pairs
    BY <1>0, FreshRows DEF TablesOK
  <1>1. ASSUME NEW c \in Clients, Authorize(c)
        PROVE  TablesOK' /\ HandOK'
    <2>1. /\ grants' \in Seq(Grant) /\ Len(grants') = Len(grants) + 1
          /\ Grants' = Grants \cup {Len(grants) + 1}
          /\ UNCHANGED <<now, pairs, hand, families, revoked>>
      BY <1>1, GrantsAdded DEF Authorize
    <2>2. Pairs' = Pairs /\ Families' = Families
      BY <2>1 DEF Pairs, Families
    <2>3. Len(grants') <= MaxGrants
      BY <1>0, <1>1, <2>1, Bounds DEF Authorize, TablesOK
    <2>4. /\ pending' \subseteq Grants' /\ codes' \subseteq Grants'
          /\ access' \subseteq Pairs /\ refresh' \subseteq Pairs
      BY <1>1, <1>r, <2>1 DEF Authorize, CleanTokens
    <2> QED
      BY <1>0, <2>1, <2>2, <2>3, <2>4, HandKept DEF TablesOK
  <1>2. CASE CleanUp
    BY <1>0, <1>2, <1>r, TablesShrink, HandKept
       DEF CleanUp, CleanAll, CleanTokens, TablesOK
  <1>3. ASSUME NEW g \in Grants, Deny(g)
        PROVE  TablesOK' /\ HandOK'
    BY <1>0, <1>3, <1>r, TablesShrink, HandKept DEF Deny, CleanTokens, TablesOK
  <1>4. ASSUME NEW g \in Grants, NEW u \in Users, Approve(g, u)
        PROVE  TablesOK' /\ HandOK'
    <2>1. /\ grants' \in Seq(Grant) /\ Len(grants') = Len(grants) /\ Grants' = Grants
      BY <1>4, GrantsApproved
    <2>2. UNCHANGED <<now, pairs, hand, families, revoked>>
      BY <1>4 DEF Approve
    <2>3. Pairs' = Pairs /\ Families' = Families
      BY <2>2 DEF Pairs, Families
    <2>4. /\ pending' \subseteq Grants /\ codes' \subseteq Grants
          /\ access' \subseteq Pairs /\ refresh' \subseteq Pairs
      BY <1>4, <1>r DEF Approve, CleanTokens
    <2> QED
      BY <1>0, <2>1, <2>2, <2>3, <2>4, HandKept DEF TablesOK
  <1>5. ASSUME NEW s \in Slots, Request(s)
        PROVE  TablesOK' /\ HandOK'
    <2>1. ASSUME NEW kind \in {"code", "refresh", "revoke"}, NEW id \in Nat, NEW c \in Clients,
                 kind = "code" => id \in Grants, kind # "code" => id \in Pairs,
                 Load(s, kind, id, c)
          PROVE  TablesOK' /\ HandOK'
      <3>1. TablesOK' /\ Grants' = Grants /\ Pairs' = Pairs
        BY <1>0, <1>r, <2>1, TablesShrink DEF Load, CleanAll, CleanTokens, TablesOK
      <3>2. [kind |-> kind, id |-> id, client |-> c] \in Loaded
        BY DEF Loaded
      <3>3. hand' = [hand EXCEPT ![s] = [kind |-> kind, id |-> id, client |-> c]]
        BY <2>1 DEF Load
      <3> QED
        BY <1>0, <2>1, <3>1, <3>2, <3>3 DEF HandOK
    <2>2. ASSUME NEW g \in Grants, NEW c \in Clients, LoadCode(s, g, c)
          PROVE  TablesOK' /\ HandOK'
      BY <2>1, <2>2 DEF LoadCode, Grants
    <2>3. ASSUME NEW n \in Pairs, NEW c \in Clients, LoadRefresh(s, n, c) \/ LoadRevoke(s, n, c)
          PROVE  TablesOK' /\ HandOK'
      BY <2>1, <2>3 DEF LoadRefresh, LoadRevoke, Pairs
    <2>4. CASE ExchangeCode(s)
      <3>1. PICK g \in Grants, c \in Clients, f \in Nat :
              g = hand[s].id /\ c = hand[s].client /\ f = Len(families) + 1
        BY <1>0, <2>4, HandRows DEF ExchangeCode, TablesOK
      <3>2. /\ families' = Append(families, g) /\ InsertPair(f, c) /\ Done(s)
            /\ UNCHANGED <<now, grants, pending, revoked>> /\ codes' \subseteq codes
            /\ access' = access \cup {Len(pairs) + 1} /\ refresh' = refresh \cup {Len(pairs) + 1}
            /\ Len(pairs) < MaxPairs
        BY <2>4, <3>1 DEF ExchangeCode
      <3>3. /\ families' \in Seq(Nat) /\ Families' = Families \cup {f} /\ f \in Nat
            /\ \A h \in Families : families'[h] = families[h]
            /\ families'[f] = g
        BY <3>1, <3>2, FamiliesAdded
      <3>4. /\ pairs' \in Seq(Pair) /\ Pairs' = Pairs \cup {Len(pairs) + 1}
            /\ \A n \in Pairs : pairs'[n] = pairs[n]
            /\ pairs'[Len(pairs) + 1] = [family |-> f, client |-> c, at |-> now]
            /\ Len(pairs') = Len(pairs) + 1 /\ Len(pairs) \in Nat
        BY <3>1, <3>2, <3>3, PairsAdded
      <3>5. Grants' = Grants
        BY <3>2 DEF Grants
      <3>6. Len(pairs') <= MaxPairs
        BY <3>2, <3>4, Bounds
      <3>7. \A h \in Families' : families'[h] \in Grants
        BY <1>0, <3>1, <3>3 DEF TablesOK
      <3>10. \A n \in Pairs : pairs[n].family \in Families
        BY <1>0 DEF TablesOK
      <3>9. \A n \in Pairs' : pairs'[n].family \in Families'
        BY <3>3, <3>4, <3>10
      <3>8. TablesOK'
        BY <1>0, <3>2, <3>3, <3>4, <3>5, <3>6, <3>7, <3>9 DEF TablesOK
      <3> QED
        BY <1>0, <3>2, <3>4, <3>5, <3>8, HandKept
    <2>5. CASE ExchangeRefresh(s)
      <3>1. PICK n \in Pairs, c \in Clients, f \in Nat :
              n = hand[s].id /\ c = hand[s].client /\ f = pairs[n].family /\ f \in Families
        BY <2>5, HandRows, PairFamilies DEF ExchangeRefresh
      <3>2. /\ InsertPair(f, c) /\ Done(s)
            /\ UNCHANGED <<now, grants, pending, codes, families, revoked>>
            /\ access' \subseteq access \cup {Len(pairs) + 1}
            /\ refresh' \subseteq refresh \cup {Len(pairs) + 1}
            /\ Len(pairs) < MaxPairs
        BY <2>5, <3>1 DEF ExchangeRefresh
      <3>4. /\ pairs' \in Seq(Pair) /\ Pairs' = Pairs \cup {Len(pairs) + 1}
            /\ \A m \in Pairs : pairs'[m] = pairs[m]
            /\ pairs'[Len(pairs) + 1] = [family |-> f, client |-> c, at |-> now]
            /\ Len(pairs') = Len(pairs) + 1 /\ Len(pairs) \in Nat
        BY <3>1, <3>2, PairsAdded
      <3>5. Grants' = Grants /\ Families' = Families
        BY <3>2 DEF Grants, Families
      <3>6. Len(pairs') <= MaxPairs
        BY <3>2, <3>4, Bounds
      <3>9. \A m \in Pairs : pairs[m].family \in Families
        BY <1>0 DEF TablesOK
      <3>7. \A m \in Pairs' : pairs'[m].family \in Families
        BY <3>1, <3>4, <3>9
      <3>8. TablesOK'
        BY <1>0, <3>2, <3>4, <3>5, <3>6, <3>7 DEF TablesOK
      <3> QED
        BY <1>0, <3>2, <3>4, <3>5, <3>8, HandKept
    <2>6. CASE ExchangeFails(s) \/ GiveUp(s)
      BY <1>0, <2>6, TablesShrink, HandKept DEF ExchangeFails, GiveUp, TablesOK
    <2>7. CASE Revoke(s)
      <3>1. pairs[hand[s].id].family \in Families
        BY <2>7, HandRows, PairFamilies DEF Revoke
      <3>2. /\ UNCHANGED <<now, grants, pending, codes, pairs, families>> /\ Done(s)
            /\ access' \subseteq access /\ refresh' \subseteq refresh
            /\ revoked' = revoked \cup {pairs[hand[s].id].family}
        BY <2>7 DEF Revoke
      <3>3. TablesOK' /\ Grants' = Grants /\ Pairs' = Pairs
        BY <1>0, <3>1, <3>2, TablesShrink DEF TablesOK
      <3> QED
        BY <1>0, <3>2, <3>3, HandKept
    <2> QED
      BY <1>5, <2>2, <2>3, <2>4, <2>5, <2>6, <2>7 DEF Request
  <1>6. CASE Tick
    <2>1. now' \in 0 .. MaxTime
      BY <1>0, <1>6, Bounds DEF Tick, TablesOK
    <2>2. /\ UNCHANGED <<grants, pending, codes, pairs, access, refresh, hand, families, revoked>>
          /\ Grants' = Grants /\ Pairs' = Pairs /\ Families' = Families
      BY <1>6 DEF Tick, Grants, Pairs, Families
    <2> QED
      BY <1>0, <2>1, <2>2, HandKept DEF TablesOK
  <1>7. CASE UNCHANGED oauthVars
    BY <1>0, <1>7, TablesShrink, HandKept DEF oauthVars, TablesOK
  <1> QED
    BY <1>1, <1>2, <1>3, <1>4, <1>5, <1>6, <1>7 DEF OAuthNext

\* Every table only ever names rows that exist, whatever requests are under way.
THEOREM TablesTyped == OAuthSpec => []TypeOK
  BY StartTyped, StepTyped, PTL DEF OAuthSpec

-------------------------------------------------------------------------------
(***************************************************************************)
(* What a step does to the rows of tokens: two requests issue a pair, one  *)
(* revokes a family, every other step only takes rows away.                *)
(***************************************************************************)
\* A code becomes the first pair of a new family.
Issues(g, c, f, new) ==
  /\ f = Len(families) + 1 /\ new = Len(pairs) + 1
  /\ f \notin Families /\ Families' = Families \cup {f} /\ families'[f] = g
  /\ \A h \in Families : families'[h] = families[h]
  /\ new \notin Pairs /\ Pairs' = Pairs \cup {new} /\ \A m \in Pairs : m <= new
  /\ \A m \in Pairs : pairs'[m] = pairs[m]
  /\ pairs'[new].family = f /\ pairs'[new].client = c /\ pairs'[new].at = now
  /\ grants[g].client = c
  /\ codes' = codes \ {g} /\ access' = access \cup {new} /\ refresh' = refresh \cup {new}
  /\ UNCHANGED <<now, grants, pending, revoked>>

LEMMA ExchangeCodeIssues ==
  ASSUME TypeOK, NEW s \in Slots, ExchangeCode(s)
  PROVE  \E g \in FreshCodes, c \in Clients, f \in Nat, new \in Nat : Issues(g, c, f, new)
  <1>0. TablesOK
    BY TypeParts
  <1>1. PICK g \in Grants, c \in Clients, f \in Nat, new \in Nat :
          /\ g = hand[s].id /\ c = hand[s].client
          /\ f = Len(families) + 1 /\ new = Len(pairs) + 1
    BY <1>0, HandRows DEF ExchangeCode, TablesOK
  <1>2. /\ families' = Append(families, g) /\ InsertPair(f, c)
        /\ g \in FreshCodes /\ grants[g].client = c
        /\ codes' = codes \ {g} /\ access' = access \cup {new} /\ refresh' = refresh \cup {new}
        /\ UNCHANGED <<now, grants, pending, revoked>>
    BY <1>1 DEF ExchangeCode, OwnCode
  <1>3. /\ Families' = Families \cup {f} /\ f \notin Families
        /\ \A h \in Families : families'[h] = families[h]
        /\ families'[f] = g
    BY <1>1, <1>2, FamiliesAdded
  <1>4. /\ Pairs' = Pairs \cup {new} /\ new \notin Pairs
        /\ \A m \in Pairs : pairs'[m] = pairs[m]
        /\ pairs'[new] = [family |-> f, client |-> c, at |-> now]
    BY <1>1, <1>2, PairsAdded
  <1>5. \A m \in Pairs : m <= new
    BY <1>1 DEF Pairs
  <1>6. pairs'[new].family = f /\ pairs'[new].client = c /\ pairs'[new].at = now
    BY <1>4
  <1> QED
    BY <1>1, <1>2, <1>3, <1>4, <1>5, <1>6 DEF Issues

\* A refresh token becomes the next pair of its family, which keeps no other access token.
Rotates(n, c, f, new) ==
  /\ f = pairs[n].family /\ c = pairs[n].client /\ new = Len(pairs) + 1
  /\ new \notin Pairs /\ Pairs' = Pairs \cup {new} /\ \A m \in Pairs : m <= new
  /\ \A m \in Pairs : pairs'[m] = pairs[m]
  /\ pairs'[new].family = f /\ pairs'[new].client = c /\ pairs'[new].at = now
  /\ refresh' = (refresh \ {n}) \cup {new}
  /\ access' = (access \ OfFamily(f)) \cup {new}
  /\ UNCHANGED <<now, grants, pending, codes, families, revoked>>

LEMMA ExchangeRefreshRotates ==
  ASSUME TypeOK, NEW s \in Slots, ExchangeRefresh(s)
  PROVE  \E n \in FreshRefresh, c \in Clients, f \in Families, new \in Nat : Rotates(n, c, f, new)
  <1>0. TablesOK
    BY TypeParts
  <1>1. PICK n \in Pairs, c \in Clients, f \in Nat, new \in Nat :
          /\ n = hand[s].id /\ c = hand[s].client
          /\ f = pairs[n].family /\ f \in Families /\ new = Len(pairs) + 1
    BY <1>0, HandRows, PairFamilies DEF ExchangeRefresh, TablesOK
  <1>2. /\ InsertPair(f, c) /\ n \in FreshRefresh /\ c = pairs[n].client
        /\ refresh' = (refresh \ {n}) \cup {new}
        /\ access' = (access \ OfFamily(f)) \cup {new}
        /\ UNCHANGED <<now, grants, pending, codes, families, revoked>>
    BY <1>1 DEF ExchangeRefresh, OwnRefresh
  <1>4. /\ Pairs' = Pairs \cup {new} /\ new \notin Pairs
        /\ \A m \in Pairs : pairs'[m] = pairs[m]
        /\ pairs'[new] = [family |-> f, client |-> c, at |-> now]
    BY <1>1, <1>2, PairsAdded
  <1>5. \A m \in Pairs : m <= new
    BY <1>1 DEF Pairs
  <1>6. pairs'[new].family = f /\ pairs'[new].client = c /\ pairs'[new].at = now
    BY <1>4
  <1> QED
    BY <1>1, <1>2, <1>4, <1>5, <1>6 DEF Rotates

Revokes(f) ==
  /\ access' = access \ OfFamily(f) /\ refresh' = refresh \ OfFamily(f)
  /\ revoked' = revoked \cup {f}
  /\ UNCHANGED <<now, grants, pending, codes, pairs, families>>

LEMMA RevokeRevokes ==
  ASSUME TypeOK, NEW s \in Slots, Revoke(s)
  PROVE  \E f \in Families : Revokes(f)
  <1>1. pairs[hand[s].id].family \in Families
    BY HandRows, PairFamilies DEF Revoke
  <1> QED
    BY <1>1 DEF Revoke, Revokes

OnlyTakesTokens ==
  /\ access' \subseteq access /\ refresh' \subseteq refresh
  /\ UNCHANGED <<pairs, families, revoked>>

TokenStep ==
  \/ OnlyTakesTokens
  \/ \E g \in FreshCodes, c \in Clients, f \in Nat, new \in Nat : Issues(g, c, f, new)
  \/ \E n \in FreshRefresh, c \in Clients, f \in Families, new \in Nat : Rotates(n, c, f, new)
  \/ \E f \in Families : Revokes(f)

LEMMA StepTokens ==
  ASSUME TypeOK, [OAuthNext]_oauthVars
  PROVE  TokenStep
  <1>1. ASSUME NEW s \in Slots, Request(s)
        PROVE  TokenStep
    <2>1. CASE \E c \in Clients :
                 \/ \E g \in Grants : LoadCode(s, g, c)
                 \/ \E n \in Pairs : LoadRefresh(s, n, c) \/ LoadRevoke(s, n, c)
      BY <2>1, FreshRows
         DEF TokenStep, OnlyTakesTokens, LoadCode, LoadRefresh, LoadRevoke, Load, CleanAll, CleanTokens
    <2>2. CASE ExchangeFails(s) \/ GiveUp(s)
      BY <2>2 DEF ExchangeFails, GiveUp, TokenStep, OnlyTakesTokens
    <2>3. CASE ExchangeCode(s)
      BY <2>3, ExchangeCodeIssues DEF TokenStep
    <2>4. CASE ExchangeRefresh(s)
      BY <2>4, ExchangeRefreshRotates DEF TokenStep
    <2>5. CASE Revoke(s)
      BY <2>5, RevokeRevokes DEF TokenStep
    <2> QED
      BY <1>1, <2>1, <2>2, <2>3, <2>4, <2>5 DEF Request
  <1>2. CASE \/ \E c \in Clients : Authorize(c)
             \/ CleanUp
             \/ \E g \in Grants : Deny(g) \/ \E u \in Users : Approve(g, u)
    BY <1>2, FreshRows
       DEF TokenStep, OnlyTakesTokens, Authorize, CleanUp, Deny, Approve, CleanAll, CleanTokens
  <1>3. CASE Tick \/ UNCHANGED oauthVars
    BY <1>3 DEF Tick, oauthVars, TokenStep, OnlyTakesTokens
  <1> QED
    BY <1>1, <1>2, <1>3 DEF OAuthNext

-------------------------------------------------------------------------------
\* Only the newest pair of a family is in the tables: a new pair is newer than every
\* other, and a rotation takes the last refresh token of its family away.
LEMMA StepNewest ==
  ASSUME TypeOK, OnlyNewestPairAnswers, [OAuthNext]_oauthVars
  PROVE  OnlyNewestPairAnswers'
  <1>0. TokenStep /\ TablesOK
    BY StepTokens, TypeParts
  <1>1. /\ Pairs \subseteq Nat /\ access \subseteq Pairs /\ refresh \subseteq Pairs
        /\ \A k \in access \cup refresh, h \in Pairs :
             pairs[h].family = pairs[k].family => h <= k
    BY <1>0 DEF OnlyNewestPairAnswers, OfFamily, TablesOK, Pairs
  <1> SUFFICES ASSUME NEW n \in access' \cup refresh', NEW m \in Pairs',
                      pairs'[m].family = pairs'[n].family
               PROVE  m <= n
    BY DEF OnlyNewestPairAnswers, OfFamily
  <1>2. CASE OnlyTakesTokens
    BY <1>1, <1>2 DEF OnlyTakesTokens, Pairs
  <1>3. ASSUME NEW g \in FreshCodes, NEW c \in Clients, NEW f \in Nat, NEW new \in Nat,
               Issues(g, c, f, new)
        PROVE  m <= n
    <2>1. \A k \in Pairs : pairs'[k].family # f
      BY <1>0, <1>3 DEF Issues, TablesOK
    <2>2. CASE n = new
      <3>1. m \in Pairs \/ m = new
        BY <1>3 DEF Issues
      <3>2. \A k \in Pairs : k <= new
        BY <1>3 DEF Issues
      <3> QED
        BY <2>2, <3>1, <3>2
    <2>3. CASE n # new
      <3>1. n \in access \cup refresh /\ n \in Pairs
        BY <1>1, <1>3, <2>3 DEF Issues
      <3>2. m \in Pairs /\ pairs[m].family = pairs[n].family
        BY <1>3, <2>1, <3>1 DEF Issues
      <3> QED
        BY <1>1, <3>1, <3>2
    <2> QED
      BY <2>2, <2>3
  <1>4. ASSUME NEW o \in FreshRefresh, NEW c \in Clients, NEW f \in Families, NEW new \in Nat,
               Rotates(o, c, f, new)
        PROVE  m <= n
    <2>1. o \in refresh
      BY FreshRows
    <2>2. CASE n = new
      BY <1>4, <2>2 DEF Rotates
    <2>3. CASE n # new
      <3>1. n \in access \cup refresh /\ n \in Pairs /\ o \in Pairs
        BY <1>1, <1>4, <2>1, <2>3 DEF Rotates
      <3>2. pairs[n].family # f
        <4>1. SUFFICES ASSUME pairs[n].family = f PROVE FALSE
          OBVIOUS
        <4>2. n \in refresh /\ n # o
          BY <1>4, <2>3, <3>1, <4>1 DEF Rotates, OfFamily
        <4>3. n <= o /\ o <= n
          BY <1>1, <1>4, <2>1, <3>1, <4>1 DEF Rotates
        <4> QED
          BY <1>1, <2>1, <3>1, <4>2, <4>3
      <3>3. m \in Pairs /\ pairs[m].family = pairs[n].family
        BY <1>4, <3>1, <3>2 DEF Rotates
      <3> QED
        BY <1>1, <3>1, <3>3
    <2> QED
      BY <2>2, <2>3
  <1>5. ASSUME NEW f \in Families, Revokes(f)
        PROVE  m <= n
    BY <1>1, <1>5 DEF Revokes, Pairs
  <1> QED
    BY <1>0, <1>2, <1>3, <1>4, <1>5 DEF TokenStep

\* A use of a token that was rotated away finds no row, for any clients, requests and
\* lifetimes (oauth_server.py, exchange_refresh_token).
THEOREM OnlyTheNewestPairAnswers == OAuthSpec => []OnlyNewestPairAnswers
  <1>1. OAuthInit => OnlyNewestPairAnswers
    BY DEF OAuthInit, OnlyNewestPairAnswers
  <1> QED
    BY <1>1, StepNewest, TablesTyped, PTL DEF OAuthSpec

\* A rotation of a revoked family finds no row, so no new row joins one.
LEMMA StepDead ==
  ASSUME TypeOK, RevokedFamiliesStayDead, [OAuthNext]_oauthVars
  PROVE  RevokedFamiliesStayDead'
  <1>0. TokenStep /\ TablesOK
    BY StepTokens, TypeParts
  <1>1. /\ access \cup refresh \subseteq Pairs /\ revoked \subseteq Families
        /\ \A n \in access \cup refresh : pairs[n].family \notin revoked
    BY <1>0 DEF TablesOK, RevokedFamiliesStayDead
  <1> SUFFICES ASSUME NEW n \in access' \cup refresh'
               PROVE  pairs'[n].family \notin revoked'
    BY DEF RevokedFamiliesStayDead
  <1>2. CASE OnlyTakesTokens
    BY <1>1, <1>2 DEF OnlyTakesTokens
  <1>3. ASSUME NEW g \in FreshCodes, NEW c \in Clients, NEW f \in Nat, NEW new \in Nat,
               Issues(g, c, f, new)
        PROVE  pairs'[n].family \notin revoked'
    BY <1>1, <1>3 DEF Issues
  <1>4. ASSUME NEW o \in FreshRefresh, NEW c \in Clients, NEW f \in Families, NEW new \in Nat,
               Rotates(o, c, f, new)
        PROVE  pairs'[n].family \notin revoked'
    BY <1>1, <1>4, FreshRows DEF Rotates
  <1>5. ASSUME NEW f \in Families, Revokes(f)
        PROVE  pairs'[n].family \notin revoked'
    BY <1>1, <1>5 DEF Revokes, OfFamily
  <1> QED
    BY <1>0, <1>2, <1>3, <1>4, <1>5 DEF TokenStep

\* Revocation is final, also for a refresh that was loaded before it
\* (oauth_server.py, revoke_token).
THEOREM RevokedStaysDead == OAuthSpec => []RevokedFamiliesStayDead
  <1>1. OAuthInit => RevokedFamiliesStayDead
    BY DEF OAuthInit, RevokedFamiliesStayDead
  <1> QED
    BY <1>1, StepDead, TablesTyped, PTL DEF OAuthSpec

-------------------------------------------------------------------------------
(***************************************************************************)
(* Consents: a row waits or was consented to, never both, and what was     *)
(* consented to stays so.                                                  *)
(***************************************************************************)
ConsentsOK ==
  /\ codes \subseteq Consented
  /\ pending \cap Consented = {}
  /\ TokensStayWithClient

\* Rows of grants and of families keep what the tokens rely on.
GrantsKept ==
  /\ Grants \subseteq Grants'
  /\ \A g \in Grants : /\ grants'[g].client = grants[g].client
                       /\ grants[g].by \in Users => grants'[g].by \in Users

\* What a step does to grants: one row more, one consent, or rows taken away.
GrantStep ==
  \/ \E c \in Clients : Authorize(c)
  \/ \E g \in Grants, u \in Users : Approve(g, u)
  \/ UNCHANGED grants /\ pending' \subseteq pending /\ codes' \subseteq codes

LEMMA StepGrants ==
  ASSUME TypeOK, [OAuthNext]_oauthVars
  PROVE  GrantStep
  <1>1. ASSUME NEW s \in Slots, Request(s)
        PROVE  GrantStep
    <2>1. CASE \E c \in Clients :
                 \/ \E g \in Grants : LoadCode(s, g, c)
                 \/ \E n \in Pairs : LoadRefresh(s, n, c) \/ LoadRevoke(s, n, c)
      BY <2>1, FreshRows
         DEF GrantStep, LoadCode, LoadRefresh, LoadRevoke, Load, CleanAll
    <2>2. CASE ExchangeFails(s) \/ GiveUp(s) \/ ExchangeCode(s) \/ ExchangeRefresh(s) \/ Revoke(s)
      BY <2>2 DEF ExchangeFails, GiveUp, ExchangeCode, ExchangeRefresh, Revoke, GrantStep
    <2> QED
      BY <1>1, <2>1, <2>2 DEF Request
  <1>2. CASE CleanUp \/ \E g \in Grants : Deny(g)
    BY <1>2, FreshRows DEF GrantStep, CleanUp, Deny, CleanAll
  <1>3. CASE Tick \/ UNCHANGED oauthVars
    BY <1>3 DEF Tick, oauthVars, GrantStep
  <1> QED
    BY <1>1, <1>2, <1>3 DEF OAuthNext, GrantStep

LEMMA StepConsentsKept ==
  ASSUME TypeOK, GrantStep, codes \subseteq Consented, pending \cap Consented = {}
  PROVE  /\ GrantsKept
         /\ \/ codes' \subseteq Consented'
            \/ \E s \in Slots : ExchangeCode(s)
         /\ pending' \cap Consented' = {}
  <1>0. TablesOK /\ Nobody \notin Users
    BY TypeParts, Bounds
  <1>1. ASSUME NEW c \in Clients, Authorize(c)
        PROVE  GrantsKept /\ codes' \subseteq Consented' /\ pending' \cap Consented' = {}
    <2>1. /\ Grants' = Grants \cup {Len(grants) + 1} /\ Len(grants) + 1 \notin Grants
          /\ \A g \in Grants : grants'[g] = grants[g]
          /\ grants'[Len(grants) + 1] = [client |-> c, by |-> Nobody, at |-> now]
      BY <1>1, GrantsAdded
    <2>2. codes' \subseteq codes /\ pending' \subseteq pending \cup {Len(grants) + 1}
      BY <1>1, FreshRows DEF Authorize
    <2>3. Consented' = Consented
      <3>1. grants'[Len(grants) + 1].by = Nobody
        BY <2>1
      <3> QED
        BY <2>1, <3>1 DEF Consented
    <2> QED
      BY <1>0, <2>1, <2>2, <2>3 DEF GrantsKept, Consented
  <1>2. ASSUME NEW g \in Grants, NEW u \in Users, Approve(g, u)
        PROVE  GrantsKept /\ codes' \subseteq Consented' /\ pending' \cap Consented' = {}
    <2>1. /\ g \in Grants /\ Grants' = Grants
          /\ \A h \in Grants : grants'[h].client = grants[h].client
          /\ \A h \in Grants : h # g => grants'[h] = grants[h]
          /\ grants'[g].by = u
      BY <1>2, GrantsApproved
    <2>2. codes' \subseteq codes \cup {g} /\ pending' \subseteq pending \ {g}
      BY <1>2, FreshRows DEF Approve
    <2>3. Consented' = Consented \cup {g}
      BY <1>0, <2>1 DEF Consented
    <2> QED
      BY <1>0, <2>1, <2>2, <2>3 DEF GrantsKept, Consented
  <1>3. CASE UNCHANGED grants /\ pending' \subseteq pending /\ codes' \subseteq codes
    BY <1>3 DEF GrantsKept, Consented, Grants
  <1> QED
    BY <1>1, <1>2, <1>3 DEF GrantStep

\* A family's grant is the one its code was issued for; rotation keeps family and client.
LEMMA StepConsents ==
  ASSUME TypeOK, ConsentsOK, [OAuthNext]_oauthVars
  PROVE  ConsentsOK'
  <1>0. TokenStep /\ GrantStep /\ TablesOK
    BY StepTokens, StepGrants, TypeParts
  <1>1. /\ GrantsKept /\ pending' \cap Consented' = {} /\ codes \subseteq Consented
        /\ codes' \subseteq Consented' \/ \E s \in Slots : ExchangeCode(s)
    BY <1>0, StepConsentsKept DEF ConsentsOK
  <1>2. codes' \subseteq Consented'
    <2>1. CASE \E s \in Slots : ExchangeCode(s)
      BY <1>1, <2>1 DEF ExchangeCode, Consented, Grants
    <2> QED
      BY <1>1, <2>1
  <1>3. \A n \in Pairs : /\ pairs[n].family \in Families /\ families[pairs[n].family] \in Grants
                         /\ grants[families[pairs[n].family]].client = pairs[n].client
                         /\ grants[families[pairs[n].family]].by \in Users
    BY <1>0 DEF TablesOK, ConsentsOK, TokensStayWithClient
  <1>4. ASSUME NEW n \in Pairs'
        PROVE  /\ grants'[families'[pairs'[n].family]].client = pairs'[n].client
               /\ grants'[families'[pairs'[n].family]].by \in Users
    <2>1. CASE OnlyTakesTokens
      BY <1>1, <1>3, <2>1 DEF OnlyTakesTokens, GrantsKept, Pairs
    <2>2. ASSUME NEW g \in FreshCodes, NEW c \in Clients, NEW f \in Nat, NEW new \in Nat,
                 Issues(g, c, f, new)
          PROVE  /\ grants'[families'[pairs'[n].family]].client = pairs'[n].client
                 /\ grants'[families'[pairs'[n].family]].by \in Users
      <3>1. g \in Grants /\ grants[g].by # Nobody
        BY <1>1, FreshRows DEF Consented
      <3>2. grants[g].by \in Users
        <4>1. grants \in Seq(Grant) /\ g \in 1 .. Len(grants)
          BY <1>0, <3>1 DEF TablesOK, Grants
        <4>2. grants[g] \in Grant
          BY <4>1
        <4> QED
          BY <3>1, <4>2 DEF Grant
      <3>3. CASE n = new
        BY <2>2, <3>2, <3>3 DEF Issues
      <3>4. CASE n # new
        BY <1>3, <2>2, <3>4 DEF Issues
      <3> QED
        BY <3>3, <3>4
    <2>3. ASSUME NEW o \in FreshRefresh, NEW c \in Clients, NEW f \in Families, NEW new \in Nat,
                 Rotates(o, c, f, new)
          PROVE  /\ grants'[families'[pairs'[n].family]].client = pairs'[n].client
                 /\ grants'[families'[pairs'[n].family]].by \in Users
      <3>1. o \in Pairs
        BY <1>0, FreshRows DEF TablesOK
      <3>3. CASE n = new
        BY <1>3, <2>3, <3>1, <3>3 DEF Rotates
      <3>4. CASE n # new
        BY <1>3, <2>3, <3>4 DEF Rotates
      <3> QED
        BY <3>3, <3>4
    <2>4. ASSUME NEW f \in Families, Revokes(f)
          PROVE  /\ grants'[families'[pairs'[n].family]].client = pairs'[n].client
                 /\ grants'[families'[pairs'[n].family]].by \in Users
      BY <1>3, <2>4 DEF Revokes, Pairs
    <2> QED
      BY <1>0, <2>1, <2>2, <2>3, <2>4 DEF TokenStep
  <1> QED
    BY <1>1, <1>2, <1>4 DEF ConsentsOK, TokensStayWithClient

LEMMA ConsentsHold == OAuthSpec => []ConsentsOK
  <1>1. OAuthInit => ConsentsOK
    BY DEF OAuthInit, ConsentsOK, TokensStayWithClient, Pairs
  <1> QED
    BY <1>1, StepConsents, TablesTyped, PTL DEF OAuthSpec

\* No client ever holds a token for a grant it did not ask for itself, or that no user
\* consented to, however the loads and exchanges of the clients interleave
\* (oauth_server.py, the WHERE clauses of load_authorization_code and of the exchanges).
THEOREM ClientsKeepTheirTokens == OAuthSpec => []TokensStayWithClient
  BY ConsentsHold, PTL DEF ConsentsOK

-------------------------------------------------------------------------------
(***************************************************************************)
(* OAuthTokens implements TokenFamilies.  A rotation must find exactly one *)
(* live refresh token in its family: that is what OnlyNewestPairAnswers    *)
(* gives.  A consent must be new: that is ConsentsOK.                      *)
(***************************************************************************)
ImplInv == TypeOK /\ OnlyNewestPairAnswers /\ ConsentsOK

\* A family has one live refresh token at most.
LEMMA OneHolder ==
  ASSUME TypeOK, OnlyNewestPairAnswers, NEW f, NEW m \in FreshRefresh \cap OfFamily(f),
         NEW n \in FreshRefresh \cap OfFamily(f)
  PROVE  m = n
  <1>1. m \in refresh /\ n \in refresh /\ pairs[m].family = f /\ pairs[n].family = f
    BY FreshRows DEF OfFamily
  <1>2. m \in Pairs /\ n \in Pairs /\ m \in Nat /\ n \in Nat
    BY <1>1 DEF TypeOK, Pairs
  <1>3. m <= n /\ n <= m
    BY <1>1, <1>2 DEF OnlyNewestPairAnswers, OfFamily
  <1> QED
    BY <1>2, <1>3

HoldersOK ==
  /\ Holders \in Seq(SUBSET Nat) /\ Len(Holders) = Len(families) /\ DOMAIN Holders = Families
  /\ Len(families) \in Nat
  /\ \A f \in Families : Holders[f] = FreshRefresh \cap OfFamily(f)

LEMMA HoldersTyped == TypeOK => HoldersOK
  <1> SUFFICES ASSUME TypeOK
               PROVE  HoldersOK
    OBVIOUS
  <1>1. Len(families) \in Nat
    BY DEF TypeOK
  <1>2. \A f \in Families : FreshRefresh \cap OfFamily(f) \in SUBSET Nat
    BY DEF OfFamily, Pairs
  <1> QED
    BY <1>1, <1>2 DEF HoldersOK, Holders, Families

LEMMA HoldersTypedNext == TypeOK' => HoldersOK'
  BY HoldersTyped, PTL

\* Clean-up, and whatever else leaves the rows of consents and tokens, is no step.
LEMMA Stutters ==
  ASSUME TypeOK, UNCHANGED <<now, pairs, families>>,
         codes' = codes \/ codes' = FreshCodes,
         refresh' = refresh \/ refresh' = FreshRefresh,
         \A g \in codes : grants'[g] = grants[g],
         Consented' = Consented
  PROVE  UNCHANGED Promise!famVars
  <1>1. FreshCodes' = FreshCodes
    BY DEF FreshCodes
  <1>2. FreshRefresh' = FreshRefresh
    BY DEF FreshRefresh
  <1>3. Holders' = Holders
    BY <1>2 DEF Holders, OfFamily, Pairs, Families
  <1> QED
    BY <1>1, <1>3 DEF Promise!famVars, OpenConsents

LEMMA ConsentMaps ==
  ASSUME ImplInv, NEW g \in Grants, NEW u \in Users, Approve(g, u)
  PROVE  Promise!Consent(g)
  <1>0. TablesOK /\ Nobody \notin Users /\ CodeTTL \in Nat /\ CodeTTL > 0 /\ now \in Nat
    BY TypeParts, Bounds DEF ImplInv, TablesOK
  <1>1. /\ Grants' = Grants
        /\ \A h \in Grants : h # g => grants'[h] = grants[h]
        /\ grants'[g].by = u /\ grants'[g].at = now
    BY GrantsApproved DEF ImplInv
  <1>2. /\ codes' = FreshCodes \cup {g} /\ refresh' = FreshRefresh
        /\ UNCHANGED <<now, pairs, families>> /\ g \in pending
    BY FreshRows DEF Approve, CleanTokens
  <1>3. FreshCodes \subseteq Grants /\ FreshCodes \subseteq Consented /\ g \notin Consented
    BY <1>0, <1>2, FreshRows DEF ImplInv, ConsentsOK, TablesOK
  <1>4. FreshCodes' = FreshCodes \cup {g}
    BY <1>0, <1>1, <1>2, <1>3 DEF FreshCodes
  <1>5. Consented' = Consented \cup {g}
    BY <1>0, <1>1 DEF Consented
  <1>6. FreshRefresh' = FreshRefresh
    BY <1>2 DEF FreshRefresh
  <1>7. Holders' = Holders
    BY <1>2, <1>6 DEF Holders, OfFamily, Pairs, Families
  <1> QED
    BY <1>2, <1>3, <1>4, <1>5, <1>7 DEF Promise!Consent, OpenConsents

LEMMA RedeemMaps ==
  ASSUME ImplInv, NEW g \in FreshCodes, NEW c \in Clients, NEW f \in Nat, NEW new \in Nat,
         Issues(g, c, f, new), TypeOK'
  PROVE  Promise!Redeem(g)
  <1>0. /\ TypeOK /\ TablesOK /\ RefreshTTL \in Nat /\ RefreshTTL > 0 /\ now \in Nat
        /\ refresh \subseteq Pairs
    BY TypeParts, Bounds DEF ImplInv, TablesOK
  <1>1. FreshCodes' = FreshCodes \ {g} /\ Consented' = Consented
    BY DEF FreshCodes, Consented, Issues, Grants
  <1>2. FreshCodes \subseteq Consented
    BY FreshRows DEF ImplInv, ConsentsOK
  <1>3. FreshRefresh' = FreshRefresh \cup {new} /\ new \notin FreshRefresh
    BY <1>0 DEF FreshRefresh, Issues
  <1>4. /\ \A h \in Families : OfFamily(h)' = OfFamily(h)
        /\ OfFamily(f)' = {new}
    BY <1>0 DEF OfFamily, Issues, TablesOK
  <1>5. \A h \in Families : OfFamily(h)' = OfFamily(h) /\ new \notin OfFamily(h)
    BY <1>4 DEF Issues, OfFamily
  <1>6. HoldersOK /\ HoldersOK'
    BY <1>0, HoldersTyped, HoldersTypedNext
  <1>7. Holders' = Append(Holders, {new})
    <2>1. /\ Append(Holders, {new}) \in Seq(SUBSET Nat)
          /\ Len(Append(Holders, {new})) = Len(families) + 1
          /\ \A h \in Families : Append(Holders, {new})[h] = Holders[h]
          /\ Append(Holders, {new})[f] = {new}
      <3>1. Holders \in Seq(SUBSET Nat) /\ {new} \in SUBSET Nat /\ f = Len(Holders) + 1
        BY <1>6 DEF HoldersOK, Issues
      <3> QED
        BY <1>6, <3>1, Appended DEF HoldersOK, Families
    <2>2. /\ Holders' \in Seq(SUBSET Nat) /\ Len(Holders') = Len(families) + 1
          /\ Families' = 1 .. Len(Holders')
      <3>1. Families = 1 .. Len(families) /\ Families' = 1 .. Len(families')
        BY DEF Families
      <3>2. Len(families') = Len(families) + 1
        BY <1>6, <3>1 DEF Issues, HoldersOK
      <3> QED
        BY <1>6, <3>1, <3>2 DEF HoldersOK
    <2>3. \A h \in Families' : Holders'[h] = Append(Holders, {new})[h]
      <3>1. \A h \in Families' : Holders'[h] = FreshRefresh' \cap OfFamily(h)'
        BY <1>6 DEF HoldersOK
      <3>2. Holders'[f] = {new}
        BY <1>3, <1>4, <3>1 DEF Issues
      <3>3. \A h \in Families : Holders'[h] = Holders[h]
        <4> TAKE h \in Families
        <4>1. Holders'[h] = FreshRefresh' \cap OfFamily(h)'
          BY <3>1 DEF Issues
        <4>2. FreshRefresh' \cap OfFamily(h)' = FreshRefresh \cap OfFamily(h)
          BY <1>3, <1>5
        <4> QED
          BY <1>6, <4>1, <4>2 DEF HoldersOK
      <3> QED
        BY <2>1, <3>2, <3>3 DEF Issues
    <2> QED
      BY <2>1, <2>2, <2>3, SeqEqual
  <1>8. Len(pairs') = Len(pairs) + 1 /\ new = Len(pairs) + 1
    <2>1. Pairs = 1 .. Len(pairs) /\ Pairs' = 1 .. Len(pairs') /\ Len(pairs) \in Nat /\ Len(pairs') \in Nat
      BY <1>0 DEF Pairs, TypeOK
    <2> QED
      BY <2>1 DEF Issues
  <1> QED
    BY <1>1, <1>2, <1>7, <1>8 DEF Promise!Redeem, OpenConsents

LEMMA RotateMaps ==
  ASSUME ImplInv, NEW n \in FreshRefresh, NEW c \in Clients, NEW f \in Families, NEW new \in Nat,
         Rotates(n, c, f, new), TypeOK'
  PROVE  Promise!Rotate(f)
  <1>0. /\ TypeOK /\ OnlyNewestPairAnswers
        /\ RefreshTTL \in Nat /\ RefreshTTL > 0 /\ now \in Nat /\ refresh \subseteq Pairs
    BY TypeParts, Bounds DEF ImplInv, TablesOK
  <1>1. FreshCodes' = FreshCodes /\ Consented' = Consented /\ Families' = Families
    BY DEF FreshCodes, Consented, Rotates, Grants, Families
  <1>2. FreshRefresh' = (FreshRefresh \ {n}) \cup {new} /\ new \notin FreshRefresh
    BY <1>0 DEF FreshRefresh, Rotates
  <1>3. /\ \A h \in Families : h # f => OfFamily(h)' = OfFamily(h)
        /\ OfFamily(f)' = OfFamily(f) \cup {new}
    BY DEF OfFamily, Rotates
  <1>4. n \in OfFamily(f) /\ \A h \in Families : h # f => n \notin OfFamily(h)
    BY <1>0, FreshRows DEF OfFamily, Rotates
  <1>5. FreshRefresh \cap OfFamily(f) = {n}
    BY <1>0, <1>4, OneHolder
  <1>6. HoldersOK /\ HoldersOK'
    BY <1>0, HoldersTyped, HoldersTypedNext
  <1>7. Holders'[f] = {new}
    BY <1>1, <1>2, <1>3, <1>5, <1>6 DEF HoldersOK
  <1>8. ASSUME NEW h \in Families, h # f
        PROVE  Holders'[h] = Holders[h]
    <2>1. new \notin OfFamily(h)
      BY DEF OfFamily, Rotates
    <2>2. FreshRefresh' \cap OfFamily(h)' = FreshRefresh \cap OfFamily(h)
      BY <1>2, <1>3, <1>4, <1>8, <2>1
    <2> QED
      BY <1>1, <1>6, <2>2 DEF HoldersOK
  <1>9. Holders' = [Holders EXCEPT ![f] = {new}]
    <2>1. DOMAIN Holders' = Families /\ DOMAIN Holders = Families
      BY <1>1, <1>6 DEF HoldersOK
    <2>2. Holders' = [h \in Families |-> Holders'[h]] /\ Holders = [h \in Families |-> Holders[h]]
      BY <1>1 DEF Holders
    <2> QED
      BY <1>7, <1>8, <2>1, <2>2
  <1>10. Holders[f] # {}
    BY <1>5, <1>6 DEF HoldersOK
  <1>11. Len(pairs') = Len(pairs) + 1 /\ new = Len(pairs) + 1
    <2>1. Pairs = 1 .. Len(pairs) /\ Pairs' = 1 .. Len(pairs') /\ Len(pairs) \in Nat /\ Len(pairs') \in Nat
      BY <1>0 DEF Pairs, TypeOK
    <2> QED
      BY <2>1 DEF Rotates
  <1> QED
    BY <1>1, <1>9, <1>10, <1>11 DEF Promise!Rotate, OpenConsents

\* What time and revocation take away is gone for the families as well.
LEMMA LapseMaps ==
  ASSUME ImplInv, UNCHANGED <<grants, codes, pairs, families>>,
         FreshCodes' \subseteq FreshCodes, FreshRefresh' \subseteq FreshRefresh,
         Families' = Families
  PROVE  \E gone \in SUBSET FreshCodes, dead \in SUBSET Families : Promise!Lapse(gone, dead)
  <1> DEFINE gone == FreshCodes \ FreshCodes'
             dead == {f \in Families : FreshRefresh' \cap OfFamily(f) = {}}
  <1>0. TypeOK /\ OnlyNewestPairAnswers /\ FreshCodes \subseteq Consented /\ HoldersOK
    BY FreshRows, HoldersTyped DEF ImplInv, ConsentsOK
  <1>1. FreshCodes' = FreshCodes \ gone
    OBVIOUS
  <1>2. Consented' \ FreshCodes' = (Consented \ FreshCodes) \cup gone
    <2>1. Consented' = Consented
      BY DEF Consented, Grants
    <2> QED
      BY <1>0, <2>1
  <1>3. \A f \in Families : FreshRefresh' \cap OfFamily(f)
                            = IF f \in dead THEN {} ELSE Holders[f]
    <2> TAKE f \in Families
    <2>1. CASE f \in dead
      BY <2>1
    <2>2. CASE f \notin dead
      <3>1. PICK m : m \in FreshRefresh' \cap OfFamily(f)
        BY <2>2
      <3>2. FreshRefresh \cap OfFamily(f) = {m}
        BY <1>0, <3>1, OneHolder
      <3> QED
        BY <1>0, <2>2, <3>1, <3>2 DEF HoldersOK
    <2> QED
      BY <2>1, <2>2
  <1>4. Holders' = [f \in Families |-> FreshRefresh' \cap OfFamily(f)]
    BY DEF Holders, OfFamily, Pairs
  <1> HIDE DEF gone, dead
  <1>5. Holders' = [f \in Families |-> IF f \in dead THEN {} ELSE Holders[f]]
    BY <1>3, <1>4
  <1>6. Promise!Families = Families
    BY <1>0 DEF Promise!Families, HoldersOK, Families
  <1>7. Promise!Lapse(gone, dead)
    BY <1>1, <1>2, <1>5, <1>6 DEF Promise!Lapse, OpenConsents
  <1> QED
    BY <1>7 DEF gone, dead

\* Each step maps to a step of the families or to none.
LEMMA StepMaps ==
  ASSUME ImplInv, ImplInv', [OAuthNext]_oauthVars
  PROVE  [Promise!FamNext]_(Promise!famVars)
  <1>0. /\ TypeOK /\ TypeOK' /\ TablesOK /\ HoldersOK
        /\ codes \subseteq Grants /\ Grants \subseteq 1 .. MaxGrants
    BY TypeParts, HoldersTyped, Bounds DEF ImplInv, TablesOK, Grants
  <1>1. Promise!Families = Families
    BY <1>0 DEF Promise!Families, HoldersOK, Families
  <1>2. ASSUME NEW c \in Clients, Authorize(c)
        PROVE  UNCHANGED Promise!famVars
    <2>1. /\ Grants' = Grants \cup {Len(grants) + 1} /\ Len(grants) + 1 \notin Grants
          /\ \A g \in Grants : grants'[g] = grants[g]
          /\ grants'[Len(grants) + 1] = [client |-> c, by |-> Nobody, at |-> now]
      BY <1>0, <1>2, GrantsAdded
    <2>2. grants'[Len(grants) + 1].by = Nobody
      BY <2>1
    <2>3. Consented' = Consented
      BY <2>1, <2>2 DEF Consented
    <2> QED
      BY <1>0, <1>2, <2>1, <2>3, Stutters DEF Authorize, CleanTokens
  <1>3. ASSUME UNCHANGED <<now, grants, pairs, families>>,
               codes' = codes \/ codes' = FreshCodes,
               refresh' = refresh \/ refresh' = FreshRefresh
        PROVE  UNCHANGED Promise!famVars
    <2>1. Consented' = Consented
      BY <1>3 DEF Consented, Grants
    <2> QED
      BY <1>0, <1>3, <2>1, Stutters
  <1>4. CASE CleanUp \/ \E g \in Grants : Deny(g)
    BY <1>3, <1>4 DEF CleanUp, CleanAll, CleanTokens, Deny
  <1>5. ASSUME NEW g \in Grants, NEW u \in Users, Approve(g, u)
        PROVE  Promise!FamNext
    BY <1>0, <1>5, ConsentMaps DEF Promise!FamNext
  <1>6. ASSUME NEW s \in Slots, Request(s)
        PROVE  Promise!FamNext \/ UNCHANGED Promise!famVars
    <2>1. CASE \E c \in Clients :
                 \/ \E g \in Grants : LoadCode(s, g, c)
                 \/ \E n \in Pairs : LoadRefresh(s, n, c) \/ LoadRevoke(s, n, c)
      BY <1>3, <2>1 DEF LoadCode, LoadRefresh, LoadRevoke, Load, CleanAll, CleanTokens
    <2>2. CASE ExchangeFails(s) \/ GiveUp(s)
      BY <1>3, <2>2 DEF ExchangeFails, GiveUp
    <2>3. CASE ExchangeCode(s)
      <3>1. PICK g \in FreshCodes, c \in Clients, f \in Nat, new \in Nat : Issues(g, c, f, new)
        BY <1>0, <2>3, ExchangeCodeIssues
      <3>2. Promise!Redeem(g) /\ g \in 1 .. MaxGrants
        BY <1>0, <3>1, RedeemMaps, FreshRows
      <3> QED
        BY <3>2 DEF Promise!FamNext
    <2>4. CASE ExchangeRefresh(s)
      <3>1. PICK n \in FreshRefresh, c \in Clients, f \in Families, new \in Nat : Rotates(n, c, f, new)
        BY <1>0, <2>4, ExchangeRefreshRotates
      <3>2. Promise!Rotate(f)
        BY <1>0, <3>1, RotateMaps
      <3> QED
        BY <1>1, <3>2 DEF Promise!FamNext
    <2>5. CASE Revoke(s)
      <3>1. PICK f \in Families : Revokes(f)
        BY <1>0, <2>5, RevokeRevokes
      <3>2. /\ UNCHANGED <<grants, codes, pairs, families>> /\ Families' = Families
            /\ FreshCodes' \subseteq FreshCodes /\ FreshRefresh' \subseteq FreshRefresh
        BY <3>1 DEF Revokes, FreshCodes, FreshRefresh, Families
      <3>3. \E gone \in SUBSET FreshCodes, dead \in SUBSET Families : Promise!Lapse(gone, dead)
        BY <3>2, LapseMaps
      <3> QED
        BY <1>1, <3>3 DEF Promise!FamNext, OpenConsents
    <2> QED
      BY <1>6, <2>1, <2>2, <2>3, <2>4, <2>5 DEF Request
  <1>7. CASE Tick
    <2>1. now \in Int /\ now' = now + 1 /\ UNCHANGED <<grants, codes, pairs, refresh, families>>
      BY <1>0, <1>7, Bounds DEF Tick, TablesOK
    <2>2. \A g \in codes : grants[g].at \in Nat
      <3> TAKE g \in codes
      <3>1. grants \in Seq(Grant) /\ g \in 1 .. Len(grants)
        BY <1>0 DEF TablesOK, Grants
      <3>2. grants[g] \in Grant
        BY <3>1
      <3> QED
        BY <3>2 DEF Grant
    <2>3. \A n \in refresh : pairs[n].at \in Nat
      BY <1>0, PairFamilies DEF TablesOK
    <2>4. FreshCodes' \subseteq FreshCodes
      BY <2>1, <2>2, Bounds DEF FreshCodes
    <2>5. FreshRefresh' \subseteq FreshRefresh
      BY <2>1, <2>3, Bounds DEF FreshRefresh
    <2>6. Families' = Families
      BY <2>1 DEF Families
    <2>7. \E gone \in SUBSET FreshCodes, dead \in SUBSET Families : Promise!Lapse(gone, dead)
      BY <2>1, <2>4, <2>5, <2>6, LapseMaps
    <2> QED
      BY <1>1, <2>7 DEF Promise!FamNext, OpenConsents
  <1>8. CASE UNCHANGED oauthVars
    BY <1>3, <1>8 DEF oauthVars
  <1> QED
    BY <1>2, <1>4, <1>5, <1>6, <1>7, <1>8 DEF OAuthNext

\* The tables, exchanges, clean-up and clock of the OAuth server implement the families
\* of TokenFamilies: a code is redeemed once, a family rotates one refresh token at a
\* time, and what expired or was revoked stays gone (oauth_server.py).
THEOREM OAuthImplementsFamilies == OAuthSpec => ImplementsFamilies
  <1>1. OAuthInit => Promise!FamInit
    <2> SUFFICES ASSUME OAuthInit
                 PROVE  Promise!FamInit
      OBVIOUS
    <2>1. Holders = <<>>
      BY DEF OAuthInit, Holders, Families
    <2> QED
      BY <2>1 DEF OAuthInit, Promise!FamInit, OpenConsents, FreshCodes, Consented, Grants
  <1>2. OAuthSpec => []ImplInv
    BY TablesTyped, OnlyTheNewestPairAnswers, ConsentsHold, PTL DEF ImplInv
  <1>3. ImplInv /\ ImplInv' /\ [OAuthNext]_oauthVars => [Promise!FamNext]_(Promise!famVars)
    BY StepMaps
  <1> QED
    BY <1>1, <1>2, <1>3, PTL DEF OAuthSpec, ImplementsFamilies, Promise!FamSpec

===============================================================================
