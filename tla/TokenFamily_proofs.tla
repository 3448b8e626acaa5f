------------------------ MODULE TokenFamily_proofs --------------------------
(***************************************************************************)
(* That a grant has one live pair of tokens, and that a revocation nobody   *)
(* raced is final, for any number of codes, requests and tokens, any        *)
(* lifetimes and any faults.                                                *)
(*                                                                          *)
(* Neither is inductive.  The right to issue into a family is one thing: it *)
(* is the unspent code, or the request that has won the code or a rotation, *)
(* or the refresh token that is not rotated yet.  The invariant says that   *)
(* there is at most one such right, and that an access token that is live   *)
(* goes with it.                                                            *)
(***************************************************************************)
EXTENDS TokenFamily, TLAPS

\* A request at work has a family whose code is spent.
Busy ==
    \A q \in Requests : pc[q] # "idle" =>
        family[q] \in Codes /\ code[family[q]] \notin {"unused", "live"}

\* As long as a code is not spent nothing descends from it.
Unfounded ==
    \A f \in Codes : code[f] \in {"unused", "live"} =>
        f \notin dead /\ \A t \in Tokens : access[t] # f /\ refresh[t] # f

\* Pairs are made up once, and only the request that made a pair up stores its
\* refresh token.
Unstored ==
    /\ \A t \in Tokens : t > issued => access[t] = None /\ refresh[t] = None
    /\ \A q \in Requests : pc[q] \in {"refresh", "rotate", "retire"} => token[q] \in 1..issued
    /\ \A q \in Requests : pc[q] = "refresh" =>
           refresh[token[q]] = None /\ accessExpiry[token[q]] >= AccessTtl
    /\ \A p, q \in Requests : p # q /\ pc[q] = "refresh" /\ pc[p] \in {"refresh", "rotate"} =>
           token[p] # token[q]

\* A refresh token that a request has read is of the request's family, unless it
\* was purged since.
OwnRow == \A q \in Requests : pc[q] = "rotate" => refresh[token[q]] \in {family[q], None}

\* One right to issue into a family: one request has it,
OneIssuer == \A f \in Codes : \A p, q \in Requests : Issuing(p, f) /\ Issuing(q, f) => p = q

\* or a refresh token has it, and then no request has it,
IssuerAlone ==
    \A f \in Codes : \A q \in Requests : Issuing(q, f) => \A t \in Tokens : refresh[t] = f => t \in rotated

\* and only one token.
OneRefresh ==
    \A f \in Codes : \A t, u \in Tokens :
        refresh[t] = f /\ refresh[u] = f /\ t \notin rotated /\ u \notin rotated => t = u

\* A live access token was made with the refresh token that has the right, or is
\* the one its holder retires next or has just stored.
LiveAccess(t, f) == access[t] = f /\ t \notin revokedA

AccessFollows ==
    \A f \in Codes : \A t \in Tokens : LiveAccess(t, f) =>
        /\ \A u \in Tokens : LiveAccess(u, f) => t = u
        /\ \A r \in Tokens : refresh[r] = f /\ r \notin rotated => t = r
        /\ \A q \in Requests : Issuing(q, f) => pc[q] \in {"retire", "refresh"} /\ t = token[q]

Right == OneIssuer /\ IssuerAlone /\ OneRefresh /\ AccessFollows

\* A family that was revoked, and that nobody raced, has no live token and no
\* request that could still issue into it; between the two statements of
\* revoke_family it has no live access token.
Finished ==
    /\ \A f \in dead \ raced :
           /\ \A q \in Requests : ~Bearing(q, f)
           /\ \A t \in Tokens : (access[t] = f => t \in revokedA) /\ (refresh[t] = f => t \in revokedR)
    /\ \A q \in Requests : pc[q] = "revokeRefresh" /\ family[q] \notin raced =>
           \A t \in Tokens : access[t] = family[q] => t \in revokedA

TokenInv == TypeOK /\ Busy /\ Unfounded /\ Unstored /\ OwnRow /\ Right /\ Finished

LEMMA InitInv == Init => TokenInv
<1> SUFFICES ASSUME Init PROVE TokenInv
  OBVIOUS
<1> USE TokenConstants DEF Init, Tokens
<1>1. TypeOK
  BY DEF TypeOK
<1>2. Busy /\ Unfounded /\ Unstored /\ OwnRow
  BY DEF Busy, Unfounded, Unstored, OwnRow
<1>3. Right
  BY DEF Right, OneIssuer, IssuerAlone, OneRefresh, AccessFollows, LiveAccess, Issuing
<1>4. Finished
  BY DEF Finished
<1> QED
  BY <1>1, <1>2, <1>3, <1>4 DEF TokenInv

\* The invariant on a grant gives the property.
LEMMA RightIsEnough == TypeOK /\ Right /\ Finished => OneLivePair /\ RevocationIsFinal
<1> SUFFICES ASSUME TypeOK, Right, Finished PROVE OneLivePair /\ RevocationIsFinal
  OBVIOUS
<1>1. OneLivePair
  BY TokenConstants DEF OneLivePair, TypeOK, Right, OneRefresh, AccessFollows, LiveAccess
<1>2. RevocationIsFinal
  BY DEF RevocationIsFinal, Finished
<1> QED
  BY <1>1, <1>2

Labels == {"idle", "claimed", "replayed", "access", "refresh", "rotate", "retire",
           "revokeAccess", "revokeRefresh"}

\* What a request remembers is of its type after it has moved on.
RequestType ==
    pc \in [Requests -> Labels] /\ family \in [Requests -> Codes \cup {None}]
                               /\ token \in [Requests -> 0..MaxTokens]

LEMMA DoneType ==
    ASSUME TypeOK, NEW q \in Requests, Done(q)
    PROVE  RequestType'
BY TokenConstants DEF Done, Work, TypeOK, RequestType, Labels

LEMMA TypeInv ==
    ASSUME TypeOK, Busy, Unstored, [Next]_vars
    PROVE  TypeOK'
<1> USE TokenConstants DEF TypeOK, Tokens, store, history
<1>1. ASSUME NEW c \in Codes, Authorize(c) PROVE TypeOK'
  BY <1>1 DEF Authorize
<1>2. ASSUME NEW q \in Requests, NEW c \in Codes, Exchange(q, c) PROVE TypeOK'
  <2>1. RequestType'
    <3>1. Work(q, "replayed", c, 0) => RequestType'
      BY DEF Work, RequestType, Labels
    <3>2. Work(q, "claimed", c, 0) => RequestType'
      BY DEF Work, RequestType, Labels
    <3>3. Done(q) => RequestType'
      BY DoneType
    <3> QED
      BY <1>2, <3>1, <3>2, <3>3 DEF Exchange
  <2> QED
    BY <1>2, <2>1 DEF Exchange, RequestType, Labels
<1>3. ASSUME NEW q \in Requests, NEW t \in Tokens, Refresh(q, t) PROVE TypeOK'
  <2>1. RequestType'
    <3>1. Work(q, "revokeAccess", refresh[t], t) => RequestType'
      BY DEF Work, RequestType, Labels
    <3>2. Work(q, "rotate", refresh[t], t) => RequestType'
      BY DEF Work, RequestType, Labels
    <3> QED
      BY <1>3, <3>1, <3>2 DEF Refresh
  <2> QED
    BY <1>3, <2>1 DEF Refresh, RequestType, Labels
<1>4. ASSUME NEW q \in Requests, NEW t \in Tokens, RevokeRefresh(q, t) PROVE TypeOK'
  BY <1>4 DEF RevokeRefresh, Work
<1>5. ASSUME NEW q \in Requests, NEW t \in Tokens, RevokeAccess(q, t) PROVE TypeOK'
  BY <1>5 DEF RevokeAccess
<1>6. ASSUME NEW q \in Requests, Claimed(q) PROVE TypeOK'
  <2>1. RequestType'
    <3>1. Work(q, "access", family[q], 0) => RequestType'
      BY DEF Work, RequestType, Labels
    <3>2. Done(q) => RequestType'
      BY DoneType
    <3> QED
      BY <1>6, <3>1, <3>2 DEF Claimed
  <2> QED
    BY <1>6, <2>1 DEF Claimed, RequestType, Labels
<1>7. ASSUME NEW q \in Requests, Replayed(q) PROVE TypeOK'
  <2>1. RequestType'
    <3>1. Work(q, "revokeAccess", family[q], 0) => RequestType'
      BY DEF Work, RequestType, Labels
    <3>2. Done(q) => RequestType'
      BY DoneType
    <3> QED
      BY <1>7, <3>1, <3>2 DEF Replayed
  <2> QED
    BY <1>7, <2>1 DEF Replayed, RequestType, Labels
<1>8. ASSUME NEW q \in Requests, StoreAccess(q) PROVE TypeOK'
  BY <1>8 DEF StoreAccess, Work, Busy
<1>9. ASSUME NEW q \in Requests, StoreRefresh(q) PROVE TypeOK'
  <2>1. token[q] \in Tokens /\ accessExpiry[token[q]] - AccessTtl + RefreshTtl \in Nat
    BY <1>9 DEF StoreRefresh, Unstored
  <2>2. RequestType'
    BY <1>9, DoneType DEF StoreRefresh
  <2> QED
    BY <1>9, <2>1, <2>2 DEF StoreRefresh, Busy, RequestType, Labels
<1>10. ASSUME NEW q \in Requests, Rotate(q) PROVE TypeOK'
  <2>1. token[q] \in Tokens
    BY <1>10 DEF Rotate, Unstored
  <2>2. rotated' \subseteq Tokens
    BY <1>10, <2>1 DEF Rotate
  <2>3. pc' \in [Requests -> Labels]
    BY <1>10 DEF Rotate, Goto, Labels
  <2> QED
    BY <1>10, <2>2, <2>3 DEF Rotate, Labels
<1>11. ASSUME NEW q \in Requests, Retire(q) PROVE TypeOK'
  <2>1. token[q] \in Tokens
    BY <1>11 DEF Retire, Unstored
  <2>2. RequestType'
    <3>1. Work(q, "access", family[q], 0) => RequestType'
      BY DEF Work, RequestType, Labels
    <3>2. Done(q) => RequestType'
      BY DoneType
    <3> QED
      BY <1>11, <3>1, <3>2 DEF Retire
  <2> QED
    BY <1>11, <2>1, <2>2 DEF Retire, RequestType, Labels
<1>12. ASSUME NEW q \in Requests, RevokeFamilyAccess(q) PROVE TypeOK'
  BY <1>12 DEF RevokeFamilyAccess, Goto, Busy
<1>13. ASSUME NEW q \in Requests, RevokeFamilyRefresh(q) PROVE TypeOK'
  <2>1. RequestType'
    BY <1>13, DoneType DEF RevokeFamilyRefresh
  <2> QED
    BY <1>13, <2>1 DEF RevokeFamilyRefresh, RequestType, Labels, Busy
<1>14. ASSUME NEW q \in Requests, Fault(q) PROVE TypeOK'
  BY <1>14 DEF Fault, Work, Done
<1>15. ASSUME NEW now \in 0..clock, PurgeCodes(now) PROVE TypeOK'
  BY <1>15 DEF PurgeCodes
<1>16. ASSUME NEW now \in 0..clock, PurgeAccess(now) PROVE TypeOK'
  BY <1>16 DEF PurgeAccess
<1>17. ASSUME NEW now \in 0..clock, PurgeRefresh(now) PROVE TypeOK'
  BY <1>17 DEF PurgeRefresh
<1>18. CASE Advance
  BY <1>18 DEF Advance
<1>19. CASE UNCHANGED vars
  BY <1>19 DEF vars
<1> QED
  BY <1>1, <1>2, <1>3, <1>4, <1>5, <1>6, <1>7, <1>8, <1>9, <1>10, <1>11, <1>12, <1>13, <1>14,
     <1>15, <1>16, <1>17, <1>18, <1>19 DEF Next

\* A step after which no request has a right it did not have, and in which no token
\* is stored, un-rotated or un-revoked.
LEMMA RightKept ==
    ASSUME TypeOK, Right,
           \A q \in Requests : \A f \in Codes : Issuing(q, f)' =>
               Issuing(q, f) /\ pc'[q] = pc[q] /\ token'[q] = token[q],
           \A t \in Tokens : refresh'[t] \in {refresh[t], None} /\ access'[t] \in {access[t], None},
           rotated \subseteq rotated', revokedA \subseteq revokedA'
    PROVE  Right'
<1> USE TokenConstants
<1>1. OneIssuer'
  BY DEF Right, OneIssuer
<1>2. IssuerAlone'
  BY DEF Right, IssuerAlone
<1>3. OneRefresh'
  BY DEF Right, OneRefresh
<1>4. AccessFollows'
  <2> SUFFICES ASSUME NEW f \in Codes, NEW t \in Tokens, LiveAccess(t, f)'
               PROVE  /\ \A u \in Tokens : LiveAccess(u, f)' => t = u
                      /\ \A r \in Tokens : refresh'[r] = f /\ r \notin rotated' => t = r
                      /\ \A q \in Requests : Issuing(q, f)' => pc'[q] \in {"retire", "refresh"} /\ t = token'[q]
    BY DEF AccessFollows
  <2>1. \A u \in Tokens : LiveAccess(u, f)' => LiveAccess(u, f)
    BY DEF LiveAccess
  <2>2. \A r \in Tokens : refresh'[r] = f /\ r \notin rotated' => refresh[r] = f /\ r \notin rotated
    OBVIOUS
  <2> QED
    BY <2>1, <2>2 DEF Right, AccessFollows
<1> QED
  BY <1>1, <1>2, <1>3, <1>4 DEF Right

LEMMA RightInv ==
    ASSUME TokenInv, [Next]_vars
    PROVE  Right'
<1> USE TokenConstants DEF store, history, Work, Done, Goto
<1>t. TypeOK /\ Busy /\ Unfounded /\ Unstored /\ OwnRow /\ Right
  BY DEF TokenInv
<1>1. ASSUME NEW c \in Codes, Authorize(c) PROVE Right'
  BY <1>1, <1>t, RightKept DEF Authorize, Issuing
<1>2. ASSUME NEW q \in Requests, NEW c \in Codes, Exchange(q, c) PROVE Right'
  <2>1. CASE code[c] = "live" /\ clock < codeExpiry[c]
    <3>1. \A t \in Tokens : access[t] # c /\ refresh[t] # c
      BY <1>t, <2>1 DEF Unfounded
    <3>2. \A p \in Requests : ~Issuing(p, c)
      BY <1>t, <2>1 DEF Busy, Issuing
    <3>3. \A p \in Requests : \A f \in Codes : Issuing(p, f)' =>
             (p = q /\ f = c) \/ (Issuing(p, f) /\ pc'[p] = pc[p] /\ token'[p] = token[p])
      BY <1>2, <1>t, <2>1 DEF Exchange, Issuing, TypeOK
    <3>4. UNCHANGED <<access, refresh, rotated, revokedA>>
      BY <1>2 DEF Exchange
    <3>5. OneIssuer' /\ IssuerAlone' /\ OneRefresh'
      BY <1>t, <3>1, <3>2, <3>3, <3>4 DEF Right, OneIssuer, IssuerAlone, OneRefresh
    <3>6. AccessFollows'
      BY <1>t, <3>1, <3>3, <3>4 DEF Right, AccessFollows, LiveAccess
    <3> QED
      BY <3>5, <3>6 DEF Right
  <2>2. CASE ~(code[c] = "live" /\ clock < codeExpiry[c])
    <3>1. \A p \in Requests : \A f \in Codes : Issuing(p, f)' =>
              Issuing(p, f) /\ pc'[p] = pc[p] /\ token'[p] = token[p]
      BY <1>2, <1>t, <2>2 DEF Exchange, Issuing, TypeOK
    <3> QED
      BY <1>2, <1>t, <3>1, RightKept DEF Exchange
  <2> QED
    BY <2>1, <2>2
<1>3. ASSUME NEW q \in Requests, NEW t \in Tokens, Refresh(q, t) PROVE Right'
  <2>1. \A p \in Requests : \A f \in Codes : Issuing(p, f)' =>
            Issuing(p, f) /\ pc'[p] = pc[p] /\ token'[p] = token[p]
    BY <1>3, <1>t DEF Refresh, Issuing, TypeOK
  <2> QED
    BY <1>3, <1>t, <2>1, RightKept DEF Refresh
<1>4. ASSUME NEW q \in Requests, NEW t \in Tokens, RevokeRefresh(q, t) PROVE Right'
  <2>1. \A p \in Requests : \A f \in Codes : Issuing(p, f)' =>
            Issuing(p, f) /\ pc'[p] = pc[p] /\ token'[p] = token[p]
    BY <1>4, <1>t DEF RevokeRefresh, Issuing, TypeOK
  <2> QED
    BY <1>4, <1>t, <2>1, RightKept DEF RevokeRefresh
<1>5. ASSUME NEW q \in Requests, NEW t \in Tokens, RevokeAccess(q, t) PROVE Right'
  BY <1>5, <1>t, RightKept DEF RevokeAccess, Issuing
<1>6. ASSUME NEW q \in Requests, Claimed(q) PROVE Right'
  <2>1. /\ \A p \in Requests : \A f \in Codes : Issuing(p, f)' => Issuing(p, f)
        /\ \A p \in Requests : p # q => pc'[p] = pc[p] /\ token'[p] = token[p]
        /\ pc[q] = "claimed" /\ pc'[q] \in {"access", "idle"}
        /\ UNCHANGED <<access, refresh, rotated, revokedA>>
    BY <1>6, <1>t DEF Claimed, Issuing, TypeOK
  <2>2. OneIssuer' /\ IssuerAlone' /\ OneRefresh'
    BY <1>t, <2>1 DEF Right, OneIssuer, IssuerAlone, OneRefresh
  <2>3. AccessFollows'
    BY <1>t, <2>1 DEF Right, AccessFollows, LiveAccess
  <2> QED
    BY <2>2, <2>3 DEF Right
<1>7. ASSUME NEW q \in Requests, Replayed(q) PROVE Right'
  <2>1. \A p \in Requests : \A f \in Codes : Issuing(p, f)' =>
            Issuing(p, f) /\ pc'[p] = pc[p] /\ token'[p] = token[p]
    BY <1>7, <1>t DEF Replayed, Issuing, TypeOK
  <2> QED
    BY <1>7, <1>t, <2>1, RightKept DEF Replayed
<1>8. ASSUME NEW q \in Requests, StoreAccess(q) PROVE Right'
  <2>1. /\ \A p \in Requests : \A f \in Codes : Issuing(p, f)' <=> Issuing(p, f)
        /\ \A p \in Requests : p # q => pc'[p] = pc[p] /\ token'[p] = token[p]
        /\ pc[q] = "access" /\ pc'[q] = "refresh" /\ token'[q] = issued + 1
        /\ family[q] \in Codes /\ Issuing(q, family[q])
        /\ UNCHANGED <<refresh, rotated, revokedA>>
    BY <1>8, <1>t DEF StoreAccess, Issuing, TypeOK, Busy
  <2>2. \A t \in Tokens : \A f \in Codes : LiveAccess(t, f)' =>
            LiveAccess(t, f) \/ (t = issued + 1 /\ f = family[q])
    BY <1>8, <1>t DEF StoreAccess, LiveAccess, TypeOK
  <2>3. OneIssuer' /\ IssuerAlone' /\ OneRefresh'
    BY <1>t, <2>1 DEF Right, OneIssuer, IssuerAlone, OneRefresh
  <2>4. \A t \in Tokens : ~LiveAccess(t, family[q])
    BY <1>t, <2>1 DEF Right, AccessFollows
  <2>5. AccessFollows'
    BY <1>t, <2>1, <2>2, <2>4 DEF Right, AccessFollows, IssuerAlone, OneIssuer
  <2> QED
    BY <2>3, <2>5 DEF Right
<1>9. ASSUME NEW q \in Requests, StoreRefresh(q) PROVE Right'
  <2>1. /\ \A p \in Requests : \A f \in Codes : Issuing(p, f)' => Issuing(p, f) /\ p # q
        /\ \A p \in Requests : p # q => pc'[p] = pc[p] /\ token'[p] = token[p]
        /\ pc[q] = "refresh" /\ family[q] \in Codes /\ Issuing(q, family[q])
        /\ UNCHANGED <<access, rotated, revokedA>>
    BY <1>9, <1>t DEF StoreRefresh, Issuing, TypeOK, Busy
  <2>2. \A t \in Tokens : \A f \in Codes : refresh'[t] = f =>
            refresh[t] = f \/ (t = token[q] /\ f = family[q])
    BY <1>9, <1>t DEF StoreRefresh, TypeOK
  <2>3. OneIssuer'
    BY <1>t, <2>1 DEF Right, OneIssuer
  <2>4. IssuerAlone'
    BY <1>t, <2>1, <2>2 DEF Right, IssuerAlone, OneIssuer
  <2>5. OneRefresh'
    BY <1>t, <2>1, <2>2 DEF Right, IssuerAlone, OneRefresh
  <2>6. AccessFollows'
    BY <1>t, <2>1, <2>2 DEF Right, AccessFollows, LiveAccess, IssuerAlone
  <2> QED
    BY <2>3, <2>4, <2>5, <2>6 DEF Right
<1>10. ASSUME NEW q \in Requests, Rotate(q) PROVE Right'
  <2> DEFINE won == token[q] \notin rotated /\ refresh[token[q]] # None
  <2>0. /\ \A p \in Requests : p # q => pc'[p] = pc[p]
        /\ pc[q] = "rotate" /\ family[q] \in Codes /\ token[q] \in Tokens
        /\ UNCHANGED <<access, refresh, revokedA, family, token>>
    BY <1>10, <1>t DEF Rotate, TypeOK, Busy, Unstored, Tokens
  <2>1. CASE won
    <3>1. /\ pc'[q] = "retire" /\ rotated' = rotated \cup {token[q]} /\ refresh[token[q]] = family[q]
      BY <1>10, <1>t, <2>1 DEF Rotate, TypeOK, OwnRow
    <3>2. \A p \in Requests : \A f \in Codes : Issuing(p, f)' => Issuing(p, f) \/ (p = q /\ f = family[q])
      BY <2>0, <3>1 DEF Issuing
    <3>3. \A p \in Requests : ~Issuing(p, family[q])
      BY <1>t, <2>0, <2>1, <3>1 DEF Right, IssuerAlone
    <3>4. OneIssuer'
      BY <1>t, <3>2, <3>3 DEF Right, OneIssuer
    <3>5. IssuerAlone'
      BY <1>t, <2>0, <2>1, <3>1, <3>2 DEF Right, IssuerAlone, OneRefresh
    <3>6. OneRefresh'
      BY <1>t, <2>0, <3>1 DEF Right, OneRefresh
    <3>7. AccessFollows'
      BY <1>t, <2>0, <2>1, <3>1, <3>2, <3>3 DEF Right, AccessFollows, LiveAccess, Issuing
    <3> QED
      BY <3>4, <3>5, <3>6, <3>7 DEF Right
  <2>2. CASE ~won
    <3>1. pc'[q] = "revokeAccess" /\ rotated' = rotated
      BY <1>10, <1>t, <2>2 DEF Rotate, TypeOK
    <3> QED
      BY <1>t, <2>0, <3>1, RightKept DEF Issuing
  <2> QED
    BY <2>1, <2>2
<1>11. ASSUME NEW q \in Requests, Retire(q) PROVE Right'
  <2>1. /\ \A p \in Requests : \A f \in Codes : Issuing(p, f)' => Issuing(p, f)
        /\ \A p \in Requests : p # q => pc'[p] = pc[p] /\ token'[p] = token[p]
        /\ pc[q] = "retire" /\ pc'[q] \in {"access", "idle"}
        /\ revokedA' = revokedA \cup {token[q]}
        /\ UNCHANGED <<access, refresh, rotated>>
    BY <1>11, <1>t DEF Retire, Issuing, TypeOK
  <2>2. OneIssuer' /\ IssuerAlone' /\ OneRefresh'
    BY <1>t, <2>1 DEF Right, OneIssuer, IssuerAlone, OneRefresh
  <2>3. AccessFollows'
    BY <1>t, <2>1 DEF Right, AccessFollows, LiveAccess
  <2> QED
    BY <2>2, <2>3 DEF Right
<1>12. ASSUME NEW q \in Requests, RevokeFamilyAccess(q) PROVE Right'
  <2>1. \A p \in Requests : \A f \in Codes : Issuing(p, f)' =>
            Issuing(p, f) /\ pc'[p] = pc[p] /\ token'[p] = token[p]
    BY <1>12, <1>t DEF RevokeFamilyAccess, Issuing, TypeOK
  <2> QED
    BY <1>12, <1>t, <2>1, RightKept DEF RevokeFamilyAccess
<1>13. ASSUME NEW q \in Requests, RevokeFamilyRefresh(q) PROVE Right'
  <2>1. \A p \in Requests : \A f \in Codes : Issuing(p, f)' =>
            Issuing(p, f) /\ pc'[p] = pc[p] /\ token'[p] = token[p]
    BY <1>13, <1>t DEF RevokeFamilyRefresh, Issuing, TypeOK
  <2> QED
    BY <1>13, <1>t, <2>1, RightKept DEF RevokeFamilyRefresh
<1>14. ASSUME NEW q \in Requests, Fault(q) PROVE Right'
  <2>1. \A p \in Requests : \A f \in Codes : Issuing(p, f)' =>
            Issuing(p, f) /\ pc'[p] = pc[p] /\ token'[p] = token[p]
    BY <1>14, <1>t DEF Fault, Issuing, TypeOK
  <2> QED
    BY <1>14, <1>t, <2>1, RightKept DEF Fault
<1>15. ASSUME NEW now \in 0..clock, PurgeCodes(now) PROVE Right'
  BY <1>15, <1>t, RightKept DEF PurgeCodes, Issuing
<1>16. ASSUME NEW now \in 0..clock, PurgeAccess(now) PROVE Right'
  BY <1>16, <1>t, RightKept DEF PurgeAccess, Issuing
<1>17. ASSUME NEW now \in 0..clock, PurgeRefresh(now) PROVE Right'
  BY <1>17, <1>t, RightKept DEF PurgeRefresh, Issuing
<1>18. CASE Advance
  BY <1>18, <1>t, RightKept DEF Advance, Issuing
<1>19. CASE UNCHANGED vars
  BY <1>19, <1>t, RightKept DEF vars, Issuing
<1> QED
  BY <1>1, <1>2, <1>3, <1>4, <1>5, <1>6, <1>7, <1>8, <1>9, <1>10, <1>11, <1>12, <1>13, <1>14,
     <1>15, <1>16, <1>17, <1>18, <1>19 DEF Next

\* How a request that goes on, or is done, moves: the others stay where they are.
Moves(q, labels, f, t) ==
    /\ \A p \in Requests : p # q => pc'[p] = pc[p] /\ family'[p] = family[p] /\ token'[p] = token[p]
    /\ pc'[q] \in labels
    /\ pc'[q] # "idle" => family'[q] = f /\ token'[q] = t

LEMMA RequestMoves ==
    ASSUME TypeOK, NEW q \in Requests
    PROVE  /\ \A c \in Codes : Exchange(q, c) => Moves(q, {"replayed", "claimed", "idle"}, c, 0)
           /\ \A t \in Tokens : Refresh(q, t) => Moves(q, {"revokeAccess", "rotate"}, refresh[t], t)
           /\ Claimed(q) => Moves(q, {"access", "idle"}, family[q], 0)
           /\ Replayed(q) => Moves(q, {"revokeAccess", "idle"}, family[q], 0)
           /\ Retire(q) => Moves(q, {"access", "idle"}, family[q], 0)
<1>1. ASSUME NEW c \in Codes, Exchange(q, c) PROVE Moves(q, {"replayed", "claimed", "idle"}, c, 0)
  BY <1>1 DEF TypeOK, Exchange, Work, Done, Moves
<1>2. ASSUME NEW t \in Tokens, Refresh(q, t) PROVE Moves(q, {"revokeAccess", "rotate"}, refresh[t], t)
  BY <1>2 DEF TypeOK, Refresh, Work, Moves
<1>3. ASSUME Claimed(q) PROVE Moves(q, {"access", "idle"}, family[q], 0)
  BY <1>3 DEF TypeOK, Claimed, Work, Done, Moves
<1>4. ASSUME Replayed(q) PROVE Moves(q, {"revokeAccess", "idle"}, family[q], 0)
  BY <1>4 DEF TypeOK, Replayed, Work, Done, Moves
<1>5. ASSUME Retire(q) PROVE Moves(q, {"access", "idle"}, family[q], 0)
  BY <1>5 DEF TypeOK, Retire, Work, Done, Moves
<1> QED
  BY <1>1, <1>2, <1>3, <1>4, <1>5

LEMMA BusyInv ==
    ASSUME TokenInv, [Next]_vars
    PROVE  Busy'
<1> USE TokenConstants DEF TypeOK, Tokens, store, history, Work, Done, Goto, Busy, Unfounded
<1>t. TypeOK /\ Busy /\ Unfounded /\ Unstored /\ OwnRow /\ Finished
  BY DEF TokenInv
<1>1. ASSUME NEW c \in Codes, Authorize(c) PROVE Busy'
  BY <1>1, <1>t DEF Authorize
<1>2. ASSUME NEW q \in Requests, NEW c \in Codes, Exchange(q, c) PROVE Busy'
  BY <1>2, <1>t DEF Exchange
<1>3. ASSUME NEW q \in Requests, NEW t \in Tokens, Refresh(q, t) PROVE Busy'
  <2>1. Moves(q, {"revokeAccess", "rotate"}, refresh[t], t)
    BY <1>3, <1>t, RequestMoves
  <2>2. code' = code /\ refresh[t] \in Codes /\ code[refresh[t]] \notin {"unused", "live"}
    BY <1>3, <1>t DEF Refresh
  <2> HIDE DEF Work, Done
  <2> QED
    BY <1>t, <2>1, <2>2 DEF Moves
<1>4. ASSUME NEW q \in Requests, NEW t \in Tokens, RevokeRefresh(q, t) PROVE Busy'
  BY <1>4, <1>t DEF RevokeRefresh
<1>5. ASSUME NEW q \in Requests, NEW t \in Tokens, RevokeAccess(q, t) PROVE Busy'
  BY <1>5, <1>t DEF RevokeAccess
<1>6. ASSUME NEW q \in Requests, Claimed(q) PROVE Busy'
  <2>1. Moves(q, {"access", "idle"}, family[q], 0)
    BY <1>6, <1>t, RequestMoves
  <2> HIDE DEF Work, Done
  <2> QED
    BY <1>6, <1>t, <2>1 DEF Claimed, Moves
<1>7. ASSUME NEW q \in Requests, Replayed(q) PROVE Busy'
  <2>1. Moves(q, {"revokeAccess", "idle"}, family[q], 0)
    BY <1>7, <1>t, RequestMoves
  <2> HIDE DEF Work, Done
  <2> QED
    BY <1>7, <1>t, <2>1 DEF Replayed, Moves
<1>8. ASSUME NEW q \in Requests, StoreAccess(q) PROVE Busy'
  BY <1>8, <1>t DEF StoreAccess
<1>9. ASSUME NEW q \in Requests, StoreRefresh(q) PROVE Busy'
  BY <1>9, <1>t DEF StoreRefresh
<1>10. ASSUME NEW q \in Requests, Rotate(q) PROVE Busy'
  BY <1>10, <1>t DEF Rotate
<1>11. ASSUME NEW q \in Requests, Retire(q) PROVE Busy'
  <2>1. Moves(q, {"access", "idle"}, family[q], 0)
    BY <1>11, <1>t, RequestMoves
  <2> HIDE DEF Work, Done
  <2> QED
    BY <1>11, <1>t, <2>1 DEF Retire, Moves
<1>12. ASSUME NEW q \in Requests, RevokeFamilyAccess(q) PROVE Busy'
  BY <1>12, <1>t DEF RevokeFamilyAccess
<1>13. ASSUME NEW q \in Requests, RevokeFamilyRefresh(q) PROVE Busy'
  BY <1>13, <1>t DEF RevokeFamilyRefresh
<1>14. ASSUME NEW q \in Requests, Fault(q) PROVE Busy'
  BY <1>14, <1>t DEF Fault
<1>15. ASSUME NEW now \in 0..clock, PurgeCodes(now) PROVE Busy'
  BY <1>15, <1>t DEF PurgeCodes
<1>16. ASSUME NEW now \in 0..clock, PurgeAccess(now) PROVE Busy'
  BY <1>16, <1>t DEF PurgeAccess
<1>17. ASSUME NEW now \in 0..clock, PurgeRefresh(now) PROVE Busy'
  BY <1>17, <1>t DEF PurgeRefresh
<1>18. CASE Advance
  BY <1>18, <1>t DEF Advance
<1>19. CASE UNCHANGED vars
  BY <1>19, <1>t DEF vars
<1> QED
  BY <1>1, <1>2, <1>3, <1>4, <1>5, <1>6, <1>7, <1>8, <1>9, <1>10, <1>11, <1>12, <1>13, <1>14,
     <1>15, <1>16, <1>17, <1>18, <1>19 DEF Next

LEMMA UnfoundedInv ==
    ASSUME TokenInv, [Next]_vars
    PROVE  Unfounded'
<1> USE TokenConstants DEF TypeOK, Tokens, store, history, Work, Done, Goto, Busy, Unfounded
<1>t. TypeOK /\ Busy /\ Unfounded /\ Unstored /\ OwnRow /\ Finished
  BY DEF TokenInv
<1>1. ASSUME NEW c \in Codes, Authorize(c) PROVE Unfounded'
  BY <1>1, <1>t DEF Authorize
<1>2. ASSUME NEW q \in Requests, NEW c \in Codes, Exchange(q, c) PROVE Unfounded'
  BY <1>2, <1>t DEF Exchange
<1>3. ASSUME NEW q \in Requests, NEW t \in Tokens, Refresh(q, t) PROVE Unfounded'
  BY <1>3, <1>t DEF Refresh
<1>4. ASSUME NEW q \in Requests, NEW t \in Tokens, RevokeRefresh(q, t) PROVE Unfounded'
  BY <1>4, <1>t DEF RevokeRefresh
<1>5. ASSUME NEW q \in Requests, NEW t \in Tokens, RevokeAccess(q, t) PROVE Unfounded'
  BY <1>5, <1>t DEF RevokeAccess
<1>6. ASSUME NEW q \in Requests, Claimed(q) PROVE Unfounded'
  BY <1>6, <1>t DEF Claimed
<1>7. ASSUME NEW q \in Requests, Replayed(q) PROVE Unfounded'
  BY <1>7, <1>t DEF Replayed
<1>8. ASSUME NEW q \in Requests, StoreAccess(q) PROVE Unfounded'
  BY <1>8, <1>t DEF StoreAccess
<1>9. ASSUME NEW q \in Requests, StoreRefresh(q) PROVE Unfounded'
  BY <1>9, <1>t DEF StoreRefresh
<1>10. ASSUME NEW q \in Requests, Rotate(q) PROVE Unfounded'
  BY <1>10, <1>t DEF Rotate
<1>11. ASSUME NEW q \in Requests, Retire(q) PROVE Unfounded'
  BY <1>11, <1>t DEF Retire
<1>12. ASSUME NEW q \in Requests, RevokeFamilyAccess(q) PROVE Unfounded'
  BY <1>12, <1>t DEF RevokeFamilyAccess
<1>13. ASSUME NEW q \in Requests, RevokeFamilyRefresh(q) PROVE Unfounded'
  BY <1>13, <1>t DEF RevokeFamilyRefresh
<1>14. ASSUME NEW q \in Requests, Fault(q) PROVE Unfounded'
  BY <1>14, <1>t DEF Fault
<1>15. ASSUME NEW now \in 0..clock, PurgeCodes(now) PROVE Unfounded'
  BY <1>15, <1>t DEF PurgeCodes
<1>16. ASSUME NEW now \in 0..clock, PurgeAccess(now) PROVE Unfounded'
  BY <1>16, <1>t DEF PurgeAccess
<1>17. ASSUME NEW now \in 0..clock, PurgeRefresh(now) PROVE Unfounded'
  BY <1>17, <1>t DEF PurgeRefresh
<1>18. CASE Advance
  BY <1>18, <1>t DEF Advance
<1>19. CASE UNCHANGED vars
  BY <1>19, <1>t DEF vars
<1> QED
  BY <1>1, <1>2, <1>3, <1>4, <1>5, <1>6, <1>7, <1>8, <1>9, <1>10, <1>11, <1>12, <1>13, <1>14,
     <1>15, <1>16, <1>17, <1>18, <1>19 DEF Next

\* A request that moves without making up a pair, or storing one.
LEMMA UnstoredKept ==
    ASSUME TypeOK, Unstored, NEW q \in Requests,
           UNCHANGED <<access, refresh, accessExpiry, issued>>,
           \A p \in Requests : p # q => pc'[p] = pc[p] /\ token'[p] = token[p],
           pc'[q] \notin {"refresh", "retire"},
           pc'[q] = "rotate" => token'[q] \in Tokens /\ refresh[token'[q]] # None
    PROVE  Unstored'
<1>1. \A t \in Tokens : t > issued' => access'[t] = None /\ refresh'[t] = None
  BY DEF Unstored
<1>2. pc'[q] = "rotate" => token'[q] \in 1..issued
  BY DEF Unstored, Tokens, TypeOK
<1>3. \A p \in Requests : pc'[p] \in {"refresh", "rotate", "retire"} => token'[p] \in 1..issued'
  BY <1>2 DEF Unstored
<1>4. \A p \in Requests : pc'[p] = "refresh" =>
          refresh'[token'[p]] = None /\ accessExpiry'[token'[p]] >= AccessTtl
  BY DEF Unstored
<1>5. \A r, p \in Requests : r # p /\ pc'[p] = "refresh" /\ pc'[r] \in {"refresh", "rotate"} =>
          token'[r] # token'[p]
  BY DEF Unstored
<1> QED
  BY <1>1, <1>3, <1>4, <1>5 DEF Unstored

LEMMA UnstoredInv ==
    ASSUME TokenInv, [Next]_vars
    PROVE  Unstored'
<1> USE TokenConstants DEF TypeOK, Tokens, store, history, Work, Done, Goto, Unstored
<1>t. TypeOK /\ Busy /\ Unfounded /\ Unstored /\ OwnRow /\ Finished
  BY DEF TokenInv
<1>1. ASSUME NEW c \in Codes, Authorize(c) PROVE Unstored'
  BY <1>1, <1>t DEF Authorize
<1>2. ASSUME NEW q \in Requests, NEW c \in Codes, Exchange(q, c) PROVE Unstored'
  <2>1. Moves(q, {"replayed", "claimed", "idle"}, c, 0)
    BY <1>2, <1>t, RequestMoves
  <2>2. UNCHANGED <<access, refresh, accessExpiry, issued>>
    BY <1>2 DEF Exchange
  <2> HIDE DEF Unstored, TypeOK
  <2> QED
    BY <1>t, <2>1, <2>2, UnstoredKept DEF Moves
<1>3. ASSUME NEW q \in Requests, NEW t \in Tokens, Refresh(q, t) PROVE Unstored'
  <2>1. Moves(q, {"revokeAccess", "rotate"}, refresh[t], t)
    BY <1>3, <1>t, RequestMoves
  <2>2. UNCHANGED <<access, refresh, accessExpiry, issued>> /\ refresh[t] # None
    BY <1>3 DEF Refresh
  <2> HIDE DEF Unstored, TypeOK
  <2> QED
    BY <1>t, <2>1, <2>2, UnstoredKept DEF Moves
<1>4. ASSUME NEW q \in Requests, NEW t \in Tokens, RevokeRefresh(q, t) PROVE Unstored'
  BY <1>4, <1>t DEF RevokeRefresh
<1>5. ASSUME NEW q \in Requests, NEW t \in Tokens, RevokeAccess(q, t) PROVE Unstored'
  BY <1>5, <1>t DEF RevokeAccess
<1>6. ASSUME NEW q \in Requests, Claimed(q) PROVE Unstored'
  <2>1. Moves(q, {"access", "idle"}, family[q], 0)
    BY <1>6, <1>t, RequestMoves
  <2>2. UNCHANGED <<access, refresh, accessExpiry, issued>>
    BY <1>6 DEF Claimed
  <2> HIDE DEF Unstored, TypeOK
  <2> QED
    BY <1>t, <2>1, <2>2, UnstoredKept DEF Moves
<1>7. ASSUME NEW q \in Requests, Replayed(q) PROVE Unstored'
  <2>1. Moves(q, {"revokeAccess", "idle"}, family[q], 0)
    BY <1>7, <1>t, RequestMoves
  <2>2. UNCHANGED <<access, refresh, accessExpiry, issued>>
    BY <1>7 DEF Replayed
  <2> HIDE DEF Unstored, TypeOK
  <2> QED
    BY <1>t, <2>1, <2>2, UnstoredKept DEF Moves
<1>8. ASSUME NEW q \in Requests, StoreAccess(q) PROVE Unstored'
  BY <1>8, <1>t DEF StoreAccess
<1>9. ASSUME NEW q \in Requests, StoreRefresh(q) PROVE Unstored'
  BY <1>9, <1>t DEF StoreRefresh
<1>10. ASSUME NEW q \in Requests, Rotate(q) PROVE Unstored'
  BY <1>10, <1>t DEF Rotate
<1>11. ASSUME NEW q \in Requests, Retire(q) PROVE Unstored'
  <2>1. Moves(q, {"access", "idle"}, family[q], 0)
    BY <1>11, <1>t, RequestMoves
  <2>2. UNCHANGED <<access, refresh, accessExpiry, issued>>
    BY <1>11 DEF Retire
  <2> HIDE DEF Unstored, TypeOK
  <2> QED
    BY <1>t, <2>1, <2>2, UnstoredKept DEF Moves
<1>12. ASSUME NEW q \in Requests, RevokeFamilyAccess(q) PROVE Unstored'
  BY <1>12, <1>t DEF RevokeFamilyAccess
<1>13. ASSUME NEW q \in Requests, RevokeFamilyRefresh(q) PROVE Unstored'
  BY <1>13, <1>t DEF RevokeFamilyRefresh
<1>14. ASSUME NEW q \in Requests, Fault(q) PROVE Unstored'
  BY <1>14, <1>t DEF Fault
<1>15. ASSUME NEW now \in 0..clock, PurgeCodes(now) PROVE Unstored'
  BY <1>15, <1>t DEF PurgeCodes
<1>16. ASSUME NEW now \in 0..clock, PurgeAccess(now) PROVE Unstored'
  BY <1>16, <1>t DEF PurgeAccess
<1>17. ASSUME NEW now \in 0..clock, PurgeRefresh(now) PROVE Unstored'
  BY <1>17, <1>t DEF PurgeRefresh
<1>18. CASE Advance
  BY <1>18, <1>t DEF Advance
<1>19. CASE UNCHANGED vars
  BY <1>19, <1>t DEF vars
<1> QED
  BY <1>1, <1>2, <1>3, <1>4, <1>5, <1>6, <1>7, <1>8, <1>9, <1>10, <1>11, <1>12, <1>13, <1>14,
     <1>15, <1>16, <1>17, <1>18, <1>19 DEF Next

LEMMA OwnRowInv ==
    ASSUME TokenInv, [Next]_vars
    PROVE  OwnRow'
<1> USE TokenConstants DEF TypeOK, Tokens, store, history, Work, Done, Goto, Unstored, OwnRow, Busy
<1>t. TypeOK /\ Busy /\ Unfounded /\ Unstored /\ OwnRow /\ Finished
  BY DEF TokenInv
<1>1. ASSUME NEW c \in Codes, Authorize(c) PROVE OwnRow'
  BY <1>1, <1>t DEF Authorize
<1>2. ASSUME NEW q \in Requests, NEW c \in Codes, Exchange(q, c) PROVE OwnRow'
  BY <1>2, <1>t DEF Exchange
<1>3. ASSUME NEW q \in Requests, NEW t \in Tokens, Refresh(q, t) PROVE OwnRow'
  <2>1. Moves(q, {"revokeAccess", "rotate"}, refresh[t], t)
    BY <1>3, <1>t, RequestMoves
  <2> HIDE DEF Work, Done
  <2> QED
    BY <1>3, <1>t, <2>1 DEF Refresh, Moves
<1>4. ASSUME NEW q \in Requests, NEW t \in Tokens, RevokeRefresh(q, t) PROVE OwnRow'
  BY <1>4, <1>t DEF RevokeRefresh
<1>5. ASSUME NEW q \in Requests, NEW t \in Tokens, RevokeAccess(q, t) PROVE OwnRow'
  BY <1>5, <1>t DEF RevokeAccess
<1>6. ASSUME NEW q \in Requests, Claimed(q) PROVE OwnRow'
  BY <1>6, <1>t DEF Claimed
<1>7. ASSUME NEW q \in Requests, Replayed(q) PROVE OwnRow'
  BY <1>7, <1>t DEF Replayed
<1>8. ASSUME NEW q \in Requests, StoreAccess(q) PROVE OwnRow'
  BY <1>8, <1>t DEF StoreAccess
<1>9. ASSUME NEW q \in Requests, StoreRefresh(q) PROVE OwnRow'
  BY <1>9, <1>t DEF StoreRefresh
<1>10. ASSUME NEW q \in Requests, Rotate(q) PROVE OwnRow'
  BY <1>10, <1>t DEF Rotate
<1>11. ASSUME NEW q \in Requests, Retire(q) PROVE OwnRow'
  BY <1>11, <1>t DEF Retire
<1>12. ASSUME NEW q \in Requests, RevokeFamilyAccess(q) PROVE OwnRow'
  BY <1>12, <1>t DEF RevokeFamilyAccess
<1>13. ASSUME NEW q \in Requests, RevokeFamilyRefresh(q) PROVE OwnRow'
  BY <1>13, <1>t DEF RevokeFamilyRefresh
<1>14. ASSUME NEW q \in Requests, Fault(q) PROVE OwnRow'
  BY <1>14, <1>t DEF Fault
<1>15. ASSUME NEW now \in 0..clock, PurgeCodes(now) PROVE OwnRow'
  BY <1>15, <1>t DEF PurgeCodes
<1>16. ASSUME NEW now \in 0..clock, PurgeAccess(now) PROVE OwnRow'
  BY <1>16, <1>t DEF PurgeAccess
<1>17. ASSUME NEW now \in 0..clock, PurgeRefresh(now) PROVE OwnRow'
  BY <1>17, <1>t DEF PurgeRefresh
<1>18. CASE Advance
  BY <1>18, <1>t DEF Advance
<1>19. CASE UNCHANGED vars
  BY <1>19, <1>t DEF vars
<1> QED
  BY <1>1, <1>2, <1>3, <1>4, <1>5, <1>6, <1>7, <1>8, <1>9, <1>10, <1>11, <1>12, <1>13, <1>14,
     <1>15, <1>16, <1>17, <1>18, <1>19 DEF Next

\* A step that revokes no family, stores nothing and brings no request back into a
\* family that is finished.
LEMMA FinishedKept ==
    ASSUME Finished, dead' = dead, raced \subseteq raced', revokedA \subseteq revokedA',
           revokedR \subseteq revokedR',
           \A t \in Tokens : refresh'[t] \in {refresh[t], None} /\ access'[t] \in {access[t], None},
           \A p \in Requests : \A f \in dead \ raced : Bearing(p, f)' => Bearing(p, f),
           \A p \in Requests : pc'[p] = "revokeRefresh" => pc[p] = "revokeRefresh" /\ family'[p] = family[p],
           dead \subseteq Codes, \A p \in Requests : pc[p] # "idle" => family[p] \in Codes
    PROVE  Finished'
<1>1. ASSUME NEW f \in dead' \ raced'
      PROVE  /\ \A q \in Requests : ~Bearing(q, f)'
             /\ \A t \in Tokens : (access'[t] = f => t \in revokedA') /\ (refresh'[t] = f => t \in revokedR')
  BY <1>1, TokenConstants DEF Finished
<1>2. ASSUME NEW q \in Requests, pc'[q] = "revokeRefresh", family'[q] \notin raced', NEW t \in Tokens,
             access'[t] = family'[q]
      PROVE  t \in revokedA'
  BY <1>2, TokenConstants DEF Finished
<1> QED
  BY <1>1, <1>2 DEF Finished

LEMMA FinishedInv ==
    ASSUME TokenInv, [Next]_vars
    PROVE  Finished'
<1> USE TokenConstants DEF TypeOK, Tokens, store, history, Work, Done, Goto
<1>t. TypeOK /\ Busy /\ Unfounded /\ Unstored /\ Finished
  BY DEF TokenInv
<1>b. dead \subseteq Codes /\ \A p \in Requests : pc[p] # "idle" => family[p] \in Codes
  BY <1>t DEF Busy
<1>1. ASSUME NEW c \in Codes, Authorize(c) PROVE Finished'
  <2>1. \A p \in Requests : \A f \in dead \ raced : Bearing(p, f)' => Bearing(p, f)
    BY <1>1, <1>t DEF Authorize, Bearing
  <2>2. \A p \in Requests : pc'[p] = "revokeRefresh" => pc[p] = "revokeRefresh" /\ family'[p] = family[p]
    BY <1>1, <1>t DEF Authorize
  <2> HIDE DEF Work, Done, Goto, TypeOK
  <2> QED
    BY <1>1, <1>t, <1>b, <2>1, <2>2, FinishedKept DEF Authorize
<1>2. ASSUME NEW q \in Requests, NEW c \in Codes, Exchange(q, c) PROVE Finished'
  <2>1. \A p \in Requests : \A f \in dead \ raced : Bearing(p, f)' => Bearing(p, f)
    BY <1>2, <1>t DEF Exchange, Bearing, Unfounded
  <2>2. \A p \in Requests : pc'[p] = "revokeRefresh" => pc[p] = "revokeRefresh" /\ family'[p] = family[p]
    BY <1>2, <1>t DEF Exchange
  <2> HIDE DEF Work, Done, Goto, TypeOK
  <2> QED
    BY <1>2, <1>t, <1>b, <2>1, <2>2, FinishedKept DEF Exchange
<1>3. ASSUME NEW q \in Requests, NEW t \in Tokens, Refresh(q, t) PROVE Finished'
  <2>1. \A p \in Requests : \A f \in dead \ raced : Bearing(p, f)' => Bearing(p, f)
    BY <1>3, <1>t DEF Refresh, Bearing, Finished
  <2>2. \A p \in Requests : pc'[p] = "revokeRefresh" => pc[p] = "revokeRefresh" /\ family'[p] = family[p]
    BY <1>3, <1>t DEF Refresh
  <2> HIDE DEF Work, Done, Goto, TypeOK
  <2> QED
    BY <1>3, <1>t, <1>b, <2>1, <2>2, FinishedKept DEF Refresh
<1>4. ASSUME NEW q \in Requests, NEW t \in Tokens, RevokeRefresh(q, t) PROVE Finished'
  <2>1. \A p \in Requests : \A f \in dead \ raced : Bearing(p, f)' => Bearing(p, f)
    BY <1>4, <1>t DEF RevokeRefresh, Bearing
  <2>2. \A p \in Requests : pc'[p] = "revokeRefresh" => pc[p] = "revokeRefresh" /\ family'[p] = family[p]
    BY <1>4, <1>t DEF RevokeRefresh
  <2> HIDE DEF Work, Done, Goto, TypeOK
  <2> QED
    BY <1>4, <1>t, <1>b, <2>1, <2>2, FinishedKept DEF RevokeRefresh
<1>5. ASSUME NEW q \in Requests, NEW t \in Tokens, RevokeAccess(q, t) PROVE Finished'
  <2>1. \A p \in Requests : \A f \in dead \ raced : Bearing(p, f)' => Bearing(p, f)
    BY <1>5, <1>t DEF RevokeAccess, Bearing
  <2>2. \A p \in Requests : pc'[p] = "revokeRefresh" => pc[p] = "revokeRefresh" /\ family'[p] = family[p]
    BY <1>5, <1>t DEF RevokeAccess
  <2> HIDE DEF Work, Done, Goto, TypeOK
  <2> QED
    BY <1>5, <1>t, <1>b, <2>1, <2>2, FinishedKept DEF RevokeAccess
<1>6. ASSUME NEW q \in Requests, Claimed(q) PROVE Finished'
  <2>1. \A p \in Requests : \A f \in dead \ raced : Bearing(p, f)' => Bearing(p, f)
    BY <1>6, <1>t DEF Claimed, Bearing
  <2>2. \A p \in Requests : pc'[p] = "revokeRefresh" => pc[p] = "revokeRefresh" /\ family'[p] = family[p]
    BY <1>6, <1>t DEF Claimed
  <2> HIDE DEF Work, Done, Goto, TypeOK
  <2> QED
    BY <1>6, <1>t, <1>b, <2>1, <2>2, FinishedKept DEF Claimed
<1>7. ASSUME NEW q \in Requests, Replayed(q) PROVE Finished'
  <2>1. \A p \in Requests : \A f \in dead \ raced : Bearing(p, f)' => Bearing(p, f)
    BY <1>7, <1>t DEF Replayed, Bearing
  <2>2. \A p \in Requests : pc'[p] = "revokeRefresh" => pc[p] = "revokeRefresh" /\ family'[p] = family[p]
    BY <1>7, <1>t DEF Replayed
  <2> HIDE DEF Work, Done, Goto, TypeOK
  <2> QED
    BY <1>7, <1>t, <1>b, <2>1, <2>2, FinishedKept DEF Replayed
<1>8. ASSUME NEW q \in Requests, StoreAccess(q) PROVE Finished'
  <2>1. Bearing(q, family[q]) /\ family[q] \in Codes
    BY <1>8, <1>b DEF StoreAccess, Bearing
  <2>2. /\ \A p \in Requests : \A f \in Codes : Bearing(p, f)' => Bearing(p, f)
        /\ \A p \in Requests : pc'[p] = "revokeRefresh" => pc[p] = "revokeRefresh" /\ family'[p] = family[p]
    BY <1>8, <1>t DEF StoreAccess, Bearing
  <2>3. /\ \A t \in Tokens : access'[t] = access[t] \/ access'[t] = family[q]
        /\ raced \subseteq raced' /\ UNCHANGED <<dead, refresh, revokedA, revokedR>>
        /\ HalfRevoked(family[q]) => family[q] \in raced'
    BY <1>8, <1>t DEF StoreAccess
  <2>4. family[q] \notin dead' \ raced'
    BY <1>t, <2>1, <2>3 DEF Finished
  <2>5. ASSUME NEW f \in dead' \ raced'
        PROVE  /\ \A p \in Requests : ~Bearing(p, f)'
               /\ \A t \in Tokens : (access'[t] = f => t \in revokedA') /\ (refresh'[t] = f => t \in revokedR')
    BY <1>t, <1>b, <2>2, <2>3, <2>4, <2>5 DEF Finished
  <2>6. ASSUME NEW p \in Requests, pc'[p] = "revokeRefresh", family'[p] \notin raced', NEW t \in Tokens,
               access'[t] = family'[p]
        PROVE  t \in revokedA'
    BY <1>t, <2>2, <2>3, <2>6 DEF Finished, HalfRevoked
  <2> QED
    BY <2>5, <2>6 DEF Finished
<1>9. ASSUME NEW q \in Requests, StoreRefresh(q) PROVE Finished'
  <2>1. Bearing(q, family[q]) /\ family[q] \in Codes
    BY <1>9, <1>b DEF StoreRefresh, Bearing
  <2>2. /\ \A p \in Requests : \A f \in Codes : Bearing(p, f)' => Bearing(p, f)
        /\ \A p \in Requests : pc'[p] = "revokeRefresh" => pc[p] = "revokeRefresh" /\ family'[p] = family[p]
    BY <1>9, <1>t DEF StoreRefresh, Bearing
  <2>3. /\ \A t \in Tokens : refresh'[t] = refresh[t] \/ refresh'[t] = family[q]
        /\ UNCHANGED <<dead, raced, access, revokedA, revokedR>>
    BY <1>9, <1>t DEF StoreRefresh
  <2>4. family[q] \notin dead \ raced
    BY <1>t, <2>1 DEF Finished
  <2>5. ASSUME NEW f \in dead' \ raced'
        PROVE  /\ \A p \in Requests : ~Bearing(p, f)'
               /\ \A t \in Tokens : (access'[t] = f => t \in revokedA') /\ (refresh'[t] = f => t \in revokedR')
    BY <1>t, <1>b, <2>2, <2>3, <2>4, <2>5 DEF Finished
  <2>6. ASSUME NEW p \in Requests, pc'[p] = "revokeRefresh", family'[p] \notin raced', NEW t \in Tokens,
               access'[t] = family'[p]
        PROVE  t \in revokedA'
    BY <1>t, <2>2, <2>3, <2>6 DEF Finished
  <2> QED
    BY <2>5, <2>6 DEF Finished
<1>10. ASSUME NEW q \in Requests, Rotate(q) PROVE Finished'
  <2>1. \A p \in Requests : \A f \in dead \ raced : Bearing(p, f)' => Bearing(p, f)
    BY <1>10, <1>t DEF Rotate, Bearing
  <2>2. \A p \in Requests : pc'[p] = "revokeRefresh" => pc[p] = "revokeRefresh" /\ family'[p] = family[p]
    BY <1>10, <1>t DEF Rotate
  <2> HIDE DEF Work, Done, Goto, TypeOK
  <2> QED
    BY <1>10, <1>t, <1>b, <2>1, <2>2, FinishedKept DEF Rotate
<1>11. ASSUME NEW q \in Requests, Retire(q) PROVE Finished'
  <2>1. \A p \in Requests : \A f \in dead \ raced : Bearing(p, f)' => Bearing(p, f)
    BY <1>11, <1>t DEF Retire, Bearing
  <2>2. \A p \in Requests : pc'[p] = "revokeRefresh" => pc[p] = "revokeRefresh" /\ family'[p] = family[p]
    BY <1>11, <1>t DEF Retire
  <2> HIDE DEF Work, Done, Goto, TypeOK
  <2> QED
    BY <1>11, <1>t, <1>b, <2>1, <2>2, FinishedKept DEF Retire
<1>12. ASSUME NEW q \in Requests, RevokeFamilyAccess(q) PROVE Finished'
  <2>1. /\ \A p \in Requests : \A f \in Codes : Bearing(p, f)' => Bearing(p, f)
        /\ \A p \in Requests : p # q /\ pc'[p] = "revokeRefresh" => pc[p] = "revokeRefresh"
        /\ raced \subseteq raced' /\ UNCHANGED <<dead, access, refresh, revokedR, family>>
        /\ revokedA' = revokedA \cup {t \in Tokens : access[t] = family[q]}
    BY <1>12, <1>t DEF RevokeFamilyAccess, Bearing
  <2>2. ASSUME NEW f \in dead' \ raced'
        PROVE  /\ \A p \in Requests : ~Bearing(p, f)'
               /\ \A t \in Tokens : (access'[t] = f => t \in revokedA') /\ (refresh'[t] = f => t \in revokedR')
    BY <1>t, <1>b, <2>1, <2>2 DEF Finished
  <2>3. ASSUME NEW p \in Requests, pc'[p] = "revokeRefresh", family'[p] \notin raced', NEW t \in Tokens,
               access'[t] = family'[p]
        PROVE  t \in revokedA'
    BY <1>t, <2>1, <2>3 DEF Finished
  <2> QED
    BY <2>2, <2>3 DEF Finished
<1>13. ASSUME NEW q \in Requests, RevokeFamilyRefresh(q) PROVE Finished'
  <2>1. /\ \A p \in Requests : \A f \in Codes : Bearing(p, f)' => Bearing(p, f) /\ p # q
        /\ \A p \in Requests : pc'[p] = "revokeRefresh" => pc[p] = "revokeRefresh" /\ family'[p] = family[p]
        /\ pc[q] = "revokeRefresh" /\ family[q] \in Codes
    BY <1>13, <1>t, <1>b DEF RevokeFamilyRefresh, Bearing
  <2>2. /\ dead' = dead \cup {family[q]} /\ raced \subseteq raced'
        /\ Race(q, family[q]) => family[q] \in raced'
        /\ UNCHANGED <<access, refresh, revokedA>>
        /\ revokedR' = revokedR \cup {t \in Tokens : refresh[t] = family[q]}
    BY <1>13 DEF RevokeFamilyRefresh
  <2>3. ASSUME NEW f \in dead' \ raced'
        PROVE  /\ \A p \in Requests : ~Bearing(p, f)'
               /\ \A t \in Tokens : (access'[t] = f => t \in revokedA') /\ (refresh'[t] = f => t \in revokedR')
    <3>1. CASE f = family[q]
      BY <1>t, <2>1, <2>2, <2>3, <3>1 DEF Finished, Race
    <3>2. CASE f \in dead \ raced
      BY <1>t, <1>b, <2>1, <2>2, <3>2 DEF Finished
    <3> QED
      BY <2>2, <2>3, <3>1, <3>2
  <2>4. ASSUME NEW p \in Requests, pc'[p] = "revokeRefresh", family'[p] \notin raced', NEW t \in Tokens,
               access'[t] = family'[p]
        PROVE  t \in revokedA'
    BY <1>t, <2>1, <2>2, <2>4 DEF Finished
  <2> QED
    BY <2>3, <2>4 DEF Finished
<1>14. ASSUME NEW q \in Requests, Fault(q) PROVE Finished'
  <2>1. \A p \in Requests : \A f \in dead \ raced : Bearing(p, f)' => Bearing(p, f)
    BY <1>14, <1>t DEF Fault, Bearing
  <2>2. \A p \in Requests : pc'[p] = "revokeRefresh" => pc[p] = "revokeRefresh" /\ family'[p] = family[p]
    BY <1>14, <1>t DEF Fault
  <2> HIDE DEF Work, Done, Goto, TypeOK
  <2> QED
    BY <1>14, <1>t, <1>b, <2>1, <2>2, FinishedKept DEF Fault
<1>15. ASSUME NEW now \in 0..clock, PurgeCodes(now) PROVE Finished'
  <2>1. \A p \in Requests : \A f \in dead \ raced : Bearing(p, f)' => Bearing(p, f)
    BY <1>15, <1>t DEF PurgeCodes, Bearing
  <2>2. \A p \in Requests : pc'[p] = "revokeRefresh" => pc[p] = "revokeRefresh" /\ family'[p] = family[p]
    BY <1>15, <1>t DEF PurgeCodes
  <2> HIDE DEF Work, Done, Goto, TypeOK
  <2> QED
    BY <1>15, <1>t, <1>b, <2>1, <2>2, FinishedKept DEF PurgeCodes
<1>16. ASSUME NEW now \in 0..clock, PurgeAccess(now) PROVE Finished'
  <2>1. \A p \in Requests : \A f \in dead \ raced : Bearing(p, f)' => Bearing(p, f)
    BY <1>16, <1>t DEF PurgeAccess, Bearing
  <2>2. \A p \in Requests : pc'[p] = "revokeRefresh" => pc[p] = "revokeRefresh" /\ family'[p] = family[p]
    BY <1>16, <1>t DEF PurgeAccess
  <2> HIDE DEF Work, Done, Goto, TypeOK
  <2> QED
    BY <1>16, <1>t, <1>b, <2>1, <2>2, FinishedKept DEF PurgeAccess
<1>17. ASSUME NEW now \in 0..clock, PurgeRefresh(now) PROVE Finished'
  <2>1. \A p \in Requests : \A f \in dead \ raced : Bearing(p, f)' => Bearing(p, f)
    BY <1>17, <1>t DEF PurgeRefresh, Bearing
  <2>2. \A p \in Requests : pc'[p] = "revokeRefresh" => pc[p] = "revokeRefresh" /\ family'[p] = family[p]
    BY <1>17, <1>t DEF PurgeRefresh
  <2> HIDE DEF Work, Done, Goto, TypeOK
  <2> QED
    BY <1>17, <1>t, <1>b, <2>1, <2>2, FinishedKept DEF PurgeRefresh
<1>18. CASE Advance
  BY <1>18, <1>t, <1>b, FinishedKept DEF Advance, Bearing
<1>19. CASE UNCHANGED vars
  BY <1>19, <1>t, <1>b, FinishedKept DEF vars, Bearing
<1> QED
  BY <1>1, <1>2, <1>3, <1>4, <1>5, <1>6, <1>7, <1>8, <1>9, <1>10, <1>11, <1>12, <1>13, <1>14,
     <1>15, <1>16, <1>17, <1>18, <1>19 DEF Next

LEMMA NextInv ==
    ASSUME TokenInv, [Next]_vars
    PROVE  TokenInv'
<1>1. TypeOK'
  BY TypeInv DEF TokenInv
<1>2. Busy' /\ Unfounded' /\ Unstored' /\ OwnRow'
  BY BusyInv, UnfoundedInv, UnstoredInv, OwnRowInv
<1>3. Right' /\ Finished'
  BY RightInv, FinishedInv
<1> QED
  BY <1>1, <1>2, <1>3 DEF TokenInv

\* For every number of codes, requests and tokens, and whatever fails: at most one
\* refresh token of a grant can be exchanged and at most one access token of it is
\* live, and a family whose revocation nobody raced stays dead.
THEOREM TokensSafe == Spec => [](TypeOK /\ OneLivePair /\ RevocationIsFinal)
<1>1. Init => TokenInv
  BY InitInv
<1>2. TokenInv /\ [Next]_vars => TokenInv'
  BY NextInv
<1>3. TokenInv => TypeOK /\ OneLivePair /\ RevocationIsFinal
  BY RightIsEnough DEF TokenInv
<1> QED
  BY <1>1, <1>2, <1>3, PTL DEF Spec

\* Whatever order refreshes, replays, revocations and faults come in, a grant has
\* at most one refresh token that can be exchanged and one access token that is live.
THEOREM GrantHasOnePair == Spec => []OneLivePair
BY TokensSafe, PTL

\* A family whose revocation no refresh raced is dead for good.
THEOREM RevokedStaysDead == Spec => []RevocationIsFinal
BY TokensSafe, PTL
=============================================================================
