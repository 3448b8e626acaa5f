---------------------------- MODULE TokenFamily -----------------------------
(***************************************************************************)
(* The tokens of the OAuth provider (rustlavel-oauth-provider: the token    *)
(* and revoke endpoints, server.rs, and the stores of database.rs).         *)
(*                                                                          *)
(* A user's approval gives a client one authorization code; the code is     *)
(* exchanged for an access and a refresh token; each refresh retires the    *)
(* pair it was made with and issues the next.  Everything descended from    *)
(* one code is a family, and is revoked together.  A request is a task of   *)
(* the server: each statement it sends to the store is one step, and other  *)
(* requests run between any two.                                            *)
(*                                                                          *)
(* The family an exchange makes up is named after its code: the store       *)
(* records it on the code in the statement that claims the code.  Scopes,   *)
(* redirect URIs, verifiers and client ids are compared with what a request *)
(* says, so a comparison is a choice between its outcomes.                  *)
(***************************************************************************)
EXTENDS Integers, FiniteSets

CONSTANTS
    Codes,        \* authorization codes, and the families they found
    Requests,     \* tasks that can be in the server at once
    None,         \* no family, no token
    CodeTtl, AccessTtl, RefreshTtl,
    MaxTokens,    \* bound: pairs of tokens issued
    MaxClock,     \* bound: the clock
    MaxFaults     \* bound: statements that fail, tasks that die

ASSUME TokenConstants ==
    /\ None \notin Codes
    /\ CodeTtl \in Nat \ {0} /\ AccessTtl \in Nat \ {0} /\ RefreshTtl \in Nat \ {0}
    /\ MaxTokens \in Nat /\ MaxClock \in Nat /\ MaxFaults \in Nat

Tokens == 1..MaxTokens   \* the n-th access token and the refresh token made with it

VARIABLES
    clock,
    code,        \* oauth_codes: "unused", "live", "spent" or "purged"
    codeExpiry,
    access,      \* oauth_access_tokens: the family of each token, None if there is no row
    refresh,     \* oauth_refresh_tokens: likewise
    accessExpiry, refreshExpiry,
    revokedA,    \* access tokens with revoked = true
    revokedR,    \* refresh tokens with revoked = true
    rotated,     \* refresh tokens with rotated = true
    pc,          \* what each request does next
    family,      \* the family it works on
    token,       \* the pair it works on
    issued,      \* pairs made up so far
    dead,        \* history: families a revocation has gone through, both tables
    raced,       \* history: families revoked in the middle of another request
    faults

store   == <<access, refresh, accessExpiry, refreshExpiry, revokedA, revokedR, rotated>>
history == <<dead, raced>>
vars    == <<clock, code, codeExpiry, store, pc, family, token, issued, history, faults>>

\* The request may still issue into family f: it claimed f's code, or holds a
\* refresh token of f that it read when it was neither rotated nor revoked.
Bearing(q, f) ==
    family[q] = f /\ pc[q] \in {"claimed", "rotate", "retire", "access", "refresh"}

\* Of these, the ones that have won the code or the rotation.
Issuing(q, f) ==
    family[q] = f /\ pc[q] \in {"claimed", "retire", "access", "refresh"}

\* Some request is between the two statements of revoke_family for f.
HalfRevoked(f) == \E p \in Requests : family[p] = f /\ pc[p] = "revokeRefresh"

Goto(q, label) == pc' = [pc EXCEPT ![q] = label]

Work(q, label, f, t) ==
    /\ pc' = [pc EXCEPT ![q] = label]
    /\ family' = [family EXCEPT ![q] = f]
    /\ token' = [token EXCEPT ![q] = t]

Done(q) == Work(q, "idle", None, 0)

-----------------------------------------------------------------------------
\* The user approves: a code is stored.
Authorize(c) ==
    /\ code[c] = "unused"
    /\ code' = [code EXCEPT ![c] = "live"]
    /\ codeExpiry' = [codeExpiry EXCEPT ![c] = clock + CodeTtl]
    /\ UNCHANGED <<clock, store, pc, family, token, issued, history, faults>>

\* consume, first statement: the update whose row count says who spent the code.
\* The time it is judged by was read before; an expired code is spent all the same,
\* and what is left of the request then only reads.
Exchange(q, c) ==
    /\ pc[q] = "idle" /\ code[c] # "unused"
    /\ IF code[c] # "live"
       THEN Work(q, "replayed", c, 0) /\ UNCHANGED code
       ELSE /\ code' = [code EXCEPT ![c] = "spent"]
            /\ IF clock < codeExpiry[c] THEN Work(q, "claimed", c, 0) ELSE Done(q)
    /\ UNCHANGED <<clock, codeExpiry, store, issued, history, faults>>

\* consume, second statement, for the one that claimed it: the row is gone, or one
\* of the checks on client, redirect URI, verifier and scope refuses it, or it is
\* good for tokens.
Claimed(q) ==
    /\ pc[q] = "claimed"
    /\ \/ Done(q)
       \/ code[family[q]] = "spent" /\ Work(q, "access", family[q], 0)
    /\ UNCHANGED <<clock, code, codeExpiry, store, issued, history, faults>>

\* consume, second statement, for a code that was spent: revoke what it gave.
Replayed(q) ==
    /\ pc[q] = "replayed"
    /\ IF code[family[q]] = "spent" THEN Work(q, "revokeAccess", family[q], 0) ELSE Done(q)
    /\ UNCHANGED <<clock, code, codeExpiry, store, issued, history, faults>>

\* issue, first statement.
StoreAccess(q) ==
    /\ pc[q] = "access" /\ issued < MaxTokens
    /\ access' = [access EXCEPT ![issued + 1] = family[q]]
    /\ accessExpiry' = [accessExpiry EXCEPT ![issued + 1] = clock + AccessTtl]
    /\ issued' = issued + 1
    /\ Work(q, "refresh", family[q], issued + 1)
    /\ raced' = IF HalfRevoked(family[q]) THEN raced \cup {family[q]} ELSE raced
    /\ UNCHANGED <<clock, code, codeExpiry, refresh, refreshExpiry, revokedA, revokedR, rotated, dead, faults>>

\* issue, second statement, made with the access token just stored and dated by
\* the same reading of the clock.
StoreRefresh(q) ==
    /\ pc[q] = "refresh"
    /\ refresh' = [refresh EXCEPT ![token[q]] = family[q]]
    /\ refreshExpiry' = [refreshExpiry EXCEPT ![token[q]] = accessExpiry[token[q]] - AccessTtl + RefreshTtl]
    /\ Done(q)
    /\ UNCHANGED <<clock, code, codeExpiry, access, accessExpiry, revokedA, revokedR, rotated,
                   issued, history, faults>>

-----------------------------------------------------------------------------
\* refresh_token: find the token and judge the row as it was read.  Another client's
\* token, or one rotated before, brings the family down; a revoked or expired one is
\* refused, and changes nothing.
Refresh(q, t) ==
    /\ pc[q] = "idle" /\ refresh[t] # None
    /\ \E sameClient \in BOOLEAN :
           IF ~sameClient \/ t \in rotated
           THEN Work(q, "revokeAccess", refresh[t], t)
           ELSE t \notin revokedR /\ clock < refreshExpiry[t] /\ Work(q, "rotate", refresh[t], t)
    /\ UNCHANGED <<clock, code, codeExpiry, store, issued, history, faults>>

\* rotate: the update that only one request can win; the loser brings the family down.
Rotate(q) ==
    LET won == token[q] \notin rotated /\ refresh[token[q]] # None
    IN  /\ pc[q] = "rotate"
        /\ rotated' = IF won THEN rotated \cup {token[q]} ELSE rotated
        /\ Goto(q, IF won THEN "retire" ELSE "revokeAccess")
        /\ UNCHANGED <<clock, code, codeExpiry, access, refresh, accessExpiry, refreshExpiry, revokedA, revokedR,
                       family, token, issued, history, faults>>

\* Mutant: the old access token is left to expire by itself.
RetireNothing(q) ==
    /\ pc[q] = "retire"
    /\ Work(q, "access", family[q], 0) \/ Done(q)
    /\ UNCHANGED <<clock, code, codeExpiry, store, issued, history, faults>>

\* The access token made with it is revoked; then a scope too wide refuses the request.
Retire(q) ==
    /\ pc[q] = "retire"
    /\ revokedA' = revokedA \cup {token[q]}
    /\ Work(q, "access", family[q], 0) \/ Done(q)
    /\ UNCHANGED <<clock, code, codeExpiry, access, refresh, accessExpiry, refreshExpiry, revokedR, rotated,
                   issued, history, faults>>

-----------------------------------------------------------------------------
\* The revoke endpoint, given a refresh token: its family.
RevokeRefresh(q, t) ==
    /\ pc[q] = "idle" /\ refresh[t] # None
    /\ Work(q, "revokeAccess", refresh[t], t)
    /\ UNCHANGED <<clock, code, codeExpiry, store, issued, history, faults>>

\* The revoke endpoint, given an access token: that token.
RevokeAccess(q, t) ==
    /\ pc[q] = "idle" /\ access[t] # None
    /\ revokedA' = revokedA \cup {t}
    /\ UNCHANGED <<clock, code, codeExpiry, access, refresh, accessExpiry, refreshExpiry, revokedR, rotated,
                   pc, family, token, issued, history, faults>>

\* Whether another request may still issue into f.
Race(q, f) == \E p \in Requests \ {q} : Bearing(p, f)

\* revoke_family, first statement: the access tokens.
RevokeFamilyAccess(q) ==
    /\ pc[q] = "revokeAccess"
    /\ revokedA' = revokedA \cup {t \in Tokens : access[t] = family[q]}
    /\ raced' = IF Race(q, family[q]) THEN raced \cup {family[q]} ELSE raced
    /\ Goto(q, "revokeRefresh")
    /\ UNCHANGED <<clock, code, codeExpiry, access, refresh, accessExpiry, refreshExpiry, revokedR, rotated,
                   family, token, issued, dead, faults>>

\* Mutant: only the token presented is revoked.
RevokePresented(q) ==
    /\ pc[q] = "revokeRefresh"
    /\ revokedR' = revokedR \cup ({token[q]} \cap Tokens)
    /\ dead' = dead \cup {family[q]}
    /\ raced' = IF Race(q, family[q]) THEN raced \cup {family[q]} ELSE raced
    /\ Done(q)
    /\ UNCHANGED <<clock, code, codeExpiry, access, refresh, accessExpiry, refreshExpiry, revokedA, rotated,
                   issued, faults>>

\* revoke_family, second statement: the refresh tokens.
RevokeFamilyRefresh(q) ==
    /\ pc[q] = "revokeRefresh"
    /\ revokedR' = revokedR \cup {t \in Tokens : refresh[t] = family[q]}
    /\ dead' = dead \cup {family[q]}
    /\ raced' = IF Race(q, family[q]) THEN raced \cup {family[q]} ELSE raced
    /\ Done(q)
    /\ UNCHANGED <<clock, code, codeExpiry, access, refresh, accessExpiry, refreshExpiry, revokedA, rotated,
                   issued, faults>>

-----------------------------------------------------------------------------
\* purge, one statement for each table: rows past their lifetime at the time now,
\* read when the purge began.
PurgeCodes(now) ==
    LET over == {c \in Codes : code[c] \in {"live", "spent"} /\ codeExpiry[c] < now}
    IN  /\ over # {}
        /\ code' = [c \in Codes |-> IF c \in over THEN "purged" ELSE code[c]]
        /\ UNCHANGED <<clock, codeExpiry, store, pc, family, token, issued, history, faults>>

PurgeAccess(now) ==
    LET over == {t \in Tokens : access[t] # None /\ accessExpiry[t] < now}
    IN  /\ over # {}
        /\ access' = [t \in Tokens |-> IF t \in over THEN None ELSE access[t]]
        /\ UNCHANGED <<clock, code, codeExpiry, refresh, accessExpiry, refreshExpiry, revokedA, revokedR, rotated,
                       pc, family, token, issued, history, faults>>

PurgeRefresh(now) ==
    LET over == {t \in Tokens : refresh[t] # None /\ refreshExpiry[t] < now}
    IN  /\ over # {}
        /\ refresh' = [t \in Tokens |-> IF t \in over THEN None ELSE refresh[t]]
        /\ UNCHANGED <<clock, code, codeExpiry, access, accessExpiry, refreshExpiry, revokedA, revokedR, rotated,
                       pc, family, token, issued, history, faults>>

\* A statement fails or the task dies: the request is over where it stands.
Fault(q) ==
    /\ pc[q] # "idle" /\ faults > 0
    /\ Done(q)
    /\ faults' = faults - 1
    /\ UNCHANGED <<clock, code, codeExpiry, store, issued, history>>

Advance ==
    /\ clock < MaxClock
    /\ clock' = clock + 1
    /\ UNCHANGED <<code, codeExpiry, store, pc, family, token, issued, history, faults>>

Init ==
    /\ clock = 0
    /\ code = [c \in Codes |-> "unused"] /\ codeExpiry = [c \in Codes |-> 0]
    /\ access = [t \in Tokens |-> None] /\ refresh = [t \in Tokens |-> None]
    /\ accessExpiry = [t \in Tokens |-> 0] /\ refreshExpiry = [t \in Tokens |-> 0]
    /\ revokedA = {} /\ revokedR = {} /\ rotated = {}
    /\ pc = [q \in Requests |-> "idle"]
    /\ family = [q \in Requests |-> None] /\ token = [q \in Requests |-> 0]
    /\ issued = 0 /\ dead = {} /\ raced = {} /\ faults = MaxFaults

Next ==
    \/ \E c \in Codes : Authorize(c)
    \/ \E q \in Requests, c \in Codes : Exchange(q, c)
    \/ \E q \in Requests, t \in Tokens : Refresh(q, t) \/ RevokeRefresh(q, t) \/ RevokeAccess(q, t)
    \/ \E q \in Requests : \/ Claimed(q) \/ Replayed(q) \/ StoreAccess(q) \/ StoreRefresh(q)
                           \/ Rotate(q) \/ Retire(q)
                           \/ RevokeFamilyAccess(q) \/ RevokeFamilyRefresh(q) \/ Fault(q)
    \/ \E now \in 0..clock : PurgeCodes(now) \/ PurgeAccess(now) \/ PurgeRefresh(now)
    \/ Advance

Spec == Init /\ [][Next]_vars

-----------------------------------------------------------------------------
\* Every variable holds what its column or its request can hold.
TypeOK ==
    /\ clock \in Nat /\ faults \in Nat /\ issued \in 0..MaxTokens
    /\ code \in [Codes -> {"unused", "live", "spent", "purged"}]
    /\ codeExpiry \in [Codes -> Nat]
    /\ access \in [Tokens -> Codes \cup {None}] /\ refresh \in [Tokens -> Codes \cup {None}]
    /\ accessExpiry \in [Tokens -> Nat] /\ refreshExpiry \in [Tokens -> Nat]
    /\ revokedA \subseteq Tokens /\ revokedR \subseteq Tokens /\ rotated \subseteq Tokens
    /\ pc \in [Requests -> {"idle", "claimed", "replayed", "access", "refresh", "rotate", "retire",
                            "revokeAccess", "revokeRefresh"}]
    /\ family \in [Requests -> Codes \cup {None}] /\ token \in [Requests -> 0..MaxTokens]
    /\ dead \subseteq Codes /\ raced \subseteq Codes

\* One approval, one live pair.  However many requests present the code or a
\* refresh token at once, at most one refresh token of a family is left to be
\* exchanged: the claim of the code and the rotation decide between them.  And a
\* refresh retires the old access token before the new one is stored, so two of a
\* family are never live together, whatever fails between the statements.
OneLivePair ==
    \A t, u \in Tokens : t # u =>
        /\ ~(refresh[t] # None /\ refresh[t] = refresh[u] /\ {t, u} \cap rotated = {})
        /\ ~(access[t] # None /\ access[t] = access[u] /\ {t, u} \cap revokedA = {})

\* A family that was revoked stays revoked: nothing of it is live again, unless
\* the revocation ran in the middle of a request that had already won the code or
\* read the refresh token; what such a request then stores is not revoked.
RevocationIsFinal ==
    \A f \in dead \ raced : \A t \in Tokens :
        /\ access[t] = f => t \in revokedA
        /\ refresh[t] = f => t \in revokedR
=============================================================================
