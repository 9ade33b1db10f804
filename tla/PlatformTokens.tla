---------------------------- MODULE PlatformTokens ----------------------------
(***************************************************************************)
(* The users of the REST routes.  A credential that looks like a JWT is    *)
(* the platform's: with a shared secret it is verified here, without one   *)
(* the platform is asked and its answer is kept for five minutes.  Any     *)
(* other credential is looked up in the tokens table, read here as the     *)
(* status that the row has at that moment (module Tokens).                 *)
(*                                                                         *)
(* The call to the platform blocks the event loop, so it is one step.      *)
(* asked, when the platform last vouched for a JWT, is history.            *)
(***************************************************************************)
EXTENDS Naturals

CONSTANTS
    Jwts,           \* the platform's tokens
    DbTokens,       \* the tokens of the tokens table
    CacheTtl,       \* _CACHE_TTL, in ticks of the clock
    NotCached,      \* no entry in _platform_jwt_cache
    MaxSeconds       \* bound: how far the clock goes

ASSUME PlatformAssumption ==
    /\ CacheTtl \in Nat \ {0} /\ MaxSeconds \in Nat
    /\ NotCached \notin Nat
    /\ Jwts \cap DbTokens = {}

VARIABLES
    secret_known, \* jwt_secret_key is set; fixed when the server starts
    issued,     \* what the platform thinks of each JWT: "good" or "withdrawn"
    expired,    \* the JWTs whose own exp claim has passed
    rows,       \* what the tokens table says of each token
    cache,      \* _platform_jwt_cache: when the entry of a JWT ends, or NotCached
    asked,      \* when the platform last said yes, or NotCached
    seconds,    \* time.time()
    outcome     \* the last answer: [status, token, at], status as in HTTP

platformVars == <<secret_known, issued, expired, rows, cache, asked, seconds, outcome>>

Says(status, token) ==
    outcome' = [status |-> status, token |-> token, at |-> seconds]

-----------------------------------------------------------------------------
\* jwt.decode: the signature, and the exp claim.
ValidateLocally(t) ==
    /\ secret_known
    /\ Says(IF t \in expired THEN 401 ELSE 200, t)
    /\ UNCHANGED <<secret_known, issued, expired, rows, cache, asked, seconds>>

\* Mutant of Fresh: the entry is used once more when it has just run out.
FreshToTheEnd(t) == cache[t] # NotCached /\ seconds <= cache[t]
Fresh(t) == cache[t] # NotCached /\ seconds < cache[t]

FromCache(t) ==
    /\ ~secret_known
    /\ Fresh(t)
    /\ Says(200, t)
    /\ UNCHANGED <<secret_known, issued, expired, rows, cache, asked, seconds>>

\* An entry that has run out goes whatever the platform then says.
AskPlatform(t) ==
    /\ ~secret_known
    /\ ~Fresh(t)
    /\ IF issued[t] = "good" /\ t \notin expired
       THEN /\ cache' = [cache EXCEPT ![t] = seconds + CacheTtl]
            /\ asked' = [asked EXCEPT ![t] = seconds]
            /\ Says(200, t)
       ELSE /\ cache' = [cache EXCEPT ![t] = NotCached]
            /\ UNCHANGED asked
            /\ Says(401, t)
    /\ UNCHANGED <<secret_known, issued, expired, rows, seconds>>

\* The connection fails (503), or the answer is not one (401).
PlatformFails(t) ==
    /\ ~secret_known
    /\ ~Fresh(t)
    /\ cache' = [cache EXCEPT ![t] = NotCached]
    /\ \E status \in {401, 503} : Says(status, t)
    /\ UNCHANGED <<secret_known, issued, expired, rows, asked, seconds>>

\* _validate_db_token: one query each time, nothing kept; 500 when it fails.
ValidateDbToken(t) ==
    /\ \/ Says(IF rows[t] = "active" THEN 200 ELSE 401, t)
       \/ Says(500, t)
    /\ UNCHANGED <<secret_known, issued, expired, rows, cache, asked, seconds>>

-----------------------------------------------------------------------------
\* The platform, the administrator and the clock.
Withdraw(t) ==
    /\ issued' = [issued EXCEPT ![t] = "withdrawn"]
    /\ UNCHANGED <<secret_known, expired, rows, cache, asked, seconds, outcome>>

\* Revoked, deleted, or past expires_at.
EndDbToken(t) ==
    /\ rows' = [rows EXCEPT ![t] = "ended"]
    /\ UNCHANGED <<secret_known, issued, expired, cache, asked, seconds, outcome>>

PlatformTick ==
    /\ seconds < MaxSeconds
    /\ seconds' = seconds + 1
    /\ \E more \in SUBSET Jwts : expired' = expired \cup more
    /\ UNCHANGED <<secret_known, issued, rows, cache, asked, outcome>>

PlatformInit ==
    /\ secret_known \in BOOLEAN
    /\ issued = [t \in Jwts |-> "good"]
    /\ expired = {}
    /\ rows = [t \in DbTokens |-> "active"]
    /\ cache = [t \in Jwts |-> NotCached]
    /\ asked = [t \in Jwts |-> NotCached]
    /\ seconds = 0
    /\ outcome = [status |-> 0]

PlatformNext ==
    \/ PlatformTick
    \/ \E t \in Jwts : \/ ValidateLocally(t) \/ FromCache(t) \/ AskPlatform(t)
                       \/ PlatformFails(t) \/ Withdraw(t)
    \/ \E t \in DbTokens : ValidateDbToken(t) \/ EndDbToken(t)

PlatformSpec == PlatformInit /\ [][PlatformNext]_platformVars

-----------------------------------------------------------------------------
(* A withdrawn JWT is let in for less than the life of a cache entry after  *)
(* the platform last vouched for it, however often it is used meanwhile and *)
(* whatever the platform answers to others: using an entry never renews it, *)
(* and no failure of the platform leaves a stale entry behind.              *)
StaleForFiveMinutes ==
    (outcome.status = 200 /\ outcome.token \in Jwts /\ ~secret_known)
        => asked[outcome.token] # NotCached /\ outcome.at < asked[outcome.token] + CacheTtl
=============================================================================
