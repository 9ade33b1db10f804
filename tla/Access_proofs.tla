---------------------------- MODULE Access_proofs ----------------------------
(***************************************************************************)
(* Who may call the server: the platform's JWTs, the API tokens and the    *)
(* users of the workbench, for every number of callers, tokens and users.  *)
(***************************************************************************)
EXTENDS Accounts, Tokens, PlatformTokens, FiniteSetTheorems, TLAPS

-----------------------------------------------------------------------------
(* Platform JWTs.  An entry ends CacheTtl after the platform last vouched   *)
(* for its JWT, and the platform never vouched in the future.               *)

PlatformInv ==
    /\ secret_known \in BOOLEAN /\ seconds \in Nat
    /\ cache \in [Jwts -> Nat \cup {NotCached}]
    /\ asked \in [Jwts -> Nat \cup {NotCached}]
    /\ \A t \in Jwts :
          /\ asked[t] # NotCached => asked[t] <= seconds
          /\ cache[t] # NotCached => asked[t] # NotCached /\ cache[t] = asked[t] + CacheTtl
    /\ outcome.status = 200 => outcome.at \in Nat
    /\ StaleForFiveMinutes

LEMMA PlatformStep ==
    ASSUME PlatformInv, [PlatformNext]_platformVars
    PROVE  PlatformInv'
<1>1. CacheTtl \in Nat \ {0} /\ NotCached \notin Nat /\ Jwts \cap DbTokens = {}
  BY PlatformAssumption
<1>2. ASSUME NEW t \in Jwts, ValidateLocally(t) PROVE PlatformInv'
  BY <1>2 DEF ValidateLocally, Says, PlatformInv, StaleForFiveMinutes
<1>3. ASSUME NEW t \in Jwts, FromCache(t) PROVE PlatformInv'
  BY <1>1, <1>3 DEF FromCache, Fresh, Says, PlatformInv, StaleForFiveMinutes
<1>4. ASSUME NEW t \in Jwts, AskPlatform(t) PROVE PlatformInv'
  <2>1. CASE issued[t] = "good" /\ t \notin expired
    <3>1. /\ cache' = [cache EXCEPT ![t] = seconds + CacheTtl]
          /\ asked' = [asked EXCEPT ![t] = seconds]
          /\ outcome' = [status |-> 200, token |-> t, at |-> seconds]
          /\ UNCHANGED <<secret_known, seconds>>
      BY <1>4, <2>1 DEF AskPlatform, Says
    <3>2. StaleForFiveMinutes'
      BY <1>1, <3>1 DEF PlatformInv, StaleForFiveMinutes
    <3> QED
      BY <1>1, <3>1, <3>2 DEF PlatformInv
  <2>2. CASE ~(issued[t] = "good" /\ t \notin expired)
    BY <1>1, <1>4, <2>2 DEF AskPlatform, Says, PlatformInv, StaleForFiveMinutes
  <2> QED
    BY <2>1, <2>2
<1>5. ASSUME NEW t \in Jwts, PlatformFails(t) PROVE PlatformInv'
  BY <1>1, <1>5 DEF PlatformFails, Says, PlatformInv, StaleForFiveMinutes
<1>6. ASSUME NEW t \in DbTokens, ValidateDbToken(t) PROVE PlatformInv'
  BY <1>1, <1>6 DEF ValidateDbToken, Says, PlatformInv, StaleForFiveMinutes
<1>7. CASE PlatformTick
  BY <1>1, <1>7 DEF PlatformTick, PlatformInv, StaleForFiveMinutes
<1>8. CASE \/ UNCHANGED platformVars
           \/ \E t \in Jwts : Withdraw(t)
           \/ \E t \in DbTokens : EndDbToken(t)
  BY <1>8 DEF platformVars, Withdraw, EndDbToken, PlatformInv, StaleForFiveMinutes
<1> QED
  BY <1>2, <1>3, <1>4, <1>5, <1>6, <1>7, <1>8 DEF PlatformNext

(* However often a withdrawn JWT is used, and however the platform fails    *)
(* meanwhile, it is let in for less than CacheTtl after the platform last   *)
(* vouched for it.                                                          *)
THEOREM CacheRunsOut == PlatformSpec => []StaleForFiveMinutes
<1>1. PlatformInit => PlatformInv
  BY PlatformAssumption DEF PlatformInit, PlatformInv, StaleForFiveMinutes
<1>2. PlatformInv /\ [PlatformNext]_platformVars => PlatformInv'
  BY PlatformStep
<1>3. PlatformInv => StaleForFiveMinutes
  BY DEF PlatformInv
<1> QED
  BY <1>1, <1>2, <1>3, PTL DEF PlatformSpec

-----------------------------------------------------------------------------
(* API tokens.  An id is made once, so a token that has existed and is not  *)
(* good is never good again: a lookup that comes too late stays too late,   *)
(* however long it runs.  The session belongs to the lookup that opened it. *)

Request ==
    [pc : {"idle"}]
        \cup [pc : {"lookup"}, token : TokenIds, own : BOOLEAN, shared : BOOLEAN,
              dead : BOOLEAN]
        \cup [pc : {"found"}, dead : BOOLEAN, permissions : SUBSET Permissions,
              model_id : TokenSpaces \cup {AllSpaces}]
        \cup [pc : {"run"}, tool : Tools, dead : BOOLEAN]

TokensTypes ==
    /\ tokens \in [TokenIds -> Token \cup {NoToken}]
    /\ spent \subseteq TokenIds
    /\ borrowing \in Callers \cup {NoCaller}
    /\ requests \in [Callers -> Request]
    /\ day \in Nat

Outdated ==
    \A c \in Callers :
        /\ Pc(c) = "lookup" =>
              requests[c].token \in spent /\ (requests[c].dead => ~Good(requests[c].token))
        /\ Pc(c) = "found" => ~requests[c].dead

TokensInv == TokensTypes /\ Outdated /\ LookupReleased /\ DeadTokensStayOut

\* What a request that is on its way looks like.
LEMMA Requests ==
    ASSUME TokensTypes, NEW c \in Callers
    PROVE  /\ requests[c] \in Request
           /\ Pc(c) = "lookup" => /\ requests[c].token \in TokenIds
                                  /\ requests[c].dead \in BOOLEAN
                                  /\ requests[c] \in
                                       [pc : {"lookup"}, token : TokenIds, own : BOOLEAN,
                                        shared : BOOLEAN, dead : BOOLEAN]
           /\ Pc(c) = "found" => /\ requests[c].dead \in BOOLEAN
                                 /\ requests[c].permissions \in SUBSET Permissions
                                 /\ requests[c].model_id \in TokenSpaces \cup {AllSpaces}
           /\ Pc(c) = "run" => requests[c].tool \in Tools /\ requests[c].dead \in BOOLEAN
<1>1. requests[c] \in Request
  BY DEF TokensTypes
<1> QED
  BY <1>1 DEF Request, Pc

\* What each change of the table keeps: its types, and that the tokens that
\* have existed only get worse.
Worse ==
    /\ tokens' \in [TokenIds -> Token \cup {NoToken}]
    /\ spent \subseteq spent' /\ spent' \subseteq TokenIds
    /\ \A t \in spent : Good(t)' => Good(t)

LEMMA InsertWorse ==
    ASSUME TokensTypes, NEW g \in Grants, Insert(g), UNCHANGED day
    PROVE  Worse
<1> DEFINE t == CHOOSE x \in TokenIds \ spent : TRUE
<1>1. t \in TokenIds \ spent
  BY DEF Insert
<1>2. tokens' = [tokens EXCEPT ![t] = TokenRow(g)] /\ spent' = spent \cup {t}
  BY DEF Insert
<1> HIDE DEF t
<1>3. TokenRow(g) \in Token
  BY TokensAssumption DEF TokenRow, Token, Never
<1> QED
  BY <1>1, <1>2, <1>3 DEF Worse, TokensTypes, Good

LEMMA RevokeWorse ==
    ASSUME TokensTypes, NEW S \in SUBSET TokenIds, \A t \in S : tokens[t] # NoToken,
           tokens' = [t \in TokenIds |-> IF t \in S THEN [tokens[t] EXCEPT !.status = "revoked"]
                                         ELSE tokens[t]],
           UNCHANGED <<spent, day>>
    PROVE  Worse
<1>1. ASSUME NEW t \in TokenIds PROVE tokens'[t] \in Token \cup {NoToken}
  BY DEF TokensTypes, Token
<1>2. ASSUME NEW t \in spent, Good(t)' PROVE Good(t)
  <2>1. t \in TokenIds /\ t \notin S
    BY <1>2 DEF TokensTypes, Token, Good
  <2> QED
    BY <1>2, <2>1 DEF TokensTypes, Good
<1> QED
  BY <1>1, <1>2 DEF Worse, TokensTypes

LEMMA DeleteWorse ==
    ASSUME TokensTypes, NEW S \in SUBSET TokenIds,
           tokens' = [t \in TokenIds |-> IF t \in S THEN NoToken ELSE tokens[t]],
           UNCHANGED <<spent, day>>
    PROVE  Worse
BY DEF Worse, TokensTypes, Good

LEMMA KeptWorse ==
    ASSUME TokensTypes, UNCHANGED <<tokens, spent>>, day' >= day, day' \in Nat
    PROVE  Worse
<1>1. ASSUME NEW t \in spent, Good(t)' PROVE Good(t)
  <2>1. t \in TokenIds /\ tokens[t] \in Token \cup {NoToken}
    BY DEF TokensTypes
  <2>2. tokens[t] # NoToken => tokens[t].expires_at \in Int
    BY <2>1, TokensAssumption DEF Token, Never
  <2> QED
    BY <1>1, <2>2 DEF Good, TokensTypes
<1> QED
  BY <1>1 DEF Worse, TokensTypes

\* A step that ends the request of at most one caller, and whose session
\* goes with it.
LEMMA EndedKeeps ==
    ASSUME TokensInv, Worse, day' \in Nat, NEW c \in Callers, Pc(c) # "lookup",
           Done(c), UNCHANGED borrowing
    PROVE  TokensInv'
<1>1. requests' = [requests EXCEPT ![c] = [pc |-> "idle"]]
  BY DEF Done
<1>2. [pc |-> "idle"] \in Request
  BY DEF Request
<1>3. requests' \in [Callers -> Request]
  BY <1>1, <1>2 DEF TokensInv, TokensTypes
<1>4. TokensTypes'
  BY <1>3 DEF TokensInv, TokensTypes, Worse
<1>5. Outdated' /\ LookupReleased' /\ DeadTokensStayOut'
  BY <1>1 DEF TokensInv, TokensTypes, Outdated, LookupReleased, DeadTokensStayOut, Pc, Worse
<1> QED
  BY <1>4, <1>5 DEF TokensInv

LEMMA NobodyMovesKeeps ==
    ASSUME TokensInv, Worse, day' \in Nat, UNCHANGED <<requests, borrowing>>
    PROVE  TokensInv'
BY DEF TokensInv, TokensTypes, Outdated, LookupReleased, DeadTokensStayOut, Pc, Worse

\* One caller goes on to another state; every other request stays as it is,
\* but that it may have been borrowed from.
LEMMA PresentKeeps ==
    ASSUME TokensInv, NEW c \in Callers, NEW t \in TokenIds, Present(c, t)
    PROVE  TokensInv'
<1> DEFINE new == [pc |-> "lookup", token |-> t, own |-> borrowing = NoCaller,
                   shared |-> borrowing # NoCaller, dead |-> ~Usable(t)]
<1>1. /\ t \in spent /\ Pc(c) = "idle"
      /\ UNCHANGED <<tokens, spent, day>>
      /\ borrowing' = IF borrowing = NoCaller THEN c ELSE borrowing
  BY DEF Present
<1>2. requests' = [d \in Callers |-> CASE d = c -> new
                     [] d = borrowing -> [requests[d] EXCEPT !.shared = TRUE]
                     [] OTHER -> requests[d]]
  BY DEF Present
<1>3. new \in Request /\ new.pc = "lookup" /\ new.token = t
      /\ new.own = (borrowing = NoCaller) /\ new.dead = ~Usable(t)
  BY DEF Request
<1>4. ~Usable(t) => ~Good(t)
  <2>1. tokens[t] \in Token \cup {NoToken} /\ day \in Nat
    BY DEF TokensInv, TokensTypes
  <2>2. tokens[t] # NoToken => tokens[t].expires_at \in Int
    BY <2>1, TokensAssumption DEF Token, Never
  <2> QED
    BY <2>1, <2>2 DEF Usable, Good
<1> HIDE DEF new
<1>5. requests'[c] = new
  <2>1. c # borrowing
    BY <1>1, NoRowAssumption DEF TokensInv, LookupReleased
  <2> QED
    BY <1>2, <2>1
<1>6. ASSUME NEW d \in Callers, d # c, d = borrowing
      PROVE  /\ requests'[d] \in Request /\ requests'[d].pc = requests[d].pc
             /\ requests'[d].token = requests[d].token
             /\ requests'[d].dead = requests[d].dead
             /\ requests'[d].own = requests[d].own
  <2>1. Pc(d) = "lookup"
    BY <1>6, NoRowAssumption DEF TokensInv, LookupReleased
  <2>2. requests[d] \in [pc : {"lookup"}, token : TokenIds, own : BOOLEAN,
                         shared : BOOLEAN, dead : BOOLEAN]
    BY <2>1, Requests DEF TokensInv
  <2>3. requests'[d] = [requests[d] EXCEPT !.shared = TRUE]
    BY <1>2, <1>6
  <2> QED
    BY <2>2, <2>3 DEF Request
<1>7. ASSUME NEW d \in Callers, d # c, d # borrowing PROVE requests'[d] = requests[d]
  BY <1>2, <1>7
<1>8. requests' \in [Callers -> Request]
  <2>1. ASSUME NEW d \in Callers PROVE requests'[d] \in Request
    BY <1>3, <1>5, <1>6, <1>7 DEF TokensInv, TokensTypes
  <2> QED
    BY <1>2, <2>1
<1>9. TokensTypes'
  BY <1>1, <1>8 DEF TokensInv, TokensTypes
<1>10. Outdated'
  <2>1. ASSUME NEW d \in Callers
        PROVE  (/\ Pc(d) = "lookup" => requests[d].token \in spent
                      /\ (requests[d].dead => ~Good(requests[d].token))
                /\ Pc(d) = "found" => ~requests[d].dead)'
    <3>1. CASE d = c
      BY <1>1, <1>3, <1>4, <1>5, <3>1 DEF Pc, Good
    <3>2. CASE d # c
      BY <1>1, <1>6, <1>7, <3>2 DEF Pc, Good, TokensInv, Outdated
    <3> QED
      BY <3>1, <3>2
  <2> QED
    BY <2>1 DEF Outdated
<1>11. LookupReleased'
  BY <1>1, <1>3, <1>5, <1>6, <1>7, NoRowAssumption
     DEF LookupReleased, TokensInv, TokensTypes, Pc
<1>12. DeadTokensStayOut'
  BY <1>3, <1>5, <1>6, <1>7 DEF DeadTokensStayOut, TokensInv, Pc
<1> QED
  BY <1>9, <1>10, <1>11, <1>12 DEF TokensInv

LEMMA FoundKeeps ==
    ASSUME TokensInv, NEW c \in Callers, Found(c)
    PROVE  TokensInv'
<1> DEFINE new == [pc |-> "found", dead |-> requests[c].dead,
                   permissions |-> tokens[requests[c].token].permissions,
                   model_id |-> tokens[requests[c].token].model_id]
<1>1. /\ Pc(c) = "lookup" /\ Good(requests[c].token)
      /\ requests' = [requests EXCEPT ![c] = new]
      /\ borrowing' = IF requests[c].own THEN NoCaller ELSE borrowing
      /\ UNCHANGED <<tokens, spent, day>>
  BY DEF Found, Released
<1>2. requests[c].token \in TokenIds /\ requests[c].dead \in BOOLEAN
  BY <1>1, Requests DEF TokensInv
<1>3. tokens[requests[c].token] \in Token
  BY <1>1, <1>2 DEF TokensInv, TokensTypes, Good
<1>4. new \in Request /\ new.pc = "found" /\ new.dead = requests[c].dead
  BY <1>2, <1>3 DEF Request, Token
<1> HIDE DEF new
<1>5. ~requests[c].dead
  BY <1>1 DEF TokensInv, Outdated
<1>6. requests' \in [Callers -> Request]
  BY <1>1, <1>4 DEF TokensInv, TokensTypes
<1>7. TokensTypes'
  BY <1>1, <1>6 DEF TokensInv, TokensTypes
<1>8. Outdated' /\ LookupReleased' /\ DeadTokensStayOut'
  BY <1>1, <1>4, <1>5
     DEF TokensInv, TokensTypes, Outdated, LookupReleased, DeadTokensStayOut, Pc, Good
<1> QED
  BY <1>7, <1>8 DEF TokensInv

LEMMA RefusedKeeps ==
    ASSUME TokensInv, NEW c \in Callers, Refused(c)
    PROVE  TokensInv'
<1>1. /\ Pc(c) = "lookup"
      /\ requests' = [requests EXCEPT ![c] = [pc |-> "idle"]]
      /\ borrowing' = IF requests[c].own THEN NoCaller ELSE borrowing
      /\ UNCHANGED <<tokens, spent, day>>
  BY DEF Refused, Released, Done
<1>2. [pc |-> "idle"] \in Request
  BY DEF Request
<1>3. requests' \in [Callers -> Request]
  BY <1>1, <1>2 DEF TokensInv, TokensTypes
<1>4. TokensTypes'
  BY <1>1, <1>3 DEF TokensInv, TokensTypes
<1>5. Outdated' /\ LookupReleased' /\ DeadTokensStayOut'
  BY <1>1 DEF TokensInv, TokensTypes, Outdated, LookupReleased, DeadTokensStayOut, Pc, Good
<1> QED
  BY <1>4, <1>5 DEF TokensInv

LEMMA AuthorizeKeeps ==
    ASSUME TokensInv, NEW c \in Callers, NEW tool \in Tools, NEW space,
           Authorize(c, tool, space)
    PROVE  TokensInv'
<1> DEFINE new == [pc |-> "run", tool |-> tool, dead |-> requests[c].dead]
<1>1. /\ Pc(c) = "found" /\ requests' = [requests EXCEPT ![c] = new]
      /\ UNCHANGED <<tokens, spent, borrowing, day>>
  BY DEF Authorize
<1>2. requests[c].dead \in BOOLEAN /\ ~requests[c].dead
  BY <1>1, Requests DEF TokensInv, Outdated
<1>3. new \in Request /\ new.pc = "run" /\ new.dead = requests[c].dead
  BY <1>2 DEF Request
<1> HIDE DEF new
<1>4. requests' \in [Callers -> Request]
  BY <1>1, <1>3 DEF TokensInv, TokensTypes
<1>5. TokensTypes'
  BY <1>1, <1>4 DEF TokensInv, TokensTypes
<1>6. Outdated' /\ LookupReleased' /\ DeadTokensStayOut'
  BY <1>1, <1>2, <1>3
     DEF TokensInv, TokensTypes, Outdated, LookupReleased, DeadTokensStayOut, Pc, Good
<1> QED
  BY <1>5, <1>6 DEF TokensInv

LEMMA TokensStep ==
    ASSUME TokensInv, [TokensNext]_tokensVars
    PROVE  TokensInv'
<1>1. TokensTypes /\ day' \in Nat
  <2>1. TokensTypes
    BY DEF TokensInv
  <2>2. CASE TokensTick
    BY <2>1, <2>2 DEF TokensTypes, TokensTick
  <2>3. CASE day' = day
    BY <2>1, <2>3 DEF TokensTypes
  <2>4. TokensTick \/ day' = day
    BY DEF tokensVars, TokensNext, RouteCreate, RouteRevoke, Present, Found, Refused, OtherTool,
           Authorize, Forbid, CreateToken, TokenRevoke, TokenDelete
  <2> QED
    BY <2>1, <2>2, <2>3, <2>4
<1>2. ASSUME NEW c \in Callers, NEW t \in TokenIds, Present(c, t) PROVE TokensInv'
  BY <1>2, PresentKeeps
<1>3. ASSUME NEW c \in Callers, Found(c) \/ Refused(c) PROVE TokensInv'
  BY <1>3, FoundKeeps, RefusedKeeps
<1>4. ASSUME NEW c \in Callers, NEW tool \in Tools, NEW space \in TokenSpaces,
             Authorize(c, tool, space)
      PROVE  TokensInv'
  BY <1>4, AuthorizeKeeps
<1>5. ASSUME NEW c \in Callers, NEW tool \in Tools, NEW space \in TokenSpaces,
             Forbid(c, tool, space)
      PROVE  TokensInv'
  <2>1. /\ Pc(c) # "lookup" /\ Done(c)
        /\ UNCHANGED <<tokens, spent, borrowing, day>>
    BY <1>5 DEF Forbid
  <2>2. Worse
    BY <1>1, <2>1, KeptWorse DEF TokensTypes
  <2> QED
    BY <1>1, <2>1, <2>2, EndedKeeps
<1>6. ASSUME NEW c \in Callers, NEW g \in Grants, CreateToken(c, g) PROVE TokensInv'
  <2>1. Pc(c) # "lookup" /\ Done(c) /\ UNCHANGED <<borrowing, day>> /\ Insert(g)
    BY <1>6 DEF CreateToken, Running
  <2>2. Worse
    BY <1>1, <2>1, InsertWorse
  <2> QED
    BY <1>1, <2>1, <2>2, EndedKeeps
<1>7. ASSUME NEW c \in Callers, NEW n, TokenRevoke(c, n) PROVE TokensInv'
  <2>1. /\ Pc(c) # "lookup" /\ Done(c)
        /\ UNCHANGED <<spent, borrowing, day>>
        /\ tokens' = [t \in TokenIds |-> IF t \in Matching(n)
                        THEN [tokens[t] EXCEPT !.status = "revoked"] ELSE tokens[t]]
    BY <1>7 DEF TokenRevoke, Running
  <2>2. Matching(n) \in SUBSET TokenIds /\ \A t \in Matching(n) : tokens[t] # NoToken
    BY DEF Matching
  <2>3. Worse
    BY <1>1, <2>1, <2>2, RevokeWorse
  <2> QED
    BY <1>1, <2>1, <2>3, EndedKeeps
<1>8. ASSUME NEW c \in Callers, NEW n, TokenDelete(c, n) PROVE TokensInv'
  <2>1. Pc(c) # "lookup" /\ Done(c) /\ UNCHANGED <<spent, borrowing, day>>
    BY <1>8 DEF TokenDelete, Running
  <2>2. CASE Deletable(n)
    <3>1. tokens' = [t \in TokenIds |-> IF t \in Matching(n) THEN NoToken ELSE tokens[t]]
      BY <1>8, <2>2 DEF TokenDelete
    <3>2. Matching(n) \in SUBSET TokenIds
      BY DEF Matching
    <3>3. Worse
      BY <1>1, <2>1, <3>1, <3>2, DeleteWorse
    <3> QED
      BY <1>1, <2>1, <3>3, EndedKeeps
  <2>3. CASE ~Deletable(n)
    <3>1. Worse
      BY <1>1, <1>8, <2>1, <2>3, KeptWorse DEF TokenDelete, TokensTypes
    <3> QED
      BY <1>1, <2>1, <3>1, EndedKeeps
  <2> QED
    BY <2>2, <2>3
<1>9. ASSUME NEW g \in Grants, RouteCreate(g) PROVE TokensInv'
  <2>1. Worse
    BY <1>1, <1>9, InsertWorse DEF RouteCreate
  <2> QED
    BY <1>1, <1>9, <2>1, NobodyMovesKeeps DEF RouteCreate
<1>10. ASSUME NEW t \in TokenIds, RouteRevoke(t) PROVE TokensInv'
  <2>1. /\ {t} \in SUBSET TokenIds /\ \A u \in {t} : tokens[u] # NoToken
        /\ tokens' = [u \in TokenIds |-> IF u \in {t}
                        THEN [tokens[u] EXCEPT !.status = "revoked"] ELSE tokens[u]]
    BY <1>1, <1>10 DEF RouteRevoke, TokensTypes
  <2>2. UNCHANGED <<spent, borrowing, requests, day>>
    BY <1>10 DEF RouteRevoke
  <2>3. Worse
    BY <1>1, <2>1, <2>2, RevokeWorse
  <2> QED
    BY <1>1, <2>2, <2>3, NobodyMovesKeeps
<1>11. CASE TokensTick \/ UNCHANGED tokensVars
  <2>1. /\ day' >= day /\ day' \in Nat
        /\ UNCHANGED <<tokens, spent, borrowing, requests>>
    BY <1>1, <1>11 DEF TokensTick, tokensVars, TokensTypes
  <2>2. Worse
    BY <1>1, <2>1, KeptWorse
  <2> QED
    BY <2>1, <2>2, NobodyMovesKeeps
<1>12. ASSUME NEW c \in Callers,
              \E n \in TokenIds \cup {Prefix[t] : t \in TokenIds} :
                 TokenRevoke(c, n) \/ TokenDelete(c, n)
       PROVE  TokensInv'
  BY <1>7, <1>8, <1>12
<1>13. ASSUME NEW c \in Callers,
              \E tool \in Tools, space \in TokenSpaces :
                 Authorize(c, tool, space) \/ Forbid(c, tool, space)
       PROVE  TokensInv'
  BY <1>4, <1>5, <1>13
<1>14. ASSUME NEW c \in Callers,
              \/ \E t \in TokenIds : Present(c, t)
              \/ Found(c) \/ Refused(c) \/ OtherTool(c)
              \/ \E g \in Grants : CreateToken(c, g)
       PROVE  TokensInv'
  <2>1. CASE OtherTool(c)
    <3>1. /\ Pc(c) # "lookup" /\ Done(c)
          /\ UNCHANGED <<tokens, spent, borrowing, day>>
      BY <2>1 DEF OtherTool
    <3>2. Worse
      BY <1>1, <3>1, KeptWorse DEF TokensTypes
    <3> QED
      BY <1>1, <3>1, <3>2, EndedKeeps
  <2> QED
    BY <1>2, <1>3, <1>6, <1>14, <2>1
<1> QED
  BY <1>9, <1>10, <1>11, <1>12, <1>13, <1>14 DEF TokensNext

LEMMA TokensStart == TokensInit => TokensInv
<1> SUFFICES ASSUME TokensInit PROVE TokensInv
  OBVIOUS
<1>1. TokenRow([permissions |-> Permissions, model_id |-> AllSpaces, expires_at |-> Never])
        \in Token
  BY TokensAssumption DEF TokenRow, Token, Never
<1>2. [pc |-> "idle"] \in Request
  BY DEF Request
<1>3. TokensTypes
  BY <1>1, <1>2, TokensAssumption DEF TokensInit, TokensTypes
<1>4. Outdated /\ LookupReleased /\ DeadTokensStayOut
  BY DEF TokensInit, Outdated, LookupReleased, DeadTokensStayOut, Pc
<1> QED
  BY <1>3, <1>4 DEF TokensInv

(* AuthService keeps a session for no longer than the lookup that opened    *)
(* it, whoever borrows it meanwhile.                                        *)
THEOREM SessionsReleased == TokensSpec => []LookupReleased
<1>1. TokensInv => LookupReleased
  BY DEF TokensInv
<1> QED
  BY TokensStart, TokensStep, <1>1, PTL DEF TokensSpec

(* A request whose token was unusable when it came runs no tool, whatever   *)
(* the tokens table becomes while its lookup is under way.                  *)
THEOREM DeadTokensRefused == TokensSpec => []DeadTokensStayOut
<1>1. TokensInv => DeadTokensStayOut
  BY DEF TokensInv
<1> QED
  BY TokensStart, TokensStep, <1>1, PTL DEF TokensSpec

(* A row leaves the tokens table only after it was revoked.                 *)
THEOREM RevokedFirst == TokensSpec => RevokedBeforeDeleted
<1>1. ASSUME TokensInv, [TokensNext]_tokensVars
      PROVE  [\A t \in TokenIds : tokens[t] # NoToken /\ tokens'[t] = NoToken
                                    => tokens[t].status = "revoked"]_tokens
  <2> SUFFICES ASSUME NEW t \in TokenIds, tokens[t] # NoToken, tokens'[t] = NoToken
               PROVE  tokens[t].status = "revoked"
    BY Zenon
  <2>1. tokens[t] \in Token
    BY <1>1 DEF TokensInv, TokensTypes
  <2>2. ASSUME NEW g \in Grants, Insert(g) PROVE FALSE
    <3>1. TokenRow(g) \in Token
      BY TokensAssumption DEF TokenRow, Token, Never
    <3> QED
      BY <1>1, <2>2, <3>1, NoRowAssumption DEF Insert, TokensInv, TokensTypes
  <2>3. ASSUME NEW row \in Token PROVE [row EXCEPT !.status = "revoked"] # NoToken
    BY NoRowAssumption DEF Token
  <2>4. ASSUME NEW c \in Callers, NEW n, TokenDelete(c, n) PROVE tokens[t].status = "revoked"
    <3>1. t \in Matching(n) /\ Deletable(n)
      BY <2>4 DEF TokenDelete
    <3> QED
      BY <2>1, <3>1 DEF Deletable, Token
  <2>5. ASSUME NEW c \in Callers, NEW n, TokenRevoke(c, n) PROVE FALSE
    BY <2>1, <2>3, <2>5 DEF TokenRevoke
  <2>6. ASSUME NEW u \in TokenIds, RouteRevoke(u) PROVE FALSE
    <3>1. tokens'[t] = IF t = u THEN [tokens[t] EXCEPT !.status = "revoked"] ELSE tokens[t]
      BY <1>1, <2>6 DEF RouteRevoke, TokensInv, TokensTypes
    <3> QED
      BY <2>1, <2>3, <3>1
  <2>7. tokens' # tokens
    OBVIOUS
  <2> QED
    BY <1>1, <2>2, <2>4, <2>5, <2>6, <2>7
       DEF TokensNext, tokensVars, TokensTick, RouteCreate, Present, Found, Refused, OtherTool,
           Authorize, Forbid, CreateToken
<1> QED
  BY TokensStart, TokensStep, <1>1, PTL DEF TokensSpec, RevokedBeforeDeleted

-----------------------------------------------------------------------------
(* Users and sessions.  A user row is never removed and its role never      *)
(* changes, so a session's name and role stay true of the user.             *)

Password == Passwords \cup {Temporary}

Session == [name : Names, role : Roles, expires : Nat, revoked : BOOLEAN,
            password : Password, late : BOOLEAN]

\* What a browser waits for.
Call ==
    [pc : {"idle"}]
        \cup [pc : {"login"}, name : Names, user : User]
        \cup [pc : {"session"}, session : Nat, operation : Operation]
        \cup [pc : {"change", "create", "insert", "disable", "me", "mcp"}, session : Nat,
              operation : Operation, hash : Password]
        \cup [pc : {"revoke"}, session : Nat]

Browser == [cookie : Nat \cup {NoCookie}, call : Call]

AccountsTypes ==
    /\ users \in [Names -> User \cup {NoUser}]
    /\ \E n \in Nat : sessions \in [1..n -> Session]
    /\ browsers \in [Browsers -> Browser]
    /\ hours \in Nat

\* What a session says of its user.
SessionOfUser(s) == users[s.name] # NoUser /\ s.role = users[s.name].role

Administering(call) == call.pc \in {"create", "insert", "disable"}

\* What a browser that waits may rely on.
InOrder(browser) ==
    LET c == browser.call IN
    /\ browser.cookie \in DOMAIN sessions \cup {NoCookie}
    /\ c.pc = "login" => users[c.name] # NoUser /\ c.user.role = users[c.name].role
    /\ c.pc \notin {"idle", "login"} => c.session \in DOMAIN sessions
    /\ c.pc \in {"change", "create", "disable"} => c.operation.op = c.pc
    /\ c.pc = "insert" => c.operation.op = "create"
    /\ Administering(c) => sessions[c.session].role = "admin"

Orderly ==
    /\ \A i \in DOMAIN sessions : SessionOfUser(sessions[i])
    /\ \A b \in Browsers : InOrder(browsers[b])

\* Before root has rotated, nobody else is there and nobody administers.
SeededAlone ==
    users[Root] = NoUser \/ users[Root].must_change_password =>
        /\ \A n \in Names \ {Root} : users[n] = NoUser
        /\ \A b \in Browsers : ~Administering(browsers[b].call)

\* Another session of the same user is about to revoke this one.
Condemned(i) ==
    \E b \in Browsers :
        LET own == browsers[b].call.session IN
            At(b, "revoke") /\ own # i /\ sessions[own].name = sessions[i].name

\* OldPasswordsAreOut, saying which session is the one that changed the
\* password: two changes of one password under way condemn each other.
OldSessionsEnd ==
    \A i \in DOMAIN sessions :
        LET s == sessions[i] IN
        s.revoked \/ s.late \/ s.password = users[s.name].password \/ Condemned(i)

AccountsInv == AccountsTypes /\ Orderly /\ SeededAlone /\ OldSessionsEnd

-----------------------------------------------------------------------------
\* What a row, a session and a call consist of.
LEMMA SessionsTyped ==
    ASSUME AccountsTypes, NEW i \in DOMAIN sessions
    PROVE  /\ sessions[i] \in Session /\ i \in Nat \ {0}
           /\ sessions = [j \in DOMAIN sessions |-> sessions[j]]
<1>1. PICK n \in Nat : sessions \in [1..n -> Session]
  BY DEF AccountsTypes
<1> QED
  BY <1>1

LEMMA UsersTyped ==
    ASSUME AccountsTypes, NEW n \in Names, users[n] # NoUser
    PROVE  users[n] \in User
BY DEF AccountsTypes

LEMMA CallsTyped ==
    ASSUME AccountsTypes, NEW b \in Browsers
    PROVE  LET c == browsers[b].call IN
           /\ browsers[b] \in Browser /\ c \in Call
           /\ c.pc = "login" => c.name \in Names /\ c.user \in User
           /\ c.pc = "session" => c.session \in Nat /\ c.operation \in Operation
           /\ c.pc \in {"change", "create", "insert", "disable", "me", "mcp"} =>
                 /\ c.operation \in Operation /\ c.hash \in Password /\ c.session \in Nat
                 /\ c \in [pc : {"change", "create", "insert", "disable", "me", "mcp"},
                           session : Nat, operation : Operation, hash : Password]
<1>1. browsers[b] \in Browser
  BY DEF AccountsTypes
<1>2. browsers[b].call \in Call
  BY <1>1 DEF Browser
<1> QED
  BY <1>1, <1>2 DEF Call

LEMMA OperationsTyped ==
    ASSUME NEW o \in Operation
    PROVE  /\ o.op \in {"change", "create", "disable", "me", "mcp"}
           /\ o.op = "change" => o.new \in Passwords
           /\ o.op = "create" => o.name \in Names /\ o.password \in Password /\ o.role \in Roles
           /\ o.op = "disable" => o.name \in Names
BY DEF Operation, Password

\* What every step does to the two tables.
Grows ==
    /\ users' \in [Names -> User \cup {NoUser}]
    /\ \E n \in Nat : sessions' \in [1..n -> Session]
    /\ \A n \in Names : users[n] # NoUser =>
          users'[n] # NoUser /\ users'[n].role = users[n].role
    /\ \A i \in DOMAIN sessions :
          /\ i \in DOMAIN sessions'
          /\ sessions'[i].name = sessions[i].name /\ sessions'[i].role = sessions[i].role
    /\ \A i \in DOMAIN sessions' \ DOMAIN sessions : SessionOfUser(sessions[i])'

LEMMA SameTablesGrow ==
    ASSUME AccountsTypes, UNCHANGED <<users, sessions>>
    PROVE  Grows
BY DEF AccountsTypes, Grows

LEMMA GrowsOrderly ==
    ASSUME AccountsTypes, Orderly, Grows
    PROVE  /\ \A i \in DOMAIN sessions' : SessionOfUser(sessions[i])'
           /\ \A b \in Browsers : browsers'[b] = browsers[b] => InOrder(browsers[b])'
<1>1. ASSUME NEW i \in DOMAIN sessions' PROVE SessionOfUser(sessions[i])'
  <2>1. CASE i \notin DOMAIN sessions
    BY <2>1 DEF Grows
  <2>2. CASE i \in DOMAIN sessions
    <3>1. sessions[i].name \in Names /\ SessionOfUser(sessions[i])
      BY <2>2, SessionsTyped DEF Orderly, Session
    <3> QED
      BY <2>2, <3>1 DEF Grows, SessionOfUser
  <2> QED
    BY <2>1, <2>2
<1>2. ASSUME NEW b \in Browsers, browsers'[b] = browsers[b] PROVE InOrder(browsers[b])'
  <2>1. InOrder(browsers[b])
    BY DEF Orderly
  <2>2. browsers[b].call.pc = "login" => browsers[b].call.name \in Names
    BY CallsTyped
  <2>3. browsers[b].call.pc \in {"idle", "login", "session", "change", "create", "insert",
                                 "disable", "me", "mcp", "revoke"}
    BY CallsTyped DEF Call
  <2> QED
    BY <1>2, <2>1, <2>2, <2>3 DEF InOrder, Grows, Administering
<1> QED
  BY <1>1, <1>2

\* A step of one browser that leaves the others waiting as they are.
LEMMA OneMoves ==
    ASSUME AccountsTypes, Orderly, Grows, hours' \in Nat,
           NEW b \in Browsers, NEW new \in Browser, browsers' = [browsers EXCEPT ![b] = new],
           InOrder(new)'
    PROVE  AccountsTypes' /\ Orderly'
<1>1. browsers' \in [Browsers -> Browser]
  BY DEF AccountsTypes
<1>2. AccountsTypes'
  BY <1>1 DEF AccountsTypes, Grows
<1>3. ASSUME NEW d \in Browsers PROVE InOrder(browsers[d])'
  <2>1. CASE d = b
    BY <2>1 DEF AccountsTypes, InOrder, Administering
  <2>2. CASE d # b
    BY <2>2, GrowsOrderly DEF AccountsTypes
  <2> QED
    BY <2>1, <2>2
<1> QED
  BY <1>2, <1>3, GrowsOrderly DEF Orderly

\* A step of one browser that changes no table.
LEMMA QuietKeeps ==
    ASSUME AccountsInv, UNCHANGED <<users, sessions, hours>>,
           NEW b \in Browsers, ~At(b, "revoke"),
           NEW new \in Browser, browsers' = [browsers EXCEPT ![b] = new], InOrder(new),
           Administering(new.call) =>
              \/ Administering(browsers[b].call)
              \/ users[Root] # NoUser /\ ~users[Root].must_change_password
    PROVE  AccountsInv'
<1>1. Grows /\ hours' \in Nat
  BY SameTablesGrow DEF AccountsInv, AccountsTypes
<1>2. InOrder(new)'
  BY DEF InOrder, Administering
<1>3. AccountsTypes' /\ Orderly'
  BY <1>1, <1>2, OneMoves DEF AccountsInv
<1>4. SeededAlone'
  BY DEF AccountsInv, AccountsTypes, SeededAlone, Administering
<1>5. ASSUME NEW i, Condemned(i) PROVE Condemned(i)'
  BY <1>5 DEF Condemned, At, AccountsInv, AccountsTypes
<1>6. OldSessionsEnd'
  BY <1>5 DEF OldSessionsEnd, AccountsInv
<1> QED
  BY <1>3, <1>4, <1>6 DEF AccountsInv

LEMMA AnswerKeeps ==
    ASSUME AccountsInv, UNCHANGED <<users, sessions, hours>>,
           NEW b \in Browsers, ~At(b, "revoke"), Answer(b)
    PROVE  AccountsInv'
<1>1. PICK new : new = [cookie |-> browsers[b].cookie, call |-> [pc |-> "idle"]]
  OBVIOUS
<1>2. browsers[b] \in Browser /\ InOrder(browsers[b])
  BY CallsTyped DEF AccountsInv, Orderly
<1>3. [pc |-> "idle"] \in Call
  BY DEF Call
<1>4. new \in Browser
  BY <1>1, <1>2, <1>3 DEF Browser
<1>5. InOrder(new) /\ ~Administering(new.call)
  BY <1>1, <1>2 DEF InOrder, Administering
<1>6. browsers' = [browsers EXCEPT ![b] = new]
  BY <1>1 DEF Answer, Reply
<1> QED
  BY <1>4, <1>5, <1>6, QuietKeeps

LEMMA GotoKeeps ==
    ASSUME AccountsInv, UNCHANGED <<users, sessions, hours>>,
           NEW b \in Browsers, ~At(b, "revoke"), NEW call \in Call, Goto(b, call),
           InOrder([cookie |-> browsers[b].cookie, call |-> call]),
           Administering(call) =>
              \/ Administering(browsers[b].call)
              \/ users[Root] # NoUser /\ ~users[Root].must_change_password
    PROVE  AccountsInv'
<1>1. PICK new : new = [cookie |-> browsers[b].cookie, call |-> call]
  OBVIOUS
<1>2. browsers[b] \in Browser
  BY CallsTyped DEF AccountsInv
<1>3. new \in Browser /\ [browsers[b] EXCEPT !.call = call] = new
  BY <1>1, <1>2 DEF Browser
<1>4. browsers' = [browsers EXCEPT ![b] = new]
  BY <1>3 DEF Goto, AccountsInv, AccountsTypes
<1> QED
  BY <1>1, <1>3, <1>4, QuietKeeps

LEMMA AuthenticateKeeps ==
    ASSUME AccountsInv, NEW b \in Browsers, NEW name \in Names, NEW password,
           Authenticate(b, name, password)
    PROVE  AccountsInv'
<1>1. /\ At(b, "idle") /\ users[name] # NoUser
      /\ UNCHANGED <<users, sessions, hours>>
  BY DEF Authenticate, Active
<1>2. PICK call : call = [pc |-> "login", name |-> name, user |-> users[name]]
  OBVIOUS
<1>3. Goto(b, call)
  BY <1>2 DEF Authenticate
<1>4. users[name] \in User /\ browsers[b] \in Browser /\ InOrder(browsers[b])
  BY <1>1, UsersTyped, CallsTyped DEF AccountsInv, Orderly
<1>5. call \in Call
  BY <1>2, <1>4 DEF Call
<1>6. InOrder([cookie |-> browsers[b].cookie, call |-> call]) /\ ~Administering(call)
  BY <1>1, <1>2, <1>4 DEF InOrder, Administering
<1>7. ~At(b, "revoke")
  BY <1>1 DEF At
<1> QED
  BY <1>1, <1>3, <1>5, <1>6, <1>7, GotoKeeps

LEMMA BeginKeeps ==
    ASSUME AccountsInv, NEW b \in Browsers, NEW o \in Operations, Begin(b, o)
    PROVE  AccountsInv'
<1>1. /\ At(b, "idle") /\ browsers[b].cookie # NoCookie
      /\ UNCHANGED <<users, sessions, hours>>
  BY DEF Begin
<1>2. PICK call : call = [pc |-> "session", session |-> browsers[b].cookie, operation |-> o]
  OBVIOUS
<1>3. Goto(b, call)
  BY <1>2 DEF Begin
<1>4. browsers[b] \in Browser /\ InOrder(browsers[b]) /\ o \in Operation
  BY CallsTyped, AccountsAssumption DEF AccountsInv, Orderly
<1>5. call \in Call
  BY <1>1, <1>2, <1>4 DEF Call, Browser
<1>6. InOrder([cookie |-> browsers[b].cookie, call |-> call]) /\ ~Administering(call)
  BY <1>1, <1>2, <1>4 DEF InOrder, Administering
<1>7. ~At(b, "revoke")
  BY <1>1 DEF At
<1> QED
  BY <1>1, <1>3, <1>5, <1>6, <1>7, GotoKeeps

LEMMA AdmitKeeps ==
    ASSUME AccountsInv, NEW b \in Browsers, Admit(b)
    PROVE  AccountsInv'
<1> DEFINE c == browsers[b].call
           name == sessions[c.session].name
<1>1. c.pc = "session" /\ ~At(b, "revoke") /\ UNCHANGED <<users, sessions, hours>>
  BY DEF Admit, At
<1>2. CASE ResolveUser(c) /\ Rotated(c) /\ RequireAdmin(c)
  <2>1. PICK call : call = [pc |-> c.operation.op, session |-> c.session,
                            operation |-> c.operation, hash |-> users[name].password]
    OBVIOUS
  <2>2. Goto(b, call)
    BY <1>2, <2>1 DEF Admit
  <2>3. /\ browsers[b] \in Browser /\ InOrder(browsers[b])
        /\ c.session \in Nat /\ c.operation \in Operation
        /\ c.session \in DOMAIN sessions
    BY <1>1, CallsTyped DEF AccountsInv, Orderly, InOrder
  <2>4. /\ name \in Names /\ users[name] # NoUser
        /\ sessions[c.session].role = users[name].role
    BY <2>3, SessionsTyped DEF AccountsInv, Orderly, SessionOfUser, Session
  <2>5. users[name] \in User
    BY <2>4, UsersTyped DEF AccountsInv
  <2>6. c.operation.op \in {"change", "create", "disable", "me", "mcp"}
    BY <2>3, OperationsTyped
  <2>7. call \in Call
    BY <2>1, <2>3, <2>5, <2>6 DEF Call, User, Password
  <2>8. Administering(call) => sessions[c.session].role = "admin" /\ ~users[name].must_change_password
    BY <1>2, <2>1, <2>6 DEF Administering, RequireAdmin, Rotated
  <2>9. InOrder([cookie |-> browsers[b].cookie, call |-> call])
    BY <2>1, <2>3, <2>6, <2>8 DEF InOrder, Administering
  <2>10. Administering(call) => users[Root] # NoUser /\ ~users[Root].must_change_password
    BY <2>4, <2>8 DEF AccountsInv, SeededAlone
  <2> QED
    BY <1>1, <2>2, <2>7, <2>9, <2>10, GotoKeeps
<1>3. CASE ~(ResolveUser(c) /\ Rotated(c) /\ RequireAdmin(c))
  BY <1>1, <1>3, AnswerKeeps DEF Admit
<1> QED
  BY <1>2, <1>3

LEMMA ReadKeeps ==
    ASSUME AccountsInv, NEW b \in Browsers, Read(b)
    PROVE  AccountsInv'
<1>1. ~At(b, "revoke")
  BY DEF Read, At
<1> QED
  BY <1>1, AnswerKeeps DEF Read

LEMMA LookUpNameKeeps ==
    ASSUME AccountsInv, NEW b \in Browsers, LookUpName(b)
    PROVE  AccountsInv'
<1> DEFINE c == browsers[b].call
<1>1. c.pc = "create" /\ ~At(b, "revoke") /\ UNCHANGED <<users, sessions, hours>>
  BY DEF LookUpName, At
<1>2. CASE users[c.operation.name] = NoUser
  <2>1. PICK call : call = [c EXCEPT !.pc = "insert"]
    OBVIOUS
  <2>2. Goto(b, call)
    BY <1>2, <2>1 DEF LookUpName
  <2>3. /\ browsers[b] \in Browser /\ InOrder(browsers[b])
        /\ c \in [pc : {"change", "create", "insert", "disable", "me", "mcp"},
                  session : Nat, operation : Operation, hash : Password]
    BY <1>1, CallsTyped DEF AccountsInv, Orderly
  <2>4. /\ call.pc = "insert" /\ call.session = c.session /\ call.operation = c.operation
        /\ call \in [pc : {"change", "create", "insert", "disable", "me", "mcp"},
                     session : Nat, operation : Operation, hash : Password]
    BY <2>1, <2>3
  <2>5. call \in Call
    BY <2>4 DEF Call
  <2>6. InOrder([cookie |-> browsers[b].cookie, call |-> call]) /\ Administering(c)
    BY <1>1, <2>3, <2>4 DEF InOrder, Administering
  <2> QED
    BY <1>1, <2>2, <2>5, <2>6, GotoKeeps
<1>3. CASE users[c.operation.name] # NoUser
  BY <1>1, <1>3, AnswerKeeps DEF LookUpName
<1> QED
  BY <1>2, <1>3

\* The row that a name has, once its session is known.
LEMMA OwnRow ==
    ASSUME AccountsInv, NEW b \in Browsers, browsers[b].call.pc \notin {"idle", "login"}
    PROVE  LET id == browsers[b].call.session IN
           /\ id \in DOMAIN sessions /\ sessions[id] \in Session
           /\ sessions[id].name \in Names /\ users[sessions[id].name] \in User
           /\ sessions[id].role = users[sessions[id].name].role
           /\ users[sessions[id].name] # NoUser /\ users[Root] # NoUser
<1> DEFINE id == browsers[b].call.session
<1>1. id \in DOMAIN sessions
  BY DEF AccountsInv, Orderly, InOrder
<1>2. sessions[id] \in Session /\ SessionOfUser(sessions[id])
  BY <1>1, SessionsTyped DEF AccountsInv, Orderly
<1>3. sessions[id].name \in Names /\ users[sessions[id].name] # NoUser
  BY <1>2 DEF Session, SessionOfUser
<1>4. users[Root] # NoUser
  BY <1>3 DEF AccountsInv, SeededAlone
<1> QED
  BY <1>1, <1>2, <1>3, <1>4, UsersTyped DEF SessionOfUser, AccountsInv

\* The browser that answers waits no more.
LEMMA AnswerOrderly ==
    ASSUME AccountsTypes, Orderly, Grows, hours' \in Nat, NEW b \in Browsers, Answer(b)
    PROVE  AccountsTypes' /\ Orderly'
<1>1. PICK new : new = [cookie |-> browsers[b].cookie, call |-> [pc |-> "idle"]]
  OBVIOUS
<1>2. browsers[b] \in Browser /\ InOrder(browsers[b])
  BY CallsTyped DEF Orderly
<1>3. [pc |-> "idle"] \in Call
  BY DEF Call
<1>4. new \in Browser
  BY <1>1, <1>2, <1>3 DEF Browser
<1>5. InOrder(new)'
  BY <1>1, <1>2 DEF InOrder, Administering, Grows
<1>6. browsers' = [browsers EXCEPT ![b] = new]
  BY <1>1 DEF Answer, Reply
<1> QED
  BY <1>4, <1>5, <1>6, OneMoves

LEMMA CreateSessionKeeps ==
    ASSUME AccountsInv, NEW b \in Browsers, CreateSession(b)
    PROVE  AccountsInv'
<1> DEFINE c == browsers[b].call
<1>1. PICK n \in Nat : sessions \in [1..n -> Session]
  BY DEF AccountsInv, AccountsTypes
<1>2. PICK id : id = Cardinality(DOMAIN sessions) + 1 /\ id = n + 1
  <2>1. DOMAIN sessions = 1..n
    BY <1>1
  <2>2. Cardinality(1..n) = n
    <3>1. 1 \in Int /\ n \in Int
      OBVIOUS
    <3>2. Cardinality(1..n) = IF 1 > n THEN 0 ELSE n - 1 + 1
      BY <3>1, FS_Interval
    <3> QED
      BY <3>2
  <2> QED
    BY <2>1, <2>2
<1>3. PICK row : row = [name |-> c.name, role |-> c.user.role, expires |-> hours + Ttl,
                        revoked |-> FALSE, password |-> c.user.password,
                        late |-> c.user.password # users[c.name].password]
  OBVIOUS
<1>4. /\ c.pc = "login" /\ UNCHANGED <<users, hours>> /\ Reply(b, id)
      /\ sessions' = [i \in DOMAIN sessions \cup {id} |-> IF i = id THEN row ELSE sessions[i]]
  BY <1>2, <1>3 DEF CreateSession, At
<1>5. /\ browsers[b] \in Browser /\ InOrder(browsers[b])
      /\ c.name \in Names /\ c.user \in User
  BY <1>4, CallsTyped DEF AccountsInv, Orderly
<1>6. users[c.name] # NoUser /\ c.user.role = users[c.name].role
  BY <1>4, <1>5 DEF InOrder
<1>7. row \in Session
  BY <1>3, <1>5, AccountsAssumption DEF Session, User, AccountsInv, AccountsTypes, Password
<1>8. DOMAIN sessions \cup {id} = 1..(n + 1) /\ id \notin DOMAIN sessions
  BY <1>1, <1>2
<1>9. sessions' \in [1..(n + 1) -> Session]
  BY <1>1, <1>2, <1>4, <1>7, <1>8
<1>10. sessions'[id] = row /\ \A i \in DOMAIN sessions : sessions'[i] = sessions[i]
  BY <1>4, <1>8
<1>11. Grows
  <2>1. SessionOfUser(sessions[id])'
    BY <1>3, <1>4, <1>6, <1>10 DEF SessionOfUser
  <2>2. DOMAIN sessions' = DOMAIN sessions \cup {id}
    BY <1>4
  <2> QED
    BY <1>1, <1>4, <1>9, <1>10, <2>1, <2>2 DEF Grows, AccountsInv, AccountsTypes
<1>12. AccountsTypes' /\ Orderly'
  <2>1. PICK new : new = [cookie |-> id, call |-> [pc |-> "idle"]]
    OBVIOUS
  <2>2. [pc |-> "idle"] \in Call
    BY DEF Call
  <2>3. new \in Browser
    BY <1>2, <2>1, <2>2 DEF Browser
  <2>4. InOrder(new)'
    BY <1>4, <2>1 DEF InOrder, Administering
  <2>5. browsers' = [browsers EXCEPT ![b] = new]
    BY <1>4, <2>1 DEF Reply
  <2> QED
    BY <1>4, <1>11, <2>3, <2>4, <2>5, OneMoves DEF AccountsInv, AccountsTypes
<1>13. SeededAlone'
  BY <1>4 DEF SeededAlone, AccountsInv, AccountsTypes, Reply, Administering
<1>14. OldSessionsEnd'
  <2>1. ASSUME NEW i \in DOMAIN sessions, Condemned(i) PROVE Condemned(i)'
    <3>1. PICK d \in Browsers : /\ At(d, "revoke") /\ browsers[d].call.session # i
                                /\ sessions[browsers[d].call.session].name = sessions[i].name
      BY <2>1 DEF Condemned
    <3>2. browsers'[d] = browsers[d]
      BY <1>4, <3>1 DEF Reply, At, AccountsInv, AccountsTypes
    <3>3. browsers[d].call.session \in DOMAIN sessions
      BY <3>1 DEF At, AccountsInv, Orderly, InOrder
    <3> QED
      BY <1>10, <2>1, <3>1, <3>2, <3>3 DEF Condemned, At
  <2>2. ASSUME NEW i \in DOMAIN sessions'
        PROVE  (LET s == sessions[i] IN
                s.revoked \/ s.late \/ s.password = users[s.name].password \/ Condemned(i))'
    <3>1. CASE i = id
      BY <1>3, <1>4, <1>10, <3>1
    <3>2. CASE i \in DOMAIN sessions
      BY <1>4, <1>10, <2>1, <3>2 DEF AccountsInv, OldSessionsEnd
    <3> QED
      BY <1>4, <3>1, <3>2
  <2> QED
    BY <2>2 DEF OldSessionsEnd
<1> QED
  BY <1>12, <1>13, <1>14 DEF AccountsInv

LEMMA LogoutKeeps ==
    ASSUME AccountsInv, NEW b \in Browsers, Logout(b)
    PROVE  AccountsInv'
<1> DEFINE id == browsers[b].cookie
<1>1. /\ At(b, "idle") /\ id # NoCookie /\ UNCHANGED <<users, hours>>
      /\ sessions' = [sessions EXCEPT ![id].revoked = TRUE]
      /\ Reply(b, NoCookie)
  BY DEF Logout
<1>2. id \in DOMAIN sessions
  BY <1>1 DEF AccountsInv, Orderly, InOrder
<1>3. PICK n \in Nat : sessions \in [1..n -> Session]
  BY DEF AccountsInv, AccountsTypes
<1>4. [sessions[id] EXCEPT !.revoked = TRUE] \in Session
  BY <1>2, <1>3 DEF Session
<1>5. sessions' \in [1..n -> Session] /\ DOMAIN sessions' = DOMAIN sessions
  BY <1>1, <1>3, <1>4
<1>6. /\ sessions'[id].revoked
      /\ \A i \in DOMAIN sessions :
            /\ sessions'[i].name = sessions[i].name /\ sessions'[i].role = sessions[i].role
            /\ i # id => sessions'[i] = sessions[i]
  BY <1>1, <1>2, <1>3 DEF Session
<1>7. Grows
  BY <1>1, <1>5, <1>6 DEF Grows, AccountsInv, AccountsTypes
<1>8. AccountsTypes' /\ Orderly'
  <2>1. PICK new : new = [cookie |-> NoCookie, call |-> [pc |-> "idle"]]
    OBVIOUS
  <2>2. [pc |-> "idle"] \in Call
    BY DEF Call
  <2>3. new \in Browser /\ InOrder(new)'
    BY <2>1, <2>2 DEF Browser, InOrder, Administering
  <2>4. browsers' = [browsers EXCEPT ![b] = new]
    BY <1>1, <2>1 DEF Reply
  <2> QED
    BY <1>1, <1>7, <2>3, <2>4, OneMoves DEF AccountsInv, AccountsTypes
<1>9. SeededAlone'
  BY <1>1 DEF SeededAlone, AccountsInv, AccountsTypes, Reply, Administering
<1>10. OldSessionsEnd'
  <2>1. ASSUME NEW i \in DOMAIN sessions, Condemned(i) PROVE Condemned(i)'
    <3>1. PICK d \in Browsers : /\ At(d, "revoke") /\ browsers[d].call.session # i
                                /\ sessions[browsers[d].call.session].name = sessions[i].name
      BY <2>1 DEF Condemned
    <3>2. browsers'[d] = browsers[d]
      BY <1>1, <3>1 DEF Reply, At, AccountsInv, AccountsTypes
    <3>3. browsers[d].call.session \in DOMAIN sessions
      BY <3>1 DEF At, AccountsInv, Orderly, InOrder
    <3> QED
      BY <1>6, <2>1, <3>1, <3>2, <3>3 DEF Condemned, At
  <2> QED
    BY <1>1, <1>5, <1>6, <2>1 DEF AccountsInv, OldSessionsEnd
<1> QED
  BY <1>8, <1>9, <1>10 DEF AccountsInv

\* A condemned session stays so while another browser moves.
LEMMA CondemnedStays ==
    ASSUME AccountsInv, Grows, NEW b \in Browsers, NEW i \in DOMAIN sessions,
           NEW d \in Browsers, d # b, At(d, "revoke"), browsers'[d] = browsers[d],
           browsers[d].call.session # i,
           sessions[browsers[d].call.session].name = sessions[i].name
    PROVE  Condemned(i)'
<1>1. browsers[d].call.session \in DOMAIN sessions
  BY DEF At, AccountsInv, Orderly, InOrder
<1> QED
  BY <1>1 DEF Condemned, At, Grows

LEMMA ChangePasswordKeeps ==
    ASSUME AccountsInv, NEW b \in Browsers, ChangePassword(b)
    PROVE  AccountsInv'
<1> DEFINE c == browsers[b].call
           id == c.session
           name == sessions[id].name
<1>1. c.pc = "change" /\ ~At(b, "revoke") /\ UNCHANGED hours
  BY DEF ChangePassword, At
<1>2. CASE c.operation.current # c.hash
  BY <1>1, <1>2, AnswerKeeps DEF ChangePassword
<1>3. CASE c.operation.current = c.hash
  <2>1. PICK new, stay : new = c.operation.new /\ stay = id
    OBVIOUS
  <2>2. /\ users' = [users EXCEPT ![name].password = new, ![name].must_change_password = FALSE]
        /\ sessions' = [sessions EXCEPT ![stay].password = new]
        /\ Goto(b, [pc |-> "revoke", session |-> stay])
    BY <1>3, <2>1 DEF ChangePassword
  <2>3. /\ stay \in DOMAIN sessions /\ sessions[stay] \in Session
        /\ name \in Names /\ users[name] \in User /\ users[name] # NoUser
        /\ name = sessions[stay].name /\ stay = id /\ users[Root] # NoUser
    BY <1>1, <2>1, OwnRow
  <2>4. new \in Passwords /\ new \in Password
    <3>1. c.operation \in Operation /\ c.operation.op = "change"
      BY <1>1, CallsTyped DEF AccountsInv, Orderly, InOrder
    <3> QED
      BY <2>1, <3>1, OperationsTyped DEF Password
  <2>5. PICK n \in Nat : sessions \in [1..n -> Session]
    BY DEF AccountsInv, AccountsTypes
  <2>6. [sessions[stay] EXCEPT !.password = new] \in Session
    BY <2>3, <2>4 DEF Session
  <2>7. /\ sessions' \in [1..n -> Session] /\ DOMAIN sessions' = DOMAIN sessions
        /\ sessions'[stay].password = new
        /\ \A i \in DOMAIN sessions :
              /\ sessions'[i].name = sessions[i].name /\ sessions'[i].role = sessions[i].role
              /\ i # stay => sessions'[i] = sessions[i]
    BY <2>2, <2>3, <2>5, <2>6 DEF Session
  <2>8. PICK who \in Names : who = name
    BY <2>3
  <2>9. PICK row : /\ row = [users[who] EXCEPT !.password = new, !.must_change_password = FALSE]
                   /\ row \in User /\ row.role = users[who].role /\ row.password = new
                   /\ ~row.must_change_password
    <3>1. ASSUME NEW old \in User
          PROVE  LET row == [old EXCEPT !.password = new, !.must_change_password = FALSE] IN
                 /\ row \in User /\ row.role = old.role /\ row.password = new
                 /\ ~row.must_change_password
      BY <2>4 DEF User, Password
    <3> QED
      BY <2>3, <2>8, <3>1
  <2>10. users' = [users EXCEPT ![who] = row]
    BY <2>2, <2>8, <2>9 DEF AccountsInv, AccountsTypes
  <2>11. users' \in [Names -> User \cup {NoUser}]
    BY <2>9, <2>10 DEF AccountsInv, AccountsTypes
  <2>12. Grows
    BY <2>7, <2>9, <2>10, <2>11, AccountsAssumption DEF Grows, AccountsInv, AccountsTypes
  <2>13. browsers[b] \in Browser /\ InOrder(browsers[b])
    BY CallsTyped DEF AccountsInv, Orderly
  <2>14. PICK next : next = [cookie |-> browsers[b].cookie,
                             call |-> [pc |-> "revoke", session |-> stay]]
    OBVIOUS
  <2>15. [pc |-> "revoke", session |-> stay] \in Call
    BY <2>3, <2>5 DEF Call
  <2>16. next \in Browser
    BY <2>13, <2>14, <2>15 DEF Browser
  <2>17. InOrder(next)'
    BY <2>3, <2>7, <2>13, <2>14 DEF InOrder, Administering
  <2>18. browsers' = [browsers EXCEPT ![b] = next]
    <3>1. [browsers[b] EXCEPT !.call = [pc |-> "revoke", session |-> stay]] = next
      BY <2>13, <2>14 DEF Browser
    <3> QED
      BY <2>2, <3>1 DEF Goto, AccountsInv, AccountsTypes
  <2>19. AccountsTypes' /\ Orderly'
    BY <1>1, <2>12, <2>16, <2>17, <2>18, OneMoves DEF AccountsInv, AccountsTypes
  <2>20. SeededAlone'
    <3>1. \A d \in Browsers : Administering(browsers[d].call)' => Administering(browsers[d].call)
      BY <2>14, <2>18 DEF Administering, AccountsInv, AccountsTypes
    <3>2. CASE who = Root
      BY <2>9, <2>10, <3>2, AccountsAssumption DEF SeededAlone, AccountsInv, AccountsTypes
    <3>3. CASE who # Root
      <4>1. users'[Root] = users[Root] /\ users[who] # NoUser
        BY <2>3, <2>8, <2>10, <3>3
      <4> QED
        BY <2>3, <3>3, <4>1 DEF SeededAlone, AccountsInv
    <3> QED
      BY <3>2, <3>3
  <2>21. At(b, "revoke")' /\ browsers'[b].call.session = stay
    BY <2>14, <2>18 DEF At, AccountsInv, AccountsTypes
  <2>22. ASSUME NEW i \in DOMAIN sessions, Condemned(i) PROVE Condemned(i)'
    <3>1. PICK d \in Browsers : /\ At(d, "revoke") /\ browsers[d].call.session # i
                                /\ sessions[browsers[d].call.session].name = sessions[i].name
      BY <2>22 DEF Condemned
    <3>2. d # b /\ browsers'[d] = browsers[d]
      BY <1>1, <2>18, <3>1 DEF AccountsInv, AccountsTypes
    <3> QED
      BY <2>12, <3>1, <3>2, CondemnedStays
  <2>23. ASSUME NEW i \in DOMAIN sessions
         PROVE  (LET s == sessions[i] IN
                 s.revoked \/ s.late \/ s.password = users[s.name].password \/ Condemned(i))'
    <3>1. CASE i = stay
      BY <2>3, <2>7, <2>8, <2>9, <2>10, <3>1 DEF AccountsInv, AccountsTypes
    <3>2. CASE i # stay /\ sessions[i].name = who
      <4>1. Condemned(i)'
        BY <2>3, <2>7, <2>8, <2>21, <3>2 DEF Condemned
      <4> QED
        BY <4>1
    <3>3. CASE i # stay /\ sessions[i].name # who
      <4>1. sessions'[i] = sessions[i] /\ users'[sessions[i].name] = users[sessions[i].name]
        BY <2>7, <2>10, <3>3, SessionsTyped DEF Session, AccountsInv, AccountsTypes
      <4> QED
        BY <2>22, <4>1 DEF AccountsInv, OldSessionsEnd
    <3> QED
      BY <3>1, <3>2, <3>3
  <2>24. OldSessionsEnd'
    BY <2>7, <2>23 DEF OldSessionsEnd
  <2> QED
    BY <2>19, <2>20, <2>24 DEF AccountsInv
<1> QED
  BY <1>2, <1>3

LEMMA RevokeOtherSessionsKeeps ==
    ASSUME AccountsInv, NEW b \in Browsers, RevokeOtherSessions(b)
    PROVE  AccountsInv'
<1>1. PICK id : id = browsers[b].call.session
  OBVIOUS
<1>2. /\ At(b, "revoke") /\ Answer(b) /\ UNCHANGED <<users, hours>>
      /\ sessions' = [i \in DOMAIN sessions |->
                        [sessions[i] EXCEPT !.revoked = @ \/ i \in Others(id)]]
  BY <1>1 DEF RevokeOtherSessions
<1>3. id \in DOMAIN sessions
  BY <1>1, <1>2, OwnRow DEF At
<1>4. PICK n \in Nat : sessions \in [1..n -> Session]
  BY DEF AccountsInv, AccountsTypes
<1>5. ASSUME NEW i \in DOMAIN sessions
      PROVE  /\ sessions'[i] \in Session
             /\ sessions'[i].name = sessions[i].name /\ sessions'[i].role = sessions[i].role
             /\ sessions'[i].password = sessions[i].password
             /\ sessions'[i].late = sessions[i].late
             /\ sessions[i].revoked \/ i \in Others(id) => sessions'[i].revoked
  <2>1. sessions[i] \in Session
    BY <1>4
  <2>2. PICK gone \in BOOLEAN : gone <=> (sessions[i].revoked \/ i \in Others(id))
    OBVIOUS
  <2>3. sessions'[i] = [sessions[i] EXCEPT !.revoked = gone]
    <3>1. sessions[i].revoked \in BOOLEAN
      BY <2>1 DEF Session
    <3>2. (sessions[i].revoked \/ i \in Others(id)) = gone
      BY <2>2, <3>1
    <3> QED
      BY <1>2, <3>2
  <2> QED
    BY <2>1, <2>2, <2>3 DEF Session
<1>6. DOMAIN sessions' = DOMAIN sessions /\ sessions' \in [1..n -> Session]
  BY <1>2, <1>4, <1>5
<1>7. Grows
  BY <1>2, <1>5, <1>6 DEF Grows, AccountsInv, AccountsTypes
<1>8. AccountsTypes' /\ Orderly'
  BY <1>2, <1>7, AnswerOrderly DEF AccountsInv, AccountsTypes
<1>9. SeededAlone'
  BY <1>2 DEF SeededAlone, AccountsInv, AccountsTypes, Answer, Reply, Administering
<1>10. ASSUME NEW i \in DOMAIN sessions
       PROVE  (LET s == sessions[i] IN
               s.revoked \/ s.late \/ s.password = users[s.name].password \/ Condemned(i))'
  <2>1. CASE i \in Others(id) \/ sessions[i].revoked
    BY <1>5, <2>1
  <2>2. CASE i \notin Others(id) /\ Condemned(i)
    <3>1. PICK d \in Browsers : /\ At(d, "revoke") /\ browsers[d].call.session # i
                                /\ sessions[browsers[d].call.session].name = sessions[i].name
      BY <2>2 DEF Condemned
    <3>2. d # b
      BY <1>1, <2>2, <3>1 DEF Others
    <3>3. browsers'[d] = browsers[d]
      BY <1>2, <3>2 DEF Answer, Reply, AccountsInv, AccountsTypes
    <3> QED
      BY <1>7, <3>1, <3>2, <3>3, CondemnedStays
  <2>3. CASE sessions[i].late \/ sessions[i].password = users[sessions[i].name].password
    BY <1>2, <1>5, <2>3
  <2> QED
    BY <2>1, <2>2, <2>3 DEF AccountsInv, OldSessionsEnd
<1>11. OldSessionsEnd'
  BY <1>6, <1>10 DEF OldSessionsEnd
<1> QED
  BY <1>8, <1>9, <1>11 DEF AccountsInv

\* An administrator's request that writes one user row and answers.
LEMMA RowKeeps ==
    ASSUME AccountsInv, NEW b \in Browsers, Administering(browsers[b].call), Answer(b),
           UNCHANGED <<sessions, hours>>,
           NEW who \in Names, NEW row \in User, users' = [users EXCEPT ![who] = row],
           who = Root => ~row.must_change_password,
           users[who] # NoUser => row.role = users[who].role /\ row.password = users[who].password
    PROVE  AccountsInv'
<1>1. ~At(b, "revoke") /\ users[Root] # NoUser /\ ~users[Root].must_change_password
  BY DEF Administering, At, AccountsInv, SeededAlone
<1>2. users' \in [Names -> User \cup {NoUser}]
  BY DEF AccountsInv, AccountsTypes
<1>3. Grows
  BY <1>2, AccountsAssumption DEF Grows, AccountsInv, AccountsTypes
<1>4. AccountsTypes' /\ Orderly'
  BY <1>3, AnswerOrderly DEF AccountsInv, AccountsTypes
<1>5. users'[Root] # NoUser /\ ~users'[Root].must_change_password
  BY <1>1, AccountsAssumption DEF AccountsInv, AccountsTypes
<1>6. SeededAlone'
  BY <1>5 DEF SeededAlone
<1>7. ASSUME NEW i \in DOMAIN sessions
      PROVE  (LET s == sessions[i] IN
              s.revoked \/ s.late \/ s.password = users[s.name].password \/ Condemned(i))'
  <2>1. sessions[i].name \in Names /\ SessionOfUser(sessions[i])
    BY SessionsTyped DEF AccountsInv, Orderly, Session
  <2>2. users'[sessions[i].name].password = users[sessions[i].name].password
    BY <2>1 DEF SessionOfUser, AccountsInv, AccountsTypes
  <2>3. Condemned(i) => Condemned(i)'
    <3>1. SUFFICES ASSUME Condemned(i) PROVE Condemned(i)'
      OBVIOUS
    <3>2. PICK d \in Browsers : /\ At(d, "revoke") /\ browsers[d].call.session # i
                                /\ sessions[browsers[d].call.session].name = sessions[i].name
      BY <3>1 DEF Condemned
    <3>3. d # b /\ browsers'[d] = browsers[d]
      BY <1>1, <3>2 DEF Answer, Reply, AccountsInv, AccountsTypes
    <3> QED
      BY <1>3, <3>2, <3>3, CondemnedStays
  <2> QED
    BY <2>2, <2>3 DEF AccountsInv, OldSessionsEnd
<1>8. OldSessionsEnd'
  BY <1>7 DEF OldSessionsEnd
<1> QED
  BY <1>4, <1>6, <1>8 DEF AccountsInv

LEMMA InsertUserKeeps ==
    ASSUME AccountsInv, NEW b \in Browsers, InsertUser(b)
    PROVE  AccountsInv'
<1> DEFINE c == browsers[b].call
           o == c.operation
<1>1. /\ c.pc = "insert" /\ ~At(b, "revoke") /\ Administering(c)
      /\ Answer(b) /\ UNCHANGED <<sessions, hours>>
  BY DEF InsertUser, At, Administering
<1>2. CASE users[o.name] = NoUser
  <2>1. o \in Operation /\ o.op = "create"
    BY <1>1, CallsTyped DEF AccountsInv, Orderly, InOrder
  <2>2. PICK who \in Names, temporary \in BOOLEAN :
          who = o.name /\ temporary = (o.password = Temporary)
    BY <2>1, OperationsTyped
  <2>3. PICK row : row = [password |-> o.password, role |-> o.role,
                          must_change_password |-> temporary, status |-> "active"]
    OBVIOUS
  <2>4. row \in User
    BY <2>1, <2>2, <2>3, OperationsTyped DEF User, Password
  <2>5. users' = [users EXCEPT ![who] = row]
    BY <1>2, <2>2, <2>3 DEF InsertUser
  <2>6. users[Root] # NoUser
    BY <1>1, OwnRow
  <2> QED
    BY <1>1, <1>2, <2>2, <2>4, <2>5, <2>6, RowKeeps
<1>3. CASE users[o.name] # NoUser
  BY <1>1, <1>3, AnswerKeeps DEF InsertUser
<1> QED
  BY <1>2, <1>3

LEMMA DisableUserKeeps ==
    ASSUME AccountsInv, NEW b \in Browsers, DisableUser(b)
    PROVE  AccountsInv'
<1> DEFINE c == browsers[b].call
           name == c.operation.name
<1>1. /\ c.pc = "disable" /\ ~At(b, "revoke") /\ Administering(c)
      /\ Answer(b) /\ UNCHANGED <<sessions, hours>>
  BY DEF DisableUser, At, Administering
<1>2. CASE MayDisable(b, name)
  <2>1. c.operation \in Operation /\ c.operation.op = "disable"
    BY <1>1, CallsTyped DEF AccountsInv, Orderly, InOrder
  <2>2. PICK who \in Names : who = name
    BY <2>1, OperationsTyped
  <2>3. users[who] # NoUser /\ users[who] \in User
    BY <1>2, <2>2, UsersTyped DEF MayDisable, Active, AccountsInv
  <2>4. PICK row : row = [users[who] EXCEPT !.status = "disabled"]
    OBVIOUS
  <2>5. /\ row \in User /\ row.role = users[who].role /\ row.password = users[who].password
        /\ row.must_change_password = users[who].must_change_password
    BY <2>3, <2>4 DEF User
  <2>6. users' = [users EXCEPT ![who] = row]
    BY <1>2, <2>2, <2>4 DEF DisableUser
  <2>7. ~users[Root].must_change_password
    BY <1>1 DEF AccountsInv, SeededAlone
  <2> QED
    BY <1>1, <2>5, <2>6, <2>7, RowKeeps
<1>3. CASE ~MayDisable(b, name)
  BY <1>1, <1>3, AnswerKeeps DEF DisableUser
<1> QED
  BY <1>2, <1>3

LEMMA EnsureDefaultAdminKeeps ==
    ASSUME AccountsInv, EnsureDefaultAdmin
    PROVE  AccountsInv'
<1>1. PICK row : row = [password |-> Temporary, role |-> "admin",
                        must_change_password |-> TRUE, status |-> "active"]
  OBVIOUS
<1>2. row \in User /\ row.must_change_password
  BY <1>1 DEF User, Roles
<1>3. /\ users' = [users EXCEPT ![Root] = row] /\ UNCHANGED <<sessions, browsers, hours>>
      /\ \A n \in Names : users[n] = NoUser
  BY <1>1 DEF EnsureDefaultAdmin
<1>4. DOMAIN sessions = {}
  <2>1. ASSUME NEW i \in DOMAIN sessions PROVE FALSE
    BY <1>3, SessionsTyped DEF AccountsInv, Orderly, SessionOfUser, Session
  <2> QED
    BY <2>1
<1>5. users' \in [Names -> User \cup {NoUser}]
  BY <1>2, <1>3 DEF AccountsInv, AccountsTypes
<1>6. Grows
  BY <1>3, <1>4, <1>5 DEF Grows, AccountsInv, AccountsTypes
<1>7. AccountsTypes'
  BY <1>3, <1>5 DEF AccountsInv, AccountsTypes
<1>8. Orderly'
  BY <1>3, <1>6, GrowsOrderly DEF Orderly, AccountsInv
<1>9. ASSUME NEW b \in Browsers PROVE ~Administering(browsers[b].call)
  BY <1>4 DEF Administering, AccountsInv, Orderly, InOrder
<1>10. SeededAlone'
  BY <1>3, <1>9 DEF SeededAlone, AccountsInv, AccountsTypes
<1>11. OldSessionsEnd'
  BY <1>3, <1>4 DEF OldSessionsEnd
<1> QED
  BY <1>7, <1>8, <1>10, <1>11 DEF AccountsInv

LEMMA IdleKeeps ==
    ASSUME AccountsInv, AccountsTick \/ UNCHANGED accountsVars
    PROVE  AccountsInv'
<1>1. UNCHANGED <<users, sessions, browsers>> /\ hours' \in Nat
  BY DEF AccountsTick, accountsVars, AccountsInv, AccountsTypes
<1>2. Grows
  BY <1>1, SameTablesGrow DEF AccountsInv
<1>3. AccountsTypes'
  BY <1>1 DEF AccountsInv, AccountsTypes
<1>4. Orderly'
  BY <1>1, <1>2, GrowsOrderly DEF Orderly, AccountsInv
<1>5. SeededAlone' /\ OldSessionsEnd'
  BY <1>1 DEF AccountsInv, SeededAlone, OldSessionsEnd, Condemned, At
<1> QED
  BY <1>3, <1>4, <1>5 DEF AccountsInv

LEMMA AccountsStep ==
    ASSUME AccountsInv, [AccountsNext]_accountsVars
    PROVE  AccountsInv'
<1>1. ASSUME NEW b \in Browsers, NEW n \in Names, NEW p, Authenticate(b, n, p)
      PROVE  AccountsInv'
  BY <1>1, AuthenticateKeeps
<1>2. ASSUME NEW b \in Browsers, NEW o \in Operations, Begin(b, o) PROVE AccountsInv'
  BY <1>2, BeginKeeps
<1>3. ASSUME NEW b \in Browsers,
             \/ CreateSession(b) \/ Logout(b) \/ Admit(b) \/ Read(b)
             \/ ChangePassword(b) \/ RevokeOtherSessions(b)
             \/ LookUpName(b) \/ InsertUser(b) \/ DisableUser(b)
      PROVE  AccountsInv'
  BY <1>3, CreateSessionKeeps, LogoutKeeps, AdmitKeeps, ReadKeeps, ChangePasswordKeeps,
     RevokeOtherSessionsKeeps, LookUpNameKeeps, InsertUserKeeps, DisableUserKeeps
<1> QED
  BY <1>1, <1>2, <1>3, EnsureDefaultAdminKeeps, IdleKeeps DEF AccountsNext

LEMMA AccountsStart == AccountsInit => AccountsInv
<1> SUFFICES ASSUME AccountsInit PROVE AccountsInv
  OBVIOUS
<1>1. sessions \in [1..0 -> Session] /\ DOMAIN sessions = {}
  BY DEF AccountsInit
<1>2. [pc |-> "idle"] \in Call
  BY DEF Call
<1>3. AccountsTypes
  BY <1>1, <1>2 DEF AccountsInit, AccountsTypes, Browser
<1>4. Orderly /\ SeededAlone /\ OldSessionsEnd
  BY <1>1, AccountsAssumption
     DEF AccountsInit, Orderly, InOrder, SeededAlone, OldSessionsEnd, Administering
<1> QED
  BY <1>3, <1>4 DEF AccountsInv

(* After a change of password every older session of the user is revoked,   *)
(* was opened by a login that overtook it, or has its revocation under way. *)
THEOREM PasswordsRotateOut == AccountsSpec => []OldPasswordsAreOut
<1>1. AccountsInv => OldPasswordsAreOut
  <2> SUFFICES ASSUME AccountsInv, NEW i \in DOMAIN sessions, Condemned(i)
               PROVE  Revoking(sessions[i].name)
    BY DEF AccountsInv, OldSessionsEnd, OldPasswordsAreOut
  <2> QED
    BY DEF Condemned, Revoking
<1> QED
  BY AccountsStart, AccountsStep, <1>1, PTL DEF AccountsSpec

(* While root has not rotated the seeded password nobody else exists.       *)
THEOREM RootRotatesFirst == AccountsSpec => []RotatedFirst
<1>1. AccountsInv => RotatedFirst
  BY DEF AccountsInv, SeededAlone, RotatedFirst
<1> QED
  BY AccountsStart, AccountsStep, <1>1, PTL DEF AccountsSpec

\* What a step can do to the users table.
LEMMA UsersChange ==
    ASSUME AccountsInv, AccountsNext, users' # users
    PROVE  \/ EnsureDefaultAdmin
           \/ \E b \in Browsers, who \in Names, row \in User :
                 /\ users' = [users EXCEPT ![who] = row]
                 /\ \/ /\ users[who] # NoUser /\ ~row.must_change_password
                       /\ row.status = users[who].status /\ row.role = users[who].role
                    \/ users[who] = NoUser
                    \/ /\ At(b, "disable") /\ who # sessions[browsers[b].call.session].name
                       /\ users[who] # NoUser /\ row.status = "disabled"
                       /\ row.must_change_password = users[who].must_change_password
<1>1. ASSUME NEW b \in Browsers, ChangePassword(b)
      PROVE  \E who \in Names, row \in User :
                /\ users' = [users EXCEPT ![who] = row]
                /\ users[who] # NoUser /\ ~row.must_change_password
                /\ row.status = users[who].status /\ row.role = users[who].role
  <2> DEFINE c == browsers[b].call
  <2>1. c.pc = "change" /\ c.operation.current = c.hash
    BY <1>1 DEF ChangePassword, At
  <2>2. PICK new : new = c.operation.new
    OBVIOUS
  <2>3. new \in Password
    <3>1. c.operation \in Operation /\ c.operation.op = "change"
      BY <2>1, CallsTyped DEF AccountsInv, Orderly, InOrder
    <3> QED
      BY <2>2, <3>1, OperationsTyped DEF Password
  <2>4. PICK who \in Names : /\ who = sessions[c.session].name
                             /\ users[who] # NoUser /\ users[who] \in User
    BY <2>1, OwnRow
  <2>5. users' = [users EXCEPT ![who].password = new, ![who].must_change_password = FALSE]
    BY <1>1, <2>1, <2>2, <2>4 DEF ChangePassword
  <2>6. PICK row : row = [users[who] EXCEPT !.password = new, !.must_change_password = FALSE]
    OBVIOUS
  <2>7. users' = [users EXCEPT ![who] = row]
    BY <2>4, <2>5, <2>6 DEF AccountsInv, AccountsTypes
  <2>8. /\ row \in User /\ ~row.must_change_password
        /\ row.status = users[who].status /\ row.role = users[who].role
    <3>1. ASSUME NEW old \in User
          PROVE  LET r == [old EXCEPT !.password = new, !.must_change_password = FALSE] IN
                 /\ r \in User /\ ~r.must_change_password
                 /\ r.status = old.status /\ r.role = old.role
      BY <2>3 DEF User, Password
    <3> QED
      BY <2>4, <2>6, <3>1
  <2> QED
    BY <2>4, <2>7, <2>8
<1>2. ASSUME NEW b \in Browsers, InsertUser(b)
      PROVE  \E who \in Names, row \in User :
                users' = [users EXCEPT ![who] = row] /\ users[who] = NoUser
  <2> DEFINE o == browsers[b].call.operation
  <2>1. browsers[b].call.pc = "insert" /\ users[o.name] = NoUser
    BY <1>2 DEF InsertUser, At
  <2>2. o \in Operation /\ o.op = "create"
    BY <2>1, CallsTyped DEF AccountsInv, Orderly, InOrder
  <2>3. PICK who \in Names, temporary \in BOOLEAN :
          who = o.name /\ temporary = (o.password = Temporary)
    BY <2>2, OperationsTyped
  <2>4. PICK row : row = [password |-> o.password, role |-> o.role,
                          must_change_password |-> temporary, status |-> "active"]
    OBVIOUS
  <2>5. row \in User
    BY <2>2, <2>3, <2>4, OperationsTyped DEF User, Password
  <2>6. users' = [users EXCEPT ![who] = row]
    BY <1>2, <2>1, <2>3, <2>4 DEF InsertUser
  <2> QED
    BY <2>1, <2>3, <2>5, <2>6
<1>3. ASSUME NEW b \in Browsers, DisableUser(b)
      PROVE  \E who \in Names, row \in User :
                /\ users' = [users EXCEPT ![who] = row]
                /\ At(b, "disable") /\ who # sessions[browsers[b].call.session].name
                /\ users[who] # NoUser /\ row.status = "disabled"
                /\ row.must_change_password = users[who].must_change_password
  <2> DEFINE c == browsers[b].call
  <2>1. c.pc = "disable" /\ MayDisable(b, c.operation.name)
    BY <1>3 DEF DisableUser, At
  <2>2. c.operation \in Operation /\ c.operation.op = "disable"
    BY <2>1, CallsTyped DEF AccountsInv, Orderly, InOrder
  <2>3. PICK who \in Names : who = c.operation.name
    BY <2>2, OperationsTyped
  <2>4. /\ users[who] # NoUser /\ users[who] \in User
        /\ who # sessions[c.session].name
    BY <2>1, <2>3, UsersTyped DEF MayDisable, Active, AccountsInv
  <2>5. PICK row : row = [users[who] EXCEPT !.status = "disabled"]
    OBVIOUS
  <2>6. /\ row \in User /\ row.status = "disabled"
        /\ row.must_change_password = users[who].must_change_password
    BY <2>4, <2>5 DEF User
  <2>7. users' = [users EXCEPT ![who] = row]
    BY <1>3, <2>1, <2>3, <2>5 DEF DisableUser
  <2> QED
    BY <2>1, <2>4, <2>6, <2>7 DEF At
<1> QED
  BY <1>1, <1>2, <1>3
     DEF AccountsNext, AccountsTick, Authenticate, Begin, CreateSession, Logout, Admit, Read,
         RevokeOtherSessions, LookUpName

(* No boot and no request gives a user who has rotated the seeded password  *)
(* a temporary one again, or lets a disabled user in.                       *)
THEOREM SeededOnce == AccountsSpec => NeverSeededAgain
<1>1. ASSUME AccountsInv, [AccountsNext]_accountsVars
      PROVE  [\A n \in Names :
                users[n] # NoUser =>
                   /\ users'[n].must_change_password => users[n].must_change_password
                   /\ Active(users'[n]) => Active(users[n])]_users
  <2> SUFFICES ASSUME users' # users, NEW n \in Names, users[n] # NoUser
               PROVE  /\ users'[n].must_change_password => users[n].must_change_password
                      /\ Active(users'[n]) => Active(users[n])
    BY Zenon
  <2>1. AccountsNext
    BY <1>1 DEF accountsVars
  <2>2. CASE EnsureDefaultAdmin
    BY <2>2 DEF EnsureDefaultAdmin
  <2>3. ASSUME NEW who \in Names, NEW row \in User, users' = [users EXCEPT ![who] = row]
        PROVE  users'[n] = IF n = who THEN row ELSE users[n]
    BY <1>1, <2>3 DEF AccountsInv, AccountsTypes
  <2> QED
    BY <1>1, <2>1, <2>2, <2>3, UsersChange DEF Active
<1> QED
  BY AccountsStart, AccountsStep, <1>1, PTL DEF AccountsSpec, NeverSeededAgain

(* The last active administrator is only disabled by a request whose own    *)
(* user was disabled while it was under way.                                *)
THEOREM NobodyLocksAllOut == AccountsSpec => LastAdministrator
<1>1. ASSUME AccountsInv, [AccountsNext]_accountsVars
      PROVE  [Administrators # {} /\ Administrators' = {} =>
                \E b \in Browsers :
                   /\ At(b, "disable")
                   /\ ~Active(users[sessions[browsers[b].call.session].name])]_users
  <2> SUFFICES ASSUME users' # users, Administrators # {}, Administrators' = {}
               PROVE  \E b \in Browsers :
                         /\ At(b, "disable")
                         /\ ~Active(users[sessions[browsers[b].call.session].name])
    BY Zenon
  <2>1. AccountsNext
    BY <1>1 DEF accountsVars
  <2>2. PICK n \in Names : Active(users[n]) /\ users[n].role = "admin"
    BY DEF Administrators
  <2>3. ~EnsureDefaultAdmin
    BY <2>2 DEF EnsureDefaultAdmin, Active
  <2>4. PICK b \in Browsers, who \in Names, row \in User :
           /\ users' = [users EXCEPT ![who] = row]
           /\ \/ /\ users[who] # NoUser /\ ~row.must_change_password
                 /\ row.status = users[who].status /\ row.role = users[who].role
              \/ users[who] = NoUser
              \/ /\ At(b, "disable") /\ who # sessions[browsers[b].call.session].name
                 /\ users[who] # NoUser /\ row.status = "disabled"
                 /\ row.must_change_password = users[who].must_change_password
    BY <1>1, <2>1, <2>3, UsersChange
  <2>5. ASSUME NEW m \in Names
        PROVE  ~(Active(users'[m]) /\ users'[m].role = "admin")
    BY DEF Administrators
  <2>6. row # NoUser
    BY AccountsAssumption
  <2>7. users'[n] = IF n = who THEN row ELSE users[n]
    BY <1>1, <2>4 DEF AccountsInv, AccountsTypes
  <2>8. At(b, "disable") /\ who # sessions[browsers[b].call.session].name
    BY <2>2, <2>4, <2>5, <2>6, <2>7 DEF Active
  <2>9. PICK own \in Names : /\ own = sessions[browsers[b].call.session].name
                             /\ users[own].role = "admin"
    <3>1. browsers[b].call.pc = "disable"
      BY <2>8 DEF At
    <3>2. sessions[browsers[b].call.session].role = "admin"
      BY <1>1, <3>1 DEF AccountsInv, Orderly, InOrder, Administering
    <3> QED
      BY <1>1, <3>1, <3>2, OwnRow
  <2>10. users'[own] = users[own]
    BY <1>1, <2>4, <2>8, <2>9 DEF AccountsInv, AccountsTypes
  <2> QED
    BY <2>5, <2>8, <2>9, <2>10
<1> QED
  BY AccountsStart, AccountsStep, <1>1, PTL DEF AccountsSpec, LastAdministrator
=============================================================================
