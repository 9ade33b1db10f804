-------------------------------- MODULE Tokens --------------------------------
(***************************************************************************)
(* The API tokens of the MCP endpoint, with authentication required.  One  *)
(* AuthService serves every request.  A lookup that finds no database      *)
(* session in it opens one and leaves it there while it runs, so a request *)
(* that arrives meanwhile borrows it: two statements on one session is     *)
(* something SQLAlchemy may refuse, for either of them.                    *)
(*                                                                         *)
(* The field dead of a request, whether its token was unusable when the    *)
(* request came, is history: no action reads it.                           *)
(***************************************************************************)
EXTENDS Naturals, FiniteSets

CONSTANTS
    Callers,        \* the connections, each with one request at a time
    TokenIds,       \* bound: the tokens that are ever created
    FirstToken,     \* the administrator's token, made from the command line
    Prefix,         \* token_prefix: the first 12 characters of each token
    NoToken,        \* the row of a token that does not exist
    AllSpaces,      \* model_id of a token that is bound to no space
    TokenSpaces,    \* the spaces, "main" when a call names none
    Grants,         \* what tokens are created with
    MaxDays         \* bound: how far the clock goes

Permissions == {"read", "write", "admin"}
\* One tool of the read level, one of the write level, and those that write here.
Tools == {"recall", "tell", "create_token", "token_revoke", "token_delete"}

Never == MaxDays + 1    \* expires_at of a token that does not expire

ASSUME TokensAssumption ==
    /\ FirstToken \in TokenIds
    /\ MaxDays \in Nat
    /\ Grants \subseteq [permissions : SUBSET Permissions,
                         model_id : TokenSpaces \cup {AllSpaces},
                         expires_at : 0..Never]

VARIABLES
    tokens,     \* the tokens table: a row or NoToken, by token
    spent,      \* the tokens that have existed: an id is made once
    borrowing,  \* AuthService._session: the caller whose session it is, or NoCaller
    requests,   \* the request of each caller
    day         \* the clock that tokens expire by

tokensVars == <<tokens, spent, borrowing, requests, day>>

CONSTANT NoCaller   \* AuthService._session is None

\* A row of the tokens table.
Token == [permissions : SUBSET Permissions, model_id : TokenSpaces \cup {AllSpaces},
          expires_at : 0..Never, status : {"active", "revoked"}]

ASSUME NoRowAssumption == NoCaller \notin Callers /\ NoToken \notin Token

TokenRow(grant) ==
    [permissions |-> grant.permissions, model_id |-> grant.model_id,
     expires_at |-> grant.expires_at, status |-> "active"]

Done(c) == requests' = [requests EXCEPT ![c] = [pc |-> "idle"]]
Pc(c) == requests[c].pc

Usable(t) ==
    /\ tokens[t] # NoToken
    /\ tokens[t].status = "active"
    /\ ~(tokens[t].expires_at < day)

\* The lookup: an active row that has not expired.
\* Mutant of Good: the status is not part of the query.
GoodWhatever(t) ==
    /\ tokens[t] # NoToken
    /\ tokens[t].expires_at >= day
Good(t) ==
    /\ tokens[t] # NoToken
    /\ tokens[t].status = "active"
    /\ tokens[t].expires_at >= day

-----------------------------------------------------------------------------
\* validate_token, until its query is on its way.
Present(c, t) ==
    /\ Pc(c) = "idle"
    /\ t \in spent
    /\ requests' = [d \in Callers |->
         CASE d = c -> [pc |-> "lookup", token |-> t,
                        own |-> borrowing = NoCaller, shared |-> borrowing # NoCaller,
                        dead |-> ~Usable(t)]
           [] d = borrowing -> [requests[d] EXCEPT !.shared = TRUE]
           [] OTHER -> requests[d]]
    /\ borrowing' = IF borrowing = NoCaller THEN c ELSE borrowing
    /\ UNCHANGED <<tokens, spent, day>>

\* finally: the session is dropped however the lookup ends.
\* Mutant of Released: only when it succeeds.
ReleasedIfFound(c, found) == IF requests[c].own /\ found THEN NoCaller ELSE borrowing
Released(c, found) == IF requests[c].own THEN NoCaller ELSE borrowing

Found(c) ==
    LET r == requests[c] IN
    /\ Pc(c) = "lookup"
    /\ Good(r.token)
    /\ borrowing' = Released(c, TRUE)
    /\ requests' = [requests EXCEPT ![c] =
         [pc |-> "found", dead |-> r.dead,
          permissions |-> tokens[r.token].permissions,
          model_id |-> tokens[r.token].model_id]]
    /\ UNCHANGED <<tokens, spent, day>>

\* 401: no such row, or the session was shared and SQLAlchemy refused.
Refused(c) ==
    /\ Pc(c) = "lookup"
    /\ ~Good(requests[c].token) \/ requests[c].shared
    /\ borrowing' = Released(c, FALSE)
    /\ Done(c)
    /\ UNCHANGED <<tokens, spent, day>>

\* _authorize, once the body has told the tool and the space: the level of
\* the tool, then the space that the token is bound to.  The row is not read
\* again.
AdminTools == {"create_token", "token_revoke", "token_delete"}
WriteTools == {"tell"}

HasLevel(permissions, tool) ==
    IF tool \in AdminTools THEN "admin" \in permissions
    ELSE IF tool \in WriteTools THEN "write" \in permissions
    ELSE permissions \cap {"read", "write"} # {}

InBounds(model_id, space) == model_id = AllSpaces \/ space = model_id

Authorize(c, tool, space) ==
    LET r == requests[c] IN
    /\ Pc(c) = "found"
    /\ HasLevel(r.permissions, tool)
    /\ InBounds(r.model_id, space)
    /\ requests' = [requests EXCEPT ![c] = [pc |-> "run", tool |-> tool, dead |-> r.dead]]
    /\ UNCHANGED <<tokens, spent, borrowing, day>>

Forbid(c, tool, space) ==
    /\ Pc(c) = "found"
    /\ ~HasLevel(requests[c].permissions, tool) \/ ~InBounds(requests[c].model_id, space)
    /\ Done(c)
    /\ UNCHANGED <<tokens, spent, borrowing, day>>

-----------------------------------------------------------------------------
\* The handlers.  A needle is a token id or a prefix, which tokens may share.
Matching(needle) ==
    {t \in TokenIds : tokens[t] # NoToken /\ needle \in {t, Prefix[t]}}

Running(c, tool) == Pc(c) = "run" /\ requests[c].tool = tool

\* A fresh id: which one does not matter.
Insert(grant) ==
    LET t == CHOOSE x \in TokenIds \ spent : TRUE IN
        /\ TokenIds \ spent # {}
        /\ tokens' = [tokens EXCEPT ![t] = TokenRow(grant)]
        /\ spent' = spent \cup {t}

CreateToken(c, grant) ==
    /\ Running(c, "create_token")
    /\ Insert(grant)
    /\ Done(c)
    /\ UNCHANGED <<borrowing, day>>

\* Every row that matches, revoked already or not.
TokenRevoke(c, needle) ==
    /\ Running(c, "token_revoke")
    /\ tokens' = [t \in TokenIds |-> IF t \in Matching(needle)
                                     THEN [tokens[t] EXCEPT !.status = "revoked"]
                                     ELSE tokens[t]]
    /\ Done(c)
    /\ UNCHANGED <<spent, borrowing, day>>

\* Mutant of Deletable: refused only when all that match are active.
DeletableIfAny(needle) == \E t \in Matching(needle) : tokens[t].status # "active"
Deletable(needle) == \A t \in Matching(needle) : tokens[t].status # "active"

TokenDelete(c, needle) ==
    /\ Running(c, "token_delete")
    /\ IF Deletable(needle)
       THEN tokens' = [t \in TokenIds |-> IF t \in Matching(needle) THEN NoToken
                                          ELSE tokens[t]]
       ELSE UNCHANGED tokens
    /\ Done(c)
    /\ UNCHANGED <<spent, borrowing, day>>

\* The other tools do not touch the tables of this module.
OtherTool(c) ==
    /\ Pc(c) = "run"
    /\ requests[c].tool \notin AdminTools
    /\ Done(c)
    /\ UNCHANGED <<tokens, spent, borrowing, day>>

\* The REST routes of an organisation's own users (see PlatformTokens for
\* who they are).  Here a token is revoked by its id, if still active.
RouteCreate(grant) == Insert(grant) /\ UNCHANGED <<borrowing, requests, day>>

RouteRevoke(t) ==
    /\ tokens[t] # NoToken
    /\ tokens[t].status = "active"
    /\ tokens' = [tokens EXCEPT ![t].status = "revoked"]
    /\ UNCHANGED <<spent, borrowing, requests, day>>

TokensTick ==
    /\ day < MaxDays
    /\ day' = day + 1
    /\ UNCHANGED <<tokens, spent, borrowing, requests>>

-----------------------------------------------------------------------------
TokensInit ==
    /\ tokens = [t \in TokenIds |-> IF t = FirstToken
                   THEN TokenRow([permissions |-> Permissions, model_id |-> AllSpaces,
                                  expires_at |-> Never])
                   ELSE NoToken]
    /\ spent = {FirstToken}
    /\ borrowing = NoCaller
    /\ requests = [c \in Callers |-> [pc |-> "idle"]]
    /\ day = 0

TokensNext ==
    \/ TokensTick
    \/ \E g \in Grants : RouteCreate(g)
    \/ \E t \in TokenIds : RouteRevoke(t)
    \/ \E c \in Callers :
         \/ \E t \in TokenIds : Present(c, t)
         \/ Found(c) \/ Refused(c) \/ OtherTool(c)
         \/ \E tool \in Tools, space \in TokenSpaces :
              Authorize(c, tool, space) \/ Forbid(c, tool, space)
         \/ \E g \in Grants : CreateToken(c, g)
         \/ \E n \in TokenIds \cup {Prefix[t] : t \in TokenIds} :
              TokenRevoke(c, n) \/ TokenDelete(c, n)

TokensSpec == TokensInit /\ [][TokensNext]_tokensVars

-----------------------------------------------------------------------------
(* AuthService never keeps a session beyond the lookup that opened it,      *)
(* whoever borrowed it meanwhile and however that lookup ended: a closed    *)
(* session is never found there by a later request.                         *)
LookupReleased ==
    borrowing # NoCaller => Pc(borrowing) = "lookup" /\ requests[borrowing].own

(* A request that comes after its token was revoked, deleted or expired     *)
(* never runs a tool: borrowing another request's session does not let it   *)
(* see another request's row, or an older one.                              *)
DeadTokensStayOut == \A c \in Callers : Pc(c) = "run" => ~requests[c].dead

(* Deleting is bookkeeping, revoking is the security action: a row only     *)
(* leaves the table once it has been revoked, even when a prefix names      *)
(* several tokens at once.                                                  *)
RevokedBeforeDeleted ==
    [][\A t \in TokenIds :
         tokens[t] # NoToken /\ tokens'[t] = NoToken => tokens[t].status = "revoked"]_tokens
=============================================================================
