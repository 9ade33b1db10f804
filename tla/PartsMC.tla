------------------------------- MODULE PartsMC -------------------------------
(***************************************************************************)
(* Values for the constants of the components that share no state with     *)
(* each other.  A behaviour picks one of them and runs it alone; the       *)
(* variables of the others stay in an initial state.  No fair action is    *)
(* enabled in the initial states, so the fairness of a component asks      *)
(* nothing of a behaviour of another one.                                  *)
(***************************************************************************)
EXTENDS Accounts, Tokens, PlatformTokens, Breaker, Vault, Enricher, Chat,
        Conversation, ReadsMC, TLC

CONSTANTS root, amy, k2, k3, px, py, s1, u1, q1, ada, Ada, bob, nz, i, blue, none, wed, t2

VARIABLE part   \* the component that runs

-----------------------------------------------------------------------------
MCOperations ==
    [op : {"change"}, current : Passwords \cup {Temporary}, new : Passwords]
      \cup [op : {"create"}, name : {amy}, password : Passwords \cup {Temporary},
            role : {"admin"}]
      \cup [op : {"disable"}, name : Names]
      \cup [op : {"mcp"}]

\* k2 and k3 show the same first characters.
MCPrefix == [t \in TokenIds |-> IF t = k1 THEN px ELSE py]
MCGrants ==
    {[permissions |-> {"read", "write"}, model_id |-> s1, expires_at |-> 0],
     [permissions |-> Permissions, model_id |-> AllSpaces, expires_at |-> Never]}

\* One names the subject twice, one is about the speaker, one fills a role with
\* "none", one has a layer that is a list, one has no role of the schema.
MCMappings ==
    {{Slot("entity", "name", Ada), Slot("relational", "subject", ada),
      Slot("perceptual", "color", blue)},
     {Slot("relational", "subject", i), Slot("relational", "predicate", wed),
      Slot("relational", "object", bob)},
     {Slot("relational", "possessor", Ada), Slot("temporal", "age", none),
      Slot("spatial", "location", blue)},
     {Slot("entity", "name", ada), Slot("perceptual", Nil, blue)},
     {Slot("spatial", "planet", blue)}}

MCLowerCase == Ada :> ada
MCWords == [x \in Subjects |-> IF x = nz THEN 2 ELSE 1]
MCFirstPerson == {t2} \cup {s \in Assertions : s.subject = i}

\* A sentence on its own, and one followed by a question.
MCInputs == {<<u1>>, <<u1, q1>>}

-----------------------------------------------------------------------------
access == <<accountsVars, tokensVars, platformVars>>
memory == <<chatVars, conversationVars, enricherVars, readsVars>>
partsVars == <<part, access, memory, breakerVars, vaultVars>>

PartsInit ==
    /\ part \in {"accounts", "tokens", "platform", "breaker", "vault", "enricher",
                 "chat", "conversation", "reads"}
    /\ AccountsInit /\ TokensInit /\ PlatformInit /\ BreakerInit /\ VaultInit
    /\ EnricherInit /\ ChatInit /\ ConversationInit /\ ReadsInit
    /\ part # "platform" => secret_known
    /\ part # "enricher" => online
    /\ part # "reads" => storage = "sql" /\ facts = {}

PartsNext ==
    /\ part' = part
    /\ \/ /\ part = "accounts" /\ AccountsNext
          /\ UNCHANGED <<tokensVars, platformVars, memory, breakerVars, vaultVars>>
       \/ /\ part = "tokens" /\ TokensNext
          /\ UNCHANGED <<accountsVars, platformVars, memory, breakerVars, vaultVars>>
       \/ /\ part = "platform" /\ PlatformNext
          /\ UNCHANGED <<accountsVars, tokensVars, memory, breakerVars, vaultVars>>
       \/ /\ part = "breaker" /\ BreakerNext
          /\ UNCHANGED <<access, memory, vaultVars>>
       \/ /\ part = "vault" /\ VaultNext
          /\ UNCHANGED <<access, memory, breakerVars>>
       \/ /\ part = "enricher" /\ EnricherNext
          /\ UNCHANGED <<access, chatVars, conversationVars, readsVars, breakerVars, vaultVars>>
       \/ /\ part = "chat" /\ ChatNext
          /\ UNCHANGED <<access, conversationVars, enricherVars, readsVars, breakerVars,
                         vaultVars>>
       \/ /\ part = "conversation" /\ ConversationNext
          /\ UNCHANGED <<access, chatVars, enricherVars, readsVars, breakerVars, vaultVars>>
       \/ /\ part = "reads" /\ ReadsNext
          /\ UNCHANGED <<access, chatVars, conversationVars, enricherVars, breakerVars,
                         vaultVars>>

PartsSpec == PartsInit /\ [][PartsNext]_partsVars /\ BreakerFairness /\ ChatFairness
=============================================================================
