------------------------------- MODULE AtRest -------------------------------
(***************************************************************************)
(* The MCP handlers that change facts at rest: archive, forget, forget_all *)
(* and amend.  They are the same in both storage modes; SqlStore and       *)
(* MemoryStore add the tells, and what follows a commit ("reload").        *)
(*                                                                         *)
(* The server is one asyncio process: a handler runs without interruption  *)
(* between two awaits, and other handlers run while it waits for the       *)
(* database.  calls[c] is where the call of client c waits and the local   *)
(* variables it will use when it resumes.  One action is what happens      *)
(* between two awaits, its transaction included.                           *)
(***************************************************************************)
EXTENDS FactTables

CONSTANTS
    Clients,    \* concurrent callers, one call each at a time
    Handlers,   \* the handlers these clients use
    Facts,      \* the [content, fill] pairs they tell
    Amendments, \* the [text, facts] arguments they amend with
    LowerKey,   \* the lower-case spelling of a key
    Norm,       \* a content without its outer blanks, in lower case
    MaxFaults   \* bound: database errors that may happen

ASSUME CallAssumption ==
    /\ Facts \subseteq [content : Texts, fill : Fills]
    /\ Amendments \subseteq [text : Texts \cup {Keep}, facts : Fills \cup {Keep}]
    /\ LowerKey \in [Keys -> Keys]
    /\ Norm \in [Texts -> Texts]
    /\ MaxFaults \in Nat

VARIABLES
    calls,      \* the call each client is in
    faults      \* database errors so far

atRestVars == <<ada_thoughts, fact_slots, calls, faults>>

-----------------------------------------------------------------------------
Idle == [pc |-> "idle"]

MaintenanceCall ==
    [pc : {"archive", "forget"}, space : Spaces, ids : SUBSET ThoughtId]
      \cup [pc : {"amend"}, space : Spaces, id : ThoughtId, change : Amendments]
      \cup [pc : {"reload"}, space : Spaces]

Begin(c, call) == calls[c] = Idle /\ calls' = [calls EXCEPT ![c] = call]
Resume(c, call) == calls' = [calls EXCEPT ![c] = call]
Reload(sp) == [pc |-> "reload", space |-> sp]

SlotsOf(sp) == {s \in fact_slots : s.space_id = sp}
SlotIds(slots) == {s.thought_id : s \in slots}

-----------------------------------------------------------------------------
(* archive: the ids of the current facts about the matched entities, in one *)
(* transaction, and their retirement in another.  A condition selects       *)
(* entities by their slots; here it is "entity.name is e" for an e in names.*)
ArchiveSelect(c, sp, names) ==
    LET ids == SlotIds({s \in SlotsOf(sp) : s.is_current /\ s.entity \in names})
    IN  /\ "archive" \in Handlers /\ ids # {}
        /\ Begin(c, [pc |-> "archive", space |-> sp, ids |-> ids])
        /\ UNCHANGED <<tables, faults>>

ArchiveCommit(c) ==
    /\ calls[c].pc = "archive"
    /\ archive_rows(calls[c].ids)
    /\ Resume(c, Reload(calls[c].space))
    /\ UNCHANGED faults

\* forget takes exactly one of a key, a thought id and an entity.
ForgetSelect(c, sp, ids) ==
    /\ ids # {}
    /\ Begin(c, [pc |-> "forget", space |-> sp, ids |-> ids])
    /\ UNCHANGED <<tables, faults>>

\* The key of the request is lower-cased, the stored keys are not.
ForgetByKey(c, sp, k) ==
    /\ "forget_key" \in Handlers
    /\ ForgetSelect(c, sp, SlotIds({s \in SlotsOf(sp) : s.key = LowerKey[k]}))

ForgetById(c, sp, id) ==
    "forget_id" \in Handlers /\ ForgetSelect(c, sp, {id} \cap RowIds(sp))

ForgetByEntity(c, sp, e) ==
    /\ "forget_entity" \in Handlers
    /\ ForgetSelect(c, sp, SlotIds({s \in SlotsOf(sp) : s.entity = e}))

ForgetCommit(c) ==
    /\ calls[c].pc = "forget"
    /\ delete_rows(calls[c].ids)
    /\ Resume(c, Reload(calls[c].space))
    /\ UNCHANGED faults

\* The typed confirmation was given; the count read before has no effect.
ForgetAll(c, sp) ==
    /\ "forget_all" \in Handlers
    /\ Begin(c, Reload(sp))
    /\ delete_space(sp)
    /\ UNCHANGED faults

\* The thought is resolved (by id, or by key and version) before the edit.
AmendStart(c, sp, id, change) ==
    /\ "amend" \in Handlers
    /\ Begin(c, [pc |-> "amend", space |-> sp, id |-> id, change |-> change])
    /\ UNCHANGED <<tables, faults>>

AmendCommit(c) ==
    /\ calls[c].pc = "amend"
    /\ UNCHANGED faults
    /\ LET call == calls[c] IN
       \/ \E r \in ada_thoughts :
             /\ r.thought.thought_id = call.id
             /\ r.thought.space_id = call.space
             /\ amend_thought(r, call.change.text, call.change.facts)
             /\ Resume(c, Reload(call.space))
       \/ /\ call.id \notin RowIds(call.space)    \* "no such fact"
          /\ Resume(c, Idle)
          /\ UNCHANGED tables

\* A database error in any await of a call: it answers with the error.
Fault == faults < MaxFaults /\ faults' = faults + 1

MaintenanceFails(c) ==
    /\ calls[c].pc \in {"archive", "forget", "amend", "reload"}
    /\ Fault
    /\ Resume(c, Idle)
    /\ UNCHANGED tables

Maintain(c) ==
    \/ \E sp \in Spaces :
          \/ \E k \in Keys : ForgetByKey(c, sp, k)
          \/ \E id \in RowIds(sp) : ForgetById(c, sp, id)
          \/ \E e \in Entities : ForgetByEntity(c, sp, e)
          \/ ForgetAll(c, sp)
    \/ ArchiveCommit(c)
    \/ ForgetCommit(c)
    \/ AmendCommit(c)
=============================================================================
