----------------------------- MODULE FactTables -----------------------------
(***************************************************************************)
(* The two tables of the fact store and the transactions that write them.  *)
(*                                                                         *)
(* Every record of ada_thoughts is one row.  fact_slots keeps ONE record   *)
(* for all the slot rows of a thought: every statement of the code that    *)
(* writes slot rows selects them by thought, by space, by key and version  *)
(* or by entity, on which the rows of one thought agree, so they are       *)
(* always inserted, updated and deleted together.                          *)
(*                                                                         *)
(* Each operator below that primes the tables is one committed database    *)
(* transaction; the handlers that issue them are in AtRest, SqlStore and   *)
(* MemoryStore.                                                            *)
(***************************************************************************)
EXTENDS Integers, FiniteSets

CONSTANTS
    Spaces,     \* isolated memories
    Main,       \* the space "main", which always exists
    Keys,       \* keys under which facts are versioned
    NoKey,      \* the key of an unkeyed fact
    Texts,      \* contents
    Entities,   \* entities facts are about
    NoEntity,   \* slots that name no entity
    NoFill,     \* a fact with no universal slots at all
    Keep        \* an argument of amend that was not given

ASSUME SpaceAssumption == Main \in Spaces
ASSUME KeyAssumption == NoKey \notin Keys
ASSUME FillAssumption ==
    NoEntity \notin Entities /\ NoFill \notin Entities /\ NoEntity # NoFill
ASSUME KeepAssumption == Keep \notin Texts \cup Entities \cup {NoEntity, NoFill}

VARIABLES
    ada_thoughts,   \* the rows of table ada_thoughts
    fact_slots      \* the slot rows, one record for the rows of a thought

tables == <<ada_thoughts, fact_slots>>

-----------------------------------------------------------------------------
MaybeKeys == Keys \cup {NoKey}

\* The universal slots of a fact, told apart by the entity they are about.
Fills == Entities \cup {NoEntity, NoFill}

\* "{key}@{second}#v{version}" of a keyed fact, a uuid (its number) of another.
ThoughtId == MaybeKeys \X Nat \X Nat

Thought == [thought_id : ThoughtId, space_id : Spaces, content : Texts,
            key : MaybeKeys, version : Nat \ {0}, fill : Fills]

Row == [thought : Thought, archived : BOOLEAN]

Slot == [thought_id : ThoughtId, space_id : Spaces,
         entity : Entities \cup {NoEntity},
         key : MaybeKeys, version : Nat \ {0}, is_current : BOOLEAN]

-----------------------------------------------------------------------------
(* The slot rows a thought decomposes into: none for an unkeyed thought     *)
(* without slots, one marker row for a keyed one.                           *)
slot_rows(t, current) ==
    IF t.fill = NoFill /\ t.key = NoKey THEN {}
    ELSE {[thought_id |-> t.thought_id, space_id |-> t.space_id,
           entity |-> IF t.fill \in Entities THEN t.fill ELSE NoEntity,
           key |-> t.key, version |-> t.version, is_current |-> current]}

RowsExcept(ids) == {r \in ada_thoughts : r.thought.thought_id \notin ids}
SlotsExcept(ids) == {s \in fact_slots : s.thought_id \notin ids}

Demote(s) == [s EXCEPT !.is_current = FALSE]

\* Mutant of Supersedes: a late save of an older version replaces the newer.
SupersedesOthers(t, s) ==
    t.key # NoKey /\ s.space_id = t.space_id /\ s.key = t.key

\* Slot row s belongs to a version of t's key that t replaces.
Supersedes(t, s) ==
    /\ t.key # NoKey
    /\ s.space_id = t.space_id
    /\ s.key = t.key
    /\ s.version < t.version

(* Upsert the thought, rewrite its slot rows, and demote the earlier        *)
(* versions of its key.                                                     *)
save_thought(t) ==
    /\ ada_thoughts' = RowsExcept({t.thought_id})
                         \cup {[thought |-> t, archived |-> FALSE]}
    /\ fact_slots' =
         LET kept == SlotsExcept({t.thought_id}) IN
         slot_rows(t, TRUE) \cup {s \in kept : ~Supersedes(t, s)}
           \cup {Demote(s) : s \in {x \in kept : Supersedes(t, x)}}

\* Mutants of PlaceInChain: an amended fact loses its place in the chain.
NeverInChain(id) == FALSE
AlwaysInChain(id) == TRUE

(* Whether the amended slot rows of a thought are current: as they were,    *)
(* and current when there were none.                                        *)
PlaceInChain(id) == \A s \in fact_slots : s.thought_id = id => s.is_current

Amended(t, text, facts) ==
    [t EXCEPT !.content = IF text = Keep THEN @ ELSE text,
              !.fill = IF facts = Keep THEN @ ELSE facts]

\* Correct a fact in place, whatever its archived flag.
amend_thought(r, text, facts) ==
    LET id == r.thought.thought_id
        t  == Amended(r.thought, text, facts)
    IN  /\ ada_thoughts' = RowsExcept({id}) \cup {[r EXCEPT !.thought = t]}
        /\ fact_slots' = SlotsExcept({id}) \cup slot_rows(t, PlaceInChain(id))

archive_rows(ids) ==
    /\ ada_thoughts' = RowsExcept(ids) \cup
         {[r EXCEPT !.archived = TRUE] :
             r \in {x \in ada_thoughts : x.thought.thought_id \in ids}}
    /\ fact_slots' = SlotsExcept(ids) \cup
         {Demote(s) : s \in {x \in fact_slots : x.thought_id \in ids}}

delete_rows(ids) ==
    /\ ada_thoughts' = RowsExcept(ids)
    /\ fact_slots' = SlotsExcept(ids)

\* Mutant of delete_space: the slot rows stay.
delete_space_thoughts(sp) ==
    /\ ada_thoughts' = {r \in ada_thoughts : r.thought.space_id # sp}
    /\ UNCHANGED fact_slots

delete_space(sp) ==
    /\ ada_thoughts' = {r \in ada_thoughts : r.thought.space_id # sp}
    /\ fact_slots' = {s \in fact_slots : s.space_id # sp}

-----------------------------------------------------------------------------
RowIds(sp) == {r.thought.thought_id :
                 r \in {x \in ada_thoughts : x.thought.space_id = sp}}

Live(sp) == {r \in ada_thoughts : r.thought.space_id = sp /\ ~r.archived}

Versions(sp, k) ==
    {r.thought.version : r \in {x \in ada_thoughts :
        x.thought.space_id = sp /\ x.thought.key = k}}

\* The thoughts of a space whose slot rows the closed operations read.
CurrentSlotIds(sp) ==
    {s.thought_id : s \in {x \in fact_slots : x.space_id = sp /\ x.is_current}}

-----------------------------------------------------------------------------
TablesTypeOK == ada_thoughts \subseteq Row /\ fact_slots \subseteq Slot

(* thought_id identifies a row, and the slot rows of a thought agree on     *)
(* whether it is current.                                                   *)
PrimaryKey ==
    /\ \A r, q \in ada_thoughts :
          r.thought.thought_id = q.thought.thought_id => r = q
    /\ \A s, q \in fact_slots : s.thought_id = q.thought_id => s = q

(* fact_slots is exactly what the thoughts decompose into: no slot row       *)
(* outlives its thought or disagrees with it on space, key, version or      *)
(* entity, and no thought with slots or a key is invisible to the closed    *)
(* operations, which answer from fact_slots and never read ada_thoughts.    *)
SlotsDecomposeThoughts ==
    /\ \A s \in fact_slots : \E r \in ada_thoughts :
          s \in slot_rows(r.thought, s.is_current)
    /\ \A r \in ada_thoughts : \E current \in BOOLEAN :
          slot_rows(r.thought, current) \subseteq fact_slots

(* The newest version of a key, unless archived, is current in fact_slots:  *)
(* no interleaving of writes leaves the key with an answer older than the   *)
(* last version written.                                                    *)
NewestIsCurrent ==
    \A r \in ada_thoughts, s \in fact_slots :
        /\ r.thought.thought_id = s.thought_id
        /\ r.thought.key # NoKey /\ ~r.archived
        /\ \A v \in Versions(r.thought.space_id, r.thought.key) :
              v <= r.thought.version
        => s.is_current

(* At most one version of a key is current in fact_slots.                   *)
OneCurrentVersion ==
    \A s, q \in fact_slots :
        /\ s.is_current /\ q.is_current
        /\ s.key = q.key /\ s.key # NoKey /\ s.space_id = q.space_id
        => s = q
=============================================================================
