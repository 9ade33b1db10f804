-------------------------------- MODULE Reads --------------------------------
(***************************************************************************)
(* The read surface: the closed operations, recall and the key and entity  *)
(* views, in both storage modes, over the facts that tells and changes at  *)
(* rest leave behind.  sql mode answers with fixed queries on the slot     *)
(* rows; memory mode answers from the thoughts in RAM, through a cache of  *)
(* entity profiles.                                                        *)
(*                                                                         *)
(* Calls run one at a time here (MemoryStore and SqlStore interleave       *)
(* them), so the thoughts in RAM are the live rows of the tables           *)
(* (MemoryStore!RamMirrorsDisk).  A fact is a text and the values of its   *)
(* slots as they were told.  The slot rows, the profiles and the arguments *)
(* of the reads have them stripped and in lower case.  The caps of the     *)
(* queries, the order of equal counts and the containment matches on       *)
(* predicates and unknown persons are left out.                            *)
(***************************************************************************)
EXTENDS Naturals, FiniteSets, FiniteSetsExt

CONSTANTS
    Modes,          \* "memory", "sql": the storage modes looked at
    FactsTold,      \* facts: [text, fill], fill from some 'layer.role' to values
    Norm,           \* each text and value stripped and in lower case
    SqlLower,       \* each text as lower() of the database gives it: not stripped
    NoName,         \* the entity of a fact that names none
    ChainKeys,      \* the keys of versioned facts
    Unkeyed,        \* the key of the others
    Unbuilt,        \* the profile cache after a write
    OldTables,      \* what a database from before fact_slots may hold
    MaxWrites       \* bound: the writes

ASSUME ReadsAssumption ==
    Modes \subseteq {"memory", "sql"} /\ Unkeyed \notin ChainKeys /\ MaxWrites \in Nat

FactRow == [id : Nat, text : {f.text : f \in FactsTold},
            fill : {f.fill : f \in FactsTold}, key : ChainKeys \cup {Unkeyed},
            version : Nat \ {0}, archived : BOOLEAN, slotted : BOOLEAN,
            is_current : BOOLEAN]

\* Tells numbered the old rows too, and none of them has slot rows.
ASSUME OldTablesAssumption ==
    \A old \in OldTables :
        /\ IsFiniteSet(old) /\ old \subseteq FactRow
        /\ \A f \in old : ~f.slotted /\ ~f.is_current
        /\ \A f, g \in {x \in old : ~x.archived} :
              f.key = g.key /\ f.key # Unkeyed /\ f.version = g.version => f = g

VARIABLES
    storage,    \* the storage mode of this server
    up,         \* whether the server has booted on these tables
    facts,      \* the rows of ada_thoughts, each with its slot rows if it has any
    profiles,   \* _profiles_cache of the store in RAM
    writes      \* writes so far; numbers the facts

readsVars == <<storage, up, facts, profiles, writes>>

-----------------------------------------------------------------------------
\* The slots of a fact as 'layer.role' and value.
Dims(f) == {<<s, Norm[f.fill[s]]>> : s \in DOMAIN f.fill}

\* The profiles group facts by entity.name; the slot rows take the subject of
\* the relation for the entity of a fact that has none.
Filling(f, slot) == IF slot \in DOMAIN f.fill THEN Norm[f.fill[slot]] ELSE NoName
NameOf(f) == Filling(f, "entity.name")
EntityOf(f) == IF NameOf(f) # NoName THEN NameOf(f) ELSE Filling(f, "relational.subject")

Slots == UNION {DOMAIN f.fill : f \in FactsTold}
Dimensions == UNION {Dims(f) : f \in FactsTold}
EntityNames == {EntityOf(f) : f \in FactsTold} \ {NoName}

InRam == {f \in facts : ~f.archived}
SlotRows == {f \in facts : f.slotted}
CurrentRows == {f \in SlotRows : f.is_current}

MaxVersion(S) == Max({f.version : f \in S} \cup {0})
Chain(S, k) == {f \in S : f.key = k}

-----------------------------------------------------------------------------
\* sql mode, on fact_slots.

\* _entities_for, _entities_with_slot
SqlEntities(rows) == {EntityOf(f) : f \in rows} \ {NoName}
RowsWith(d) == {f \in CurrentRows : d \in Dims(f)}
RowsFilling(s) == {f \in CurrentRows : s \in DOMAIN f.fill}

\* _entities_where: INTERSECT of one select per condition.
SqlWho(conditions) ==
    {e \in EntityNames : \A d \in conditions : e \in SqlEntities(RowsWith(d))}

\* _count_entities_where: INTERSECT drops what is double, a select does not.
SqlCount(conditions) ==
    IF Cardinality(conditions) = 1
    THEN Cardinality({f \in RowsWith(CHOOSE d \in conditions : TRUE) : EntityOf(f) # NoName})
    ELSE Cardinality(SqlWho(conditions))

SqlCountNot(d) ==
    Cardinality(SqlEntities(RowsFilling(d[1])) \ SqlEntities(RowsWith(d)))

\* count_where, and what distribution_filtered counts.
SqlCountWhere(d) == Cardinality(RowsWith(d))

SqlLookup(e, s) == {Norm[f.fill[s]] : f \in {x \in RowsFilling(s) : EntityOf(x) = e}}

\* previous_value: the version before the newest one that fills the slot.
SqlPrevious(k, s) ==
    LET filling == {f \in Chain(SlotRows, k) : s \in DOMAIN f.fill}
    IN  {Norm[f.fill[s]] : f \in {x \in filling : x.version + 1 = MaxVersion(filling)}}

SqlKeyed == {[key |-> f.key, id |-> f.id, version |-> f.version] :
                f \in {x \in CurrentRows : x.key # Unkeyed}}

SqlView == [e \in SqlEntities(CurrentRows) |->
               UNION {Dims(f) : f \in {x \in CurrentRows : EntityOf(x) = e}}]

\* recall, given the rows its lexical queries come up with: those that match
\* a current slot value and the live ones that contain a word.
CandidateRows == CurrentRows \cup InRam

\* Mutant of NewestVersion: the newest of the candidates.
NewestCandidate(k, candidates) == MaxVersion(Chain(candidates, k))
NewestVersion(k, candidates) ==
    Max({MaxVersion(Chain(candidates, k)), MaxVersion(Chain(SlotRows, k))})

SqlRecall(candidates) ==
    {f \in candidates :
        f.key # Unkeyed => f.version >= NewestVersion(f.key, candidates)}

-----------------------------------------------------------------------------
\* memory mode, on the thoughts in RAM.

\* The last of its chain, which is in the order of the versions.
InForce(f) == f.key = Unkeyed \/ f.version = MaxVersion(Chain(InRam, f.key))
CurrentThoughts == {f \in InRam : InForce(f)}

\* entity_profiles
BuiltProfiles ==
    [e \in {NameOf(f) : f \in CurrentThoughts} \ {NoName} |->
        UNION {Dims(f) : f \in {x \in CurrentThoughts : NameOf(x) = e}}]

Profiles == IF profiles = Unbuilt THEN BuiltProfiles ELSE profiles

\* entities_where
RamWho(conditions) ==
    LET known == Profiles IN {e \in DOMAIN known : conditions \subseteq known[e]}
RamCount(conditions) == Cardinality(RamWho(conditions))

FilledBy(e, s) == {d[2] : d \in {x \in Profiles[e] : x[1] = s}}

RamCountNot(d) ==
    Cardinality({e \in DOMAIN Profiles :
                    FilledBy(e, d[1]) # {} /\ d \notin Profiles[e]})

RamCountWhere(d) == Cardinality({f \in CurrentThoughts : d \in Dims(f)})

RamLookup(e, s) == IF e \in DOMAIN Profiles THEN FilledBy(e, s) ELSE {}

\* previous_value: chain[-2], the value as it was told.
RamPrevious(k, s) ==
    LET chain == Chain(InRam, k)
        before == {f \in chain : f.version < MaxVersion(chain)}
    IN  {f.fill[s] : f \in {x \in before : x.version = MaxVersion(before)
                                              /\ s \in DOMAIN x.fill}}

RamKeyed == {[key |-> f.key, id |-> f.id, version |-> f.version] :
                f \in {x \in CurrentThoughts : x.key # Unkeyed}}

RamRecall == CurrentThoughts

-----------------------------------------------------------------------------
\* tell_raw: a text already known is refused, and the next version of the
\* key demotes the earlier ones; version and dedup come from RAM in memory
\* mode, from the tables with their archived rows in sql mode.
KnownFacts == IF storage = "sql" THEN facts ELSE InRam

\* Memory mode strips the texts it keeps, the query of sql mode only the new one.
KnownText(text) ==
    IF storage = "sql" THEN \E x \in facts : SqlLower[x.text] = Norm[text]
    ELSE \E x \in InRam : Norm[x.text] = Norm[text]

\* Mutant of AfterTell: a tell leaves the profile cache as it is.
CacheKept == profiles
AfterTell == Unbuilt

TellFact(f, k) ==
    LET version == IF k = Unkeyed THEN 1 ELSE MaxVersion(Chain(KnownFacts, k)) + 1
        told == [id |-> writes, text |-> f.text, fill |-> f.fill, key |-> k,
                 version |-> version, archived |-> FALSE, slotted |-> TRUE,
                 is_current |-> TRUE]
        demoted(x) == k # Unkeyed /\ x.key = k /\ x.version < version
    IN  /\ up /\ writes < MaxWrites
        /\ ~KnownText(f.text)
        /\ facts' = {told} \cup {[x EXCEPT !.is_current = @ /\ ~demoted(x)] : x \in facts}
        /\ writes' = writes + 1
        /\ profiles' = AfterTell
        /\ UNCHANGED <<storage, up>>

\* A change at rest, after which the space is loaded again.
AtRestChange(after) ==
    /\ up /\ writes < MaxWrites
    /\ after # facts
    /\ facts' = after
    /\ writes' = writes + 1
    /\ profiles' = Unbuilt
    /\ UNCHANGED <<storage, up>>

\* archive: the current facts about the entities that match.
ArchiveWhere(d) ==
    LET names == IF storage = "sql" THEN SqlWho({d}) ELSE RamWho({d})
        ids == {f.id : f \in {x \in CurrentRows : EntityOf(x) \in names}}
    IN  AtRestChange({IF f.id \in ids THEN [f EXCEPT !.archived = TRUE, !.is_current = FALSE]
                      ELSE f : f \in facts})

ForgetFact(f) == AtRestChange(facts \ {f})
ForgetChain(k) == AtRestChange(facts \ Chain(SlotRows, k))
ForgetEntity(e) == AtRestChange(facts \ {f \in SlotRows : EntityOf(f) = e})

\* amend with facts: the slots are rewritten in place, the text stays; with
\* no slot rows to take it from, they are current.
AmendFact(f, new) ==
    AtRestChange({IF x = f THEN [x EXCEPT !.fill = new.fill, !.is_current = @ \/ ~x.slotted,
                                            !.slotted = TRUE]
                  ELSE x : x \in facts})

\* Any of the reads that go through the profiles.
ReadProfiles ==
    /\ up /\ storage = "memory" /\ profiles = Unbuilt
    /\ profiles' = BuiltProfiles
    /\ UNCHANGED <<storage, up, facts, writes>>

\* _sqlite_upgrade: a table of slots that is empty is filled from the live
\* thoughts, the newest version of each key current.
Backfilled ==
    IF SlotRows # {} THEN facts
    ELSE {IF f.archived THEN f
          ELSE [f EXCEPT !.slotted = TRUE, !.is_current = InForce(f)] : f \in facts}

\* init_db and the load, on the first boot and on later ones.
BootStore ==
    /\ up' = TRUE
    /\ facts' = Backfilled
    /\ profiles' = Unbuilt
    /\ UNCHANGED <<storage, writes>>

ReadsInit ==
    /\ storage \in Modes
    /\ up = FALSE
    /\ facts \in OldTables /\ writes = Cardinality(facts)
    /\ profiles = Unbuilt

ReadsNext ==
    \/ \E f \in FactsTold, k \in ChainKeys \cup {Unkeyed} : TellFact(f, k)
    \/ \E d \in Dimensions : ArchiveWhere(d)
    \/ \E f \in facts : ForgetFact(f) \/ \E new \in FactsTold : AmendFact(f, new)
    \/ \E k \in ChainKeys : ForgetChain(k)
    \/ \E e \in EntityNames : ForgetEntity(e)
    \/ ReadProfiles \/ BootStore

ReadsSpec == ReadsInit /\ [][ReadsNext]_readsVars

-----------------------------------------------------------------------------
(* The two modes read the same facts, but for two cases.  Forgetting the    *)
(* newest version of a key by its id, or archiving what is current, leaves  *)
(* older versions that only memory mode takes for current; and amending an  *)
(* archived fact that has no slot rows gives it current ones.               *)
Comparable ==
    /\ up
    /\ \A f \in InRam : f.key # Unkeyed => Chain(CurrentRows, f.key) \cap InRam # {}
    /\ CurrentRows \subseteq InRam

(* An archived fact that had no slot rows gets them by an amendment, and     *)
(* keeps them when it is archived again: recall then takes it for the newest *)
(* version and hides the one that is current.                                *)
NoneOutranked ==
    \A f \in CurrentRows, g \in SlotRows :
        f.key = g.key /\ f.key # Unkeyed => g.version <= f.version

Conditions == {{d, e} : d, e \in Dimensions}

\* Every version is there and fills the slot.
Complete(k, s) ==
    /\ {f.version : f \in Chain(facts, k)} = 1..MaxVersion(Chain(facts, k))
    /\ \A f \in Chain(facts, k) : f.slotted /\ ~f.archived /\ s \in DOMAIN f.fill

(* The current facts of the entity name it by entity.name.                  *)
Named(e) == \A f \in CurrentRows : EntityOf(f) = e => NameOf(f) = e
AllNamed == \A e \in EntityNames : Named(e)

(* "Memory and SQL give identical op answers": over the same tables, after  *)
(* any tells, amendments, archivals and deletions, each closed operation    *)
(* and view answers alike in both modes, also from a profile cache built    *)
(* before or from a database that the boot upgraded.  It is so for the      *)
(* entities that are named as such: of one that some fact has only for the  *)
(* subject of its relation, memory mode tells part of what sql mode tells,  *)
(* or nothing.  The previous value differs in its spelling, and count with  *)
(* one condition is an exception (CountParity).                             *)
ModesAgree ==
    Comparable =>
        /\ \A c \in Conditions :
              LET who == RamWho(c) IN
              /\ who \subseteq SqlWho(c)
              /\ \A e \in SqlWho(c) \ who : ~Named(e)
        /\ \A e \in EntityNames, s \in Slots :
              LET values == RamLookup(e, s) IN
              /\ values \subseteq SqlLookup(e, s)
              /\ Named(e) => values = SqlLookup(e, s)
        /\ AllNamed =>
              /\ \A c \in Conditions : Cardinality(c) > 1 => SqlCount(c) = RamCount(c)
              /\ \A d \in Dimensions : SqlCountNot(d) = RamCountNot(d)
              /\ SqlView = Profiles
        /\ DOMAIN Profiles \subseteq DOMAIN SqlView
        /\ \A e \in DOMAIN Profiles : Profiles[e] \subseteq SqlView[e]
        /\ \A d \in Dimensions : SqlCountWhere(d) = RamCountWhere(d)
        /\ \A k \in ChainKeys, s \in Slots :
              Complete(k, s) => SqlPrevious(k, s) = {Norm[v] : v \in RamPrevious(k, s)}
        /\ SqlKeyed = RamKeyed

(* "A newer version that shares no tokens with the query would otherwise    *)
(* let its superseded predecessor leak back in as the answer": whatever     *)
(* candidates the words of a query bring up, recall in sql mode returns only*)
(* facts that the closed operations count as current, and can return each   *)
(* of them that no slot rows of the archive outrank.                        *)
RecallIsCurrentBelief ==
    storage = "sql" /\ Comparable =>
        /\ \A candidates \in SUBSET CandidateRows : SqlRecall(candidates) \subseteq RamRecall
        /\ NoneOutranked => SqlRecall(CandidateRows) = RamRecall

(* "Parity: memory and SQL give identical op answers", for count with one   *)
(* condition over facts that name their entity.                             *)
CountParity == Comparable /\ AllNamed => \A d \in Dimensions : SqlCount({d}) = RamCount({d})
=============================================================================
