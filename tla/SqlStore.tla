------------------------------ MODULE SqlStore ------------------------------
(***************************************************************************)
(* The sql storage mode: SqlFactStore keeps nothing in process memory.  A  *)
(* tell looks for a duplicate, reads the last version of the key and saves *)
(* the thought in three transactions, between which other calls run.       *)
(***************************************************************************)
EXTENDS AtRest, FiniteSetsExt

CONSTANTS
    SqlLower,   \* lower() of the database: no blank goes, nor any but ASCII capitals
    MaxSecond,  \* bound: the seconds the clock may show
    MaxTells    \* bound: the thoughts the tells may build

ASSUME SqlAssumption ==
    SqlLower \in [Texts -> Texts] /\ MaxSecond \in Nat /\ MaxTells \in Nat

VARIABLES
    clock,      \* the wall clock, in seconds
    tells       \* thoughts built so far; numbers the uuids in that order

vars == <<ada_thoughts, fact_slots, calls, faults, clock, tells>>

-----------------------------------------------------------------------------
TellCall ==
    [pc : {"check", "version"}, space : Spaces, fact : Facts, key : MaybeKeys]
      \cup [pc : {"save"}, thought : Thought]

Call == {Idle} \cup MaintenanceCall \cup TellCall

\* A thought of a tell: its id is fresh or carries the second it is built in.
NewThought(call, version) ==
    [thought_id |-> IF call.key = NoKey THEN <<NoKey, tells, 1>>
                    ELSE <<call.key, clock, version>>,
     space_id |-> call.space, content |-> call.fact.content,
     key |-> call.key, version |-> version, fill |-> call.fact.fill]

Saving(thought) == [pc |-> "save", thought |-> thought]

\* The thought is built and waits for the transaction that saves it.
Build(c, version) ==
    /\ Resume(c, Saving(NewThought(calls[c], version)))
    /\ tells' = tells + 1

\* The tells that may still build a thought.
Undecided == {c \in Clients : calls[c].pc \in {"check", "version"}}

TellStart(c, sp, f, k) ==
    /\ tells + Cardinality(Undecided) < MaxTells
    /\ Begin(c, [pc |-> "check", space |-> sp, fact |-> f, key |-> k])
    /\ UNCHANGED <<tables, faults, clock, tells>>

\* What is stored, in the database's lower case, is what is told, trimmed and
\* in lower case.
RepeatedBy(text) == {x \in Texts : SqlLower[x] = Norm[text]}

\* Mutant of IsDuplicate: only live facts count.
IsLiveDuplicate(sp, text) == \E r \in Live(sp) : r.thought.content \in RepeatedBy(text)

\* Archived facts count as duplicates too.
IsDuplicate(sp, text) ==
    \E r \in ada_thoughts :
        r.thought.space_id = sp /\ r.thought.content \in RepeatedBy(text)

CheckDuplicate(c) ==
    LET call == calls[c] IN
    /\ call.pc = "check"
    /\ \/ /\ IsDuplicate(call.space, call.fact.content)
          /\ Resume(c, Idle)
          /\ UNCHANGED tells
       \/ /\ ~IsDuplicate(call.space, call.fact.content)
          /\ call.key = NoKey
          /\ Build(c, 1)
       \/ /\ ~IsDuplicate(call.space, call.fact.content)
          /\ call.key # NoKey
          /\ Resume(c, [call EXCEPT !.pc = "version"])
          /\ UNCHANGED tells
    /\ UNCHANGED <<tables, faults, clock>>

LastVersion(sp, k) == Max({0} \cup Versions(sp, k))

\* Mutant of ReadVersion: the version just read is used as it is.
ReadLastVersion(c) ==
    /\ calls[c].pc = "version"
    /\ Build(c, LastVersion(calls[c].space, calls[c].key))
    /\ UNCHANGED <<tables, faults, clock>>

ReadVersion(c) ==
    /\ calls[c].pc = "version"
    /\ Build(c, LastVersion(calls[c].space, calls[c].key) + 1)
    /\ UNCHANGED <<tables, faults, clock>>

Save(c) ==
    /\ calls[c].pc = "save"
    /\ save_thought(calls[c].thought)
    /\ Resume(c, Idle)
    /\ UNCHANGED <<faults, clock, tells>>

TellFails(c) ==
    /\ calls[c].pc \in {"check", "version", "save"}
    /\ Fault
    /\ Resume(c, Idle)
    /\ UNCHANGED <<tables, clock, tells>>

\* SQL reads go to the tables: only the cached surface is dropped.
Reloaded(c) ==
    /\ calls[c].pc = "reload"
    /\ Resume(c, Idle)
    /\ UNCHANGED <<tables, faults, clock, tells>>

\* The entities a condition can match: those of the current slot rows.
MatchedNames(sp, e) ==
    {e} \cap {s.entity : s \in {x \in fact_slots : x.space_id = sp /\ x.is_current}}

SqlMaintain(c) ==
    /\ \/ Maintain(c)
       \/ MaintenanceFails(c)
       \/ \E sp \in Spaces :
             \/ \E e \in Entities : ArchiveSelect(c, sp, MatchedNames(sp, e))
             \/ \E id \in RowIds(sp), change \in Amendments :
                   AmendStart(c, sp, id, change)
    /\ UNCHANGED <<clock, tells>>

Tell(c) ==
    \/ \E sp \in Spaces, f \in Facts, k \in MaybeKeys : TellStart(c, sp, f, k)
    \/ CheckDuplicate(c)
    \/ ReadVersion(c)
    \/ Save(c)
    \/ TellFails(c)

Tick ==
    /\ clock < MaxSecond
    /\ clock' = clock + 1
    /\ UNCHANGED <<tables, calls, faults, tells>>

\* The process stops and boots again: the calls are gone, the tables stay.
Restart ==
    /\ \E c \in Clients : calls[c] # Idle
    /\ calls' = [c \in Clients |-> Idle]
    /\ UNCHANGED <<tables, faults, clock, tells>>

Init ==
    /\ ada_thoughts = {}
    /\ fact_slots = {}
    /\ calls = [c \in Clients |-> Idle]
    /\ faults = 0
    /\ clock = 0
    /\ tells = 0

Next ==
    \/ \E c \in Clients : Tell(c) \/ SqlMaintain(c) \/ Reloaded(c)
    \/ Tick
    \/ Restart

Spec == Init /\ [][Next]_vars

-----------------------------------------------------------------------------
TypeOK ==
    /\ TablesTypeOK
    /\ calls \in [Clients -> Call]
    /\ faults \in Nat /\ clock \in Nat /\ tells \in Nat

(* Saving, amending or archiving a fact never moves the belief about a key  *)
(* back to an earlier version: whatever the calls interleave, the newest    *)
(* current version only grows until a forget or an archive takes it away.   *)
CurrentVersions(sp, k) ==
    {s.version : s \in {x \in fact_slots :
        x.space_id = sp /\ x.key = k /\ x.is_current}}

BeliefMovesForward ==
    [][(\E c \in Clients : calls[c].pc \in {"save", "amend"} /\ calls'[c] # calls[c])
       => \A sp \in Spaces, k \in Keys : \A v \in CurrentVersions(sp, k) :
             \E w \in CurrentVersions(sp, k)' : w >= v]_vars

(* The memory a client of space sp sees through history (every stored       *)
(* version) and through the closed operations (the current slot rows).      *)
ChainOf(sp, k) ==
    [v \in Versions(sp, k) |->
       (CHOOSE r \in ada_thoughts :
           r.thought.space_id = sp /\ r.thought.key = k
           /\ r.thought.version = v).thought.content]

BeliefOf(sp, k) ==
    LET v == Max(CurrentVersions(sp, k))
    IN  IF CurrentVersions(sp, k) = {} THEN NoFill ELSE ChainOf(sp, k)[v]

LooseOf(sp) ==
    {<<r.thought.thought_id, r.thought.content>> : r \in
       {x \in ada_thoughts : x.thought.space_id = sp /\ x.thought.key = NoKey}}

Promise ==
    INSTANCE VersionedMemory WITH
        chain <- [k \in Keys |-> ChainOf(Main, k)],
        belief <- [k \in Keys |-> BeliefOf(Main, k)],
        loose <- LooseOf(Main),
        LooseIds <- {<<NoKey, n, 1>> : n \in 0 .. MaxTells},
        Repeats <- {p \in Texts \X Texts : p[1] \in RepeatedBy(p[2])},
        NoBelief <- NoFill

(* A client that waits for each reply, alone on its space, gets the         *)
(* versioned memory of the abstract specification: chains without gaps, the *)
(* last content as the belief, amendments in place, and nothing added by a  *)
(* telling that repeats a content held anywhere, archived ones included.    *)
KeepsPromise == Promise!Spec

(* Spaces are isolated: "facts, counts, and version chains never cross".    *)
(* Saving a fact in one space leaves the facts of the others as they are.   *)
SpacesNeverCross ==
    [][\A c \in Clients :
         calls[c].pc = "save" /\ calls'[c] # calls[c]
         => \A r \in ada_thoughts :
               r.thought.space_id # calls[c].thought.space_id
               => r \in ada_thoughts']_vars
=============================================================================
