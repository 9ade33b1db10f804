--------------------------- MODULE SqlStore_proofs ---------------------------
(***************************************************************************)
(* Invariants of SqlStore, for every set of clients, spaces, keys and      *)
(* facts and whatever handlers they use: the types, and that fact_slots    *)
(* stays exactly what the thoughts decompose into.                         *)
(***************************************************************************)
EXTENDS SqlStore, AtRest_proofs, WellFoundedInduction

\* C is a set of calls in which those of SqlStore are the ones with its pcs.
HasSqlCalls(C) ==
    /\ HasMaintenance(C) /\ TellCall \subseteq C
    /\ \A call \in C : call.pc \in {"check", "version", "save"} => call \in TellCall

(* The inductive invariant, for whatever calls are under way: the module    *)
(* that adds consolidation uses it with more calls.                         *)
InvWith(C) ==
    /\ calls \in [Clients -> C]
    /\ faults \in Nat /\ clock \in Nat /\ tells \in Nat
    /\ StoreInv

IInv == InvWith(Call)

-----------------------------------------------------------------------------
LEMMA BoundedHasMax ==
    ASSUME NEW B, B \subseteq Nat, B # {}, NEW n \in Nat, \A b \in B : b <= n
    PROVE  \E m \in B : \A b \in B : m >= b
<1> DEFINE T == {n - b : b \in B}
<1>1. \A b \in B : n - b \in Nat
  OBVIOUS
<1>2. T \subseteq Nat /\ T # {}
  BY <1>1
<1>3. PICK x \in T : \A y \in T : ~(<<y, x>> \in OpToRel(<, Nat))
  BY <1>2, NatLessThanWellFounded, WFMin
<1>4. \A y \in T : ~(y < x)
  BY <1>2, <1>3 DEF OpToRel
<1>5. PICK m \in B : x = n - m
  OBVIOUS
<1>6. ASSUME NEW b \in B PROVE m >= b
  <2>1. ~(n - b < n - m)
    BY <1>4, <1>5
  <2>2. b \in Nat /\ m \in Nat
    OBVIOUS
  <2> QED
    BY <2>1, <2>2
<1> QED
  BY <1>6

LEMMA LastVersionType ==
    ASSUME StoreInv, NEW sp, NEW k
    PROVE  /\ LastVersion(sp, k) \in Nat
           /\ \A v \in Versions(sp, k) : v < LastVersion(sp, k) + 1
<1> DEFINE B == {0} \cup Versions(sp, k)
<1>1. \A r \in ada_thoughts : r.thought.version \in Nat
  BY DEF StoreInv, TablesInv, TablesTypeOK, Row, Thought
<1>2. PICK n \in Nat : \A r \in ada_thoughts : r.thought.version <= n
  BY DEF StoreInv, VersionsBounded
<1>3. B \subseteq Nat /\ B # {} /\ \A b \in B : b <= n
  BY <1>1, <1>2 DEF Versions
<1> HIDE DEF B
<1>4. \E m \in B : \A b \in B : m >= b
  BY <1>3, BoundedHasMax
<1>5. Max(B) \in B /\ \A b \in B : Max(B) >= b
  BY <1>4 DEF Max
<1>6. PICK m \in Nat : m = Max(B)
  BY <1>3, <1>5
<1>7. \A b \in B : b < m + 1
  BY <1>3, <1>5, <1>6
<1> QED
  BY <1>6, <1>7 DEF LastVersion, B

-----------------------------------------------------------------------------
LEMMA TellFields ==
    ASSUME NEW call \in TellCall
    PROVE  /\ call.pc \in {"check", "version"} =>
                /\ call.space \in Spaces /\ call.fact \in Facts
                /\ call.key \in MaybeKeys
                /\ [call EXCEPT !.pc = "version"] \in TellCall
           /\ call.pc = "save" => call.thought \in Thought
BY DEF TellCall

LEMMA NewThoughtType ==
    ASSUME NEW call \in TellCall, call.pc \in {"check", "version"},
           clock \in Nat, tells \in Nat, NEW version \in Nat \ {0}
    PROVE  Saving(NewThought(call, version)) \in TellCall
<1>1. call.fact.content \in Texts /\ call.fact.fill \in Fills
  BY TellFields, CallAssumption
<1>2. NewThought(call, version) \in Thought
  BY <1>1, TellFields DEF NewThought, Thought, ThoughtId, MaybeKeys
<1> QED
  BY <1>2 DEF Saving, TellCall

LEMMA TellInv ==
    ASSUME NEW C, HasSqlCalls(C), InvWith(C), NEW c \in Clients, Tell(c)
    PROVE  InvWith(C)'
<1> USE DEF InvWith
<1>1. /\ calls[c] \in C /\ Idle \in C /\ TellCall \subseteq C
      /\ calls[c].pc \in {"check", "version", "save"} => calls[c] \in TellCall
  BY DEF HasSqlCalls, HasMaintenance
<1>2. \A call \in C : Resume(c, call) => calls' \in [Clients -> C]
  BY BeginResumeType
<1>3. UNCHANGED tables => StoreInv'
  BY UnchangedStoreInv DEF tables
<1>4. ASSUME NEW sp \in Spaces, NEW f \in Facts, NEW k \in MaybeKeys,
             TellStart(c, sp, f, k)
      PROVE  InvWith(C)'
  <2>1. [pc |-> "check", space |-> sp, fact |-> f, key |-> k] \in C
    BY <1>1 DEF TellCall
  <2>2. calls' \in [Clients -> C]
    BY <1>4, <2>1, BeginResumeType DEF TellStart
  <2> QED
    BY <1>3, <1>4, <2>2 DEF TellStart
<1>5. CASE CheckDuplicate(c)
  <2>1. CASE Resume(c, Idle) /\ UNCHANGED tells
    BY <1>1, <1>2, <1>3, <1>5, <2>1 DEF CheckDuplicate
  <2>2. CASE Build(c, 1)
    <3>1. Saving(NewThought(calls[c], 1)) \in C
      BY <1>1, <1>5, NewThoughtType DEF CheckDuplicate
    <3> QED
      BY <1>2, <1>3, <1>5, <2>2, <3>1 DEF CheckDuplicate, Build
  <2>3. CASE Resume(c, [calls[c] EXCEPT !.pc = "version"]) /\ UNCHANGED tells
    <3>1. [calls[c] EXCEPT !.pc = "version"] \in C
      BY <1>1, <1>5, TellFields DEF CheckDuplicate
    <3> QED
      BY <1>2, <1>3, <1>5, <2>3, <3>1 DEF CheckDuplicate
  <2> QED
    BY <1>5, <2>1, <2>2, <2>3 DEF CheckDuplicate
<1>6. CASE ReadVersion(c)
  <2> DEFINE last == LastVersion(calls[c].space, calls[c].key)
  <2>1. last + 1 \in Nat \ {0}
    BY LastVersionType
  <2>2. Saving(NewThought(calls[c], last + 1)) \in C
    BY <1>1, <1>6, <2>1, NewThoughtType DEF ReadVersion
  <2> QED
    BY <1>2, <1>3, <1>6, <2>2 DEF ReadVersion, Build
<1>7. CASE Save(c)
  <2>1. calls[c].thought \in Thought
    BY <1>1, <1>7, TellFields DEF Save
  <2>2. StoreInv'
    BY <1>7, <2>1, SaveStoreInv DEF Save
  <2> QED
    BY <1>1, <1>2, <1>7, <2>2 DEF Save
<1>8. CASE TellFails(c)
  BY <1>1, <1>2, <1>3, <1>8 DEF TellFails, Fault
<1> QED
  BY <1>4, <1>5, <1>6, <1>7, <1>8 DEF Tell

LEMMA MaintenanceInv ==
    ASSUME NEW C, HasSqlCalls(C), InvWith(C), NEW c \in Clients, SqlMaintain(c)
    PROVE  InvWith(C)'
<1> USE DEF InvWith
<1>1. HasMaintenance(C) /\ TablesInv
  BY DEF HasSqlCalls, StoreInv
<1> DEFINE Goal == calls' \in [Clients -> C] /\ faults' \in Nat /\ StoreInv'
<1>2. SUFFICES Goal
  BY DEF SqlMaintain
<1>3. UNCHANGED tables => StoreInv'
  BY UnchangedStoreInv DEF tables
<1>4. CASE Maintain(c)
  BY <1>1, <1>4, MaintainInv
<1>5. CASE MaintenanceFails(c)
  BY <1>1, <1>3, <1>5, MaintenanceFailsType
<1>6. ASSUME NEW sp \in Spaces, NEW e \in Entities,
             ArchiveSelect(c, sp, MatchedNames(sp, e))
      PROVE  Goal
  BY <1>1, <1>3, <1>6, ArchiveSelectType
<1>7. ASSUME NEW sp \in Spaces, NEW id \in RowIds(sp), NEW change \in Amendments,
             AmendStart(c, sp, id, change)
      PROVE  Goal
  <2>1. id \in ThoughtId
    BY <1>1, SelectedIds
  <2> QED
    BY <1>1, <1>3, <1>7, <2>1, AmendStartType
<1> QED
  BY <1>4, <1>5, <1>6, <1>7 DEF SqlMaintain

LEMMA NextInv ==
    ASSUME NEW C, HasSqlCalls(C), InvWith(C), [Next]_vars
    PROVE  InvWith(C)'
<1> USE DEF InvWith
<1>1. Idle \in C
  BY DEF HasSqlCalls, HasMaintenance
<1>2. UNCHANGED tables => StoreInv'
  BY UnchangedStoreInv DEF tables
<1>3. ASSUME NEW c \in Clients, Reloaded(c) PROVE InvWith(C)'
  <2>1. calls' \in [Clients -> C]
    BY <1>1, <1>3, BeginResumeType DEF Reloaded
  <2> QED
    BY <1>2, <1>3, <2>1 DEF Reloaded
<1>4. CASE Tick
  BY <1>2, <1>4 DEF Tick
<1>5. CASE Restart
  BY <1>1, <1>2, <1>5 DEF Restart
<1>6. CASE UNCHANGED vars
  BY <1>2, <1>6 DEF vars, tables
<1> QED
  BY <1>3, <1>4, <1>5, <1>6, TellInv, MaintenanceInv DEF Next

LEMMA InitInv ==
    ASSUME NEW C, HasSqlCalls(C), Init
    PROVE  InvWith(C)
BY EmptyStoreInv DEF Init, InvWith, HasSqlCalls, HasMaintenance

-----------------------------------------------------------------------------
LEMMA SqlCalls == HasSqlCalls(Call)
BY DEF HasSqlCalls, HasMaintenance, MaintenancePc, Call, TellCall,
       MaintenanceCall, Idle

LEMMA InvIsInductive ==
    /\ Init => IInv
    /\ IInv /\ [Next]_vars => IInv'
    /\ IInv => TypeOK /\ SlotsDecomposeThoughts
<1>1. Init => IInv
  BY SqlCalls, InitInv DEF IInv
<1>2. IInv /\ [Next]_vars => IInv'
  BY SqlCalls, NextInv DEF IInv
<1>3. IInv => TypeOK /\ SlotsDecomposeThoughts
  BY DEF IInv, InvWith, TypeOK, StoreInv, TablesInv
<1> QED
  BY <1>1, <1>2, <1>3

-----------------------------------------------------------------------------
(* Every call, row and slot row has its type, with any number of clients    *)
(* and whatever the calls interleave.                                       *)
THEOREM SqlTypes == Spec => []TypeOK
BY InvIsInductive, PTL DEF Spec

(* The slot rows the closed operations answer from are exactly what the     *)
(* stored thoughts decompose into, across every interleaving of tells,      *)
(* amendments, archives and forgets, errors and restarts.                   *)
THEOREM SqlSlots == Spec => []SlotsDecomposeThoughts
BY InvIsInductive, PTL DEF Spec

-----------------------------------------------------------------------------
(* One client, which waits for each reply: between the version it read and  *)
(* the save of the next one nobody else writes, so the thought it saves is  *)
(* newer than all stored versions of its key.                               *)
SavesNewest(call) == call.pc = "save" => NewerThanAll(call.thought)

SerialInv(C) ==
    /\ InvWith(C)
    /\ OneCurrentVersion
    /\ \A c \in Clients : SavesNewest(calls[c])

LEMMA BuiltNewest ==
    ASSUME NEW call, NEW version,
           call.key # NoKey => \A v \in Versions(call.space, call.key) : v < version
    PROVE  NewerThanAll(NewThought(call, version))
BY DEF NewerThanAll, NewThought

\* A call that is not about to save, or that saves what was just built.
LEMMA SerialStep ==
    ASSUME NEW c, Clients = {c}, NEW C, calls \in [Clients -> C],
           NEW call, call.pc # "save", Begin(c, call) \/ Resume(c, call)
    PROVE  \A d \in Clients : SavesNewest(calls[d])'
BY DEF Begin, Resume, SavesNewest

LEMMA SqlSerial ==
    ASSUME NEW c, Clients = {c}, NEW C, HasSqlCalls(C), SerialInv(C), [Next]_vars
    PROVE  SerialInv(C)'
<1> DEFINE Newest == \A d \in Clients : SavesNewest(calls[d])
           Goal == OneCurrentVersion' /\ Newest'
<1>1. InvWith(C)' /\ InvWith(C) /\ StoreInv /\ OneCurrentVersion /\ Newest
      /\ calls \in [Clients -> C]
  BY NextInv DEF SerialInv, InvWith
<1>2. SUFFICES Goal
  BY <1>1 DEF SerialInv
<1>3. UNCHANGED tables => OneCurrentVersion'
  BY <1>1, FewerOne DEF tables
<1>4. ASSUME NEW d \in Clients, NEW call, call.pc # "save",
             Begin(d, call) \/ Resume(d, call)
      PROVE  Newest'
  BY <1>1, <1>4, SerialStep
<1>5. ASSUME NEW d \in Clients, Resume(d, Idle) PROVE Newest'
  BY <1>4, <1>5 DEF Idle
<1>6. ASSUME NEW d \in Clients, NEW sp, Begin(d, Reload(sp)) \/ Resume(d, Reload(sp))
      PROVE  Newest'
  BY <1>4, <1>6 DEF Reload
<1>7. ASSUME NEW d \in Clients, NEW version, Build(d, version), UNCHANGED tables,
             NewerThanAll(NewThought(calls[d], version))
      PROVE  Goal
  <2>1. d = c /\ calls'[c] = Saving(NewThought(calls[c], version))
    BY <1>1, <1>7 DEF Build, Resume
  <2>2. PICK t : t = NewThought(calls[c], version)
    OBVIOUS
  <2>3. calls'[c].thought = t /\ NewerThanAll(t)'
    BY <1>7, <2>1, <2>2 DEF Saving, NewerThanAll, Versions, tables
  <2> QED
    BY <1>3, <1>7, <2>3 DEF SavesNewest
<1>8. ASSUME NEW d \in Clients, Tell(d) PROVE Goal
  <2>1. ASSUME NEW sp \in Spaces, NEW f \in Facts, NEW k \in MaybeKeys,
               TellStart(d, sp, f, k)
        PROVE  Goal
    BY <1>3, <1>4, <2>1 DEF TellStart
  <2>2. CASE CheckDuplicate(d)
    <3>1. CASE Resume(d, Idle)
      BY <1>3, <1>5, <2>2, <3>1 DEF CheckDuplicate
    <3>2. CASE calls[d].key = NoKey /\ Build(d, 1)
      BY <1>7, <2>2, <3>2, BuiltNewest DEF CheckDuplicate
    <3>3. CASE Resume(d, [calls[d] EXCEPT !.pc = "version"])
      <4>1. [calls[d] EXCEPT !.pc = "version"].pc # "save"
        BY <1>1, <2>2 DEF CheckDuplicate, HasSqlCalls, TellCall
      <4> QED
        BY <1>3, <1>4, <2>2, <3>3, <4>1 DEF CheckDuplicate
    <3> QED
      BY <2>2, <3>1, <3>2, <3>3 DEF CheckDuplicate
  <2>3. CASE ReadVersion(d)
    <3>1. NewerThanAll(NewThought(calls[d],
            LastVersion(calls[d].space, calls[d].key) + 1))
      BY <1>1, LastVersionType, BuiltNewest
    <3> QED
      BY <1>7, <2>3, <3>1 DEF ReadVersion
  <2>4. CASE Save(d)
    <3>1. calls[d].thought \in Thought /\ NewerThanAll(calls[d].thought)
      BY <1>1, <2>4, TellFields DEF Save, HasSqlCalls, SavesNewest
    <3> QED
      BY <1>1, <1>5, <2>4, <3>1, SaveOne DEF Save
  <2>5. CASE TellFails(d)
    BY <1>3, <1>5, <2>5 DEF TellFails
  <2> QED
    BY <1>8, <2>1, <2>2, <2>3, <2>4, <2>5 DEF Tell
<1>9. ASSUME NEW d \in Clients, Maintain(d) PROVE Goal
  <2>1. ASSUME NEW sp, NEW ids, ForgetSelect(d, sp, ids) PROVE Goal
    BY <1>3, <1>4, <2>1 DEF ForgetSelect
  <2>2. ASSUME NEW sp, ForgetAll(d, sp) PROVE Goal
    BY <1>1, <1>6, <2>2, FewerOne DEF ForgetAll, delete_space
  <2>3. CASE ArchiveCommit(d)
    BY <1>1, <1>6, <2>3, ArchiveOne DEF ArchiveCommit
  <2>4. CASE ForgetCommit(d)
    BY <1>1, <1>6, <2>4, FewerOne DEF ForgetCommit, delete_rows, SlotsExcept
  <2>5. CASE AmendCommit(d)
    BY <1>1, <1>3, <1>5, <1>6, <2>5, AmendOne DEF AmendCommit
  <2> QED
    BY <1>9, <2>1, <2>2, <2>3, <2>4, <2>5
       DEF Maintain, ForgetByKey, ForgetById, ForgetByEntity
<1>10. ASSUME NEW d \in Clients, SqlMaintain(d) PROVE Goal
  <2>1. CASE MaintenanceFails(d)
    BY <1>3, <1>5, <2>1 DEF MaintenanceFails
  <2>2. ASSUME NEW sp \in Spaces, NEW names, ArchiveSelect(d, sp, names) PROVE Goal
    BY <1>3, <1>4, <2>2 DEF ArchiveSelect
  <2>3. ASSUME NEW sp \in Spaces, NEW id, NEW change, AmendStart(d, sp, id, change)
        PROVE  Goal
    BY <1>3, <1>4, <2>3 DEF AmendStart
  <2> QED
    BY <1>9, <1>10, <2>1, <2>2, <2>3 DEF SqlMaintain
<1>11. ASSUME NEW d \in Clients, Reloaded(d) PROVE Goal
  BY <1>3, <1>5, <1>11 DEF Reloaded
<1>12. CASE Tick \/ UNCHANGED vars
  BY <1>1, <1>3, <1>12 DEF Tick, vars, tables, SavesNewest, NewerThanAll, Versions
<1>13. CASE Restart
  BY <1>3, <1>13 DEF Restart, SavesNewest, Idle
<1> QED
  BY <1>8, <1>10, <1>11, <1>12, <1>13 DEF Next

(* A client alone on the store, whatever handlers it uses and whatever      *)
(* fails or restarts in between, leaves at most one version of a key        *)
(* current: "latest" has one answer.                                        *)
THEOREM SerialOneCurrent ==
    ASSUME NEW c, Clients = {c}
    PROVE  Spec => []OneCurrentVersion
<1>1. Init => SerialInv(Call)
  BY SqlCalls, InitInv DEF SerialInv, Init, OneCurrentVersion, SavesNewest, Idle
<1>2. SerialInv(Call) /\ [Next]_vars => SerialInv(Call)'
  BY SqlCalls, SqlSerial
<1>3. SerialInv(Call) => OneCurrentVersion
  BY DEF SerialInv
<1> QED
  BY <1>1, <1>2, <1>3, PTL DEF Spec
=============================================================================
