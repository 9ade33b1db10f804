-------------------------- MODULE MemoryStore_proofs --------------------------
(***************************************************************************)
(* The memory mode.  The tables stay in step under all of its handlers.    *)
(* With one space and no handler that changes facts at rest, tells, write- *)
(* throughs, the worker and restarts lose and overwrite nothing; with one  *)
(* client and no database error, RAM is the disk whenever nothing is in    *)
(* flight.                                                                 *)
(***************************************************************************)
EXTENDS MemoryStore, AtRest_proofs, FiniteSetTheorems

-----------------------------------------------------------------------------
\* Finite sets: what a store loads is as finite as the table.

LEMMA FiniteImage ==
    ASSUME NEW S, IsFiniteSet(S), NEW f, f = [x \in S |-> f[x]]
    PROVE  IsFiniteSet({f[x] : x \in S})
<1> DEFINE T == {f[x] : x \in S}
<1>1. f \in Surjection(S, T)
  BY DEF Surjection
<1> QED
  BY <1>1, FS_Surjection

LEMMA SaveFinite ==
    ASSUME IsFiniteSet(ada_thoughts), NEW t, save_thought(t)
    PROVE  IsFiniteSet(ada_thoughts')
<1>1. RowsExcept({t.thought_id}) \in SUBSET ada_thoughts
  BY DEF RowsExcept
<1>2. IsFiniteSet(RowsExcept({t.thought_id}))
  BY <1>1, FS_Subset
<1> QED
  BY <1>2, FS_AddElement DEF save_thought

LEMMA AmendFinite ==
    ASSUME IsFiniteSet(ada_thoughts), NEW r, NEW text, NEW facts,
           amend_thought(r, text, facts)
    PROVE  IsFiniteSet(ada_thoughts')
<1>1. RowsExcept({r.thought.thought_id}) \in SUBSET ada_thoughts
  BY DEF RowsExcept
<1>2. IsFiniteSet(RowsExcept({r.thought.thought_id}))
  BY <1>1, FS_Subset
<1> QED
  BY <1>2, FS_AddElement DEF amend_thought

LEMMA ArchiveFinite ==
    ASSUME IsFiniteSet(ada_thoughts), NEW ids, archive_rows(ids)
    PROVE  IsFiniteSet(ada_thoughts')
<1> DEFINE S == {x \in ada_thoughts : x.thought.thought_id \in ids}
           f == [r \in S |-> [r EXCEPT !.archived = TRUE]]
<1>1. RowsExcept(ids) \in SUBSET ada_thoughts /\ S \in SUBSET ada_thoughts
  BY DEF RowsExcept
<1>2. IsFiniteSet(RowsExcept(ids)) /\ IsFiniteSet(S)
  BY <1>1, FS_Subset
<1>3. ada_thoughts' = RowsExcept(ids) \cup {f[r] : r \in S}
  BY DEF archive_rows
<1>4. f = [r \in S |-> f[r]]
  OBVIOUS
<1> HIDE DEF f
<1>5. IsFiniteSet({f[r] : r \in S})
  BY <1>2, <1>4, FiniteImage
<1> QED
  BY <1>2, <1>3, <1>5, FS_Union

LEMMA ShrinkFinite ==
    ASSUME IsFiniteSet(ada_thoughts), ada_thoughts' \subseteq ada_thoughts
    PROVE  IsFiniteSet(ada_thoughts')
<1>1. ada_thoughts' \in SUBSET ada_thoughts
  OBVIOUS
<1> QED
  BY <1>1, FS_Subset

-----------------------------------------------------------------------------
\* What load_thoughts builds.

\* A sequence of distinct elements as long as the set lists all of it.
LEMMA ListsAll ==
    ASSUME NEW S, IsFiniteSet(S), NEW q \in SetToSeqs(S)
    PROVE  /\ q \in Seq(S) /\ ToSet(q) = S
           /\ \A i, j \in DOMAIN q : i # j => q[i] # q[j]
<1> DEFINE n == Cardinality(S)
<1>1. n \in Nat
  BY FS_CardinalityType
<1>2. q \in [1..n -> S] /\ \A i, j \in 1..n : i # j => q[i] # q[j]
  BY DEF SetToSeqs
<1>3. q \in Seq(S)
  BY <1>1, <1>2
<1>4. q \in Injection(1..n, S)
  BY <1>2 DEF Injection, IsInjective
<1>5. IsFiniteSet(1..n) /\ Cardinality(1..n) = n
  BY <1>1, FS_Interval
<1>6. q \in Surjection(1..n, S)
  BY <1>4, <1>5, FS_Injection
<1>7. ToSet(q) = S
  BY <1>2, <1>6 DEF Surjection, ToSet
<1> QED
  BY <1>2, <1>3, <1>7

Under(S, k) == {t \in S : t.key = k}

LEMMA LoadedFinite ==
    ASSUME TablesInv, IsFiniteSet(ada_thoughts), NEW sp
    PROVE  /\ LoadedThoughts(sp) \subseteq Thought
           /\ IsFiniteSet(LoadedThoughts(sp))
           /\ \A k : IsFiniteSet(Under(LoadedThoughts(sp), k))
<1> DEFINE f == [r \in Live(sp) |-> [r.thought EXCEPT !.space_id = Main]]
<1>1. Live(sp) \in SUBSET ada_thoughts
  BY DEF Live
<1>2. LoadedThoughts(sp) = {f[r] : r \in Live(sp)} /\ f = [r \in Live(sp) |-> f[r]]
  BY DEF LoadedThoughts
<1> HIDE DEF f
<1>3. IsFiniteSet({f[r] : r \in Live(sp)})
  BY <1>1, <1>2, FS_Subset, FiniteImage
<1>4. \A k : Under(LoadedThoughts(sp), k) \in SUBSET LoadedThoughts(sp)
  BY DEF Under
<1>5. LoadedThoughts(sp) \subseteq Thought
  <2>1. \A t \in Thought : [t EXCEPT !.space_id = Main] \in Thought
    BY SpaceAssumption DEF Thought
  <2>2. \A r \in Live(sp) : r.thought \in Thought
    BY <1>1 DEF TablesInv, TablesTypeOK, Row
  <2> QED
    BY <2>1, <2>2 DEF LoadedThoughts
<1> QED
  BY <1>2, <1>3, <1>4, <1>5, FS_Subset

LEMMA Loaded ==
    ASSUME TablesInv, IsFiniteSet(ada_thoughts),
           NEW sp, NEW fresh \in LoadedStores(sp)
    PROVE  /\ fresh \in Store
           /\ fresh.thoughts = LoadedThoughts(sp)
           /\ fresh.absorbed = {Norm[t.content] : t \in fresh.thoughts}
           /\ \A k \in Keys :
                LET q == fresh.chains[k] IN
                /\ ToSet(q) = Under(fresh.thoughts, k)
                /\ \A i, j \in DOMAIN q :
                      i < j => q[i] # q[j] /\ q[i].version <= q[j].version
<1> DEFINE all == LoadedThoughts(sp)
<1>1. PICK chains \in [Keys -> UNION {VersionOrders(Under(all, k)) : k \in Keys}] :
         /\ \A k \in Keys : chains[k] \in VersionOrders(Under(all, k))
         /\ fresh = [thoughts |-> all, chains |-> chains,
                     absorbed |-> {Norm[t.content] : t \in all}]
  BY DEF LoadedStores, Under
<1>2. all \subseteq Thought /\ \A k : IsFiniteSet(Under(all, k))
  BY LoadedFinite
<1>3. ASSUME NEW k \in Keys
      PROVE  /\ chains[k] \in Seq(Thought)
             /\ ToSet(chains[k]) = Under(all, k)
             /\ \A i, j \in DOMAIN chains[k] :
                   i < j => /\ chains[k][i] # chains[k][j]
                            /\ chains[k][i].version <= chains[k][j].version
  <2>1. /\ chains[k] \in SetToSeqs(Under(all, k))
        /\ \A i, j \in DOMAIN chains[k] :
              i < j => chains[k][i].version <= chains[k][j].version
    BY <1>1 DEF VersionOrders
  <2>2. /\ chains[k] \in Seq(Under(all, k)) /\ ToSet(chains[k]) = Under(all, k)
        /\ \A i, j \in DOMAIN chains[k] : i # j => chains[k][i] # chains[k][j]
    BY <1>2, <2>1, ListsAll
  <2>3. DOMAIN chains[k] \subseteq Int /\ chains[k] \in Seq(Thought)
    BY <1>2, <2>2 DEF Under
  <2> QED
    BY <2>1, <2>2, <2>3
<1>4. chains \in [Keys -> Seq(Thought)]
  BY <1>1, <1>3
<1>5. {Norm[t.content] : t \in all} \subseteq Texts
  BY <1>2, CallAssumption DEF Thought
<1> QED
  BY <1>1, <1>2, <1>3, <1>4, <1>5 DEF Store

-----------------------------------------------------------------------------
\* The types, with what they rest on.

MemInv == StoreInv /\ IsFiniteSet(ada_thoughts) /\ TypeOK

LEMMA MemCalls == HasMaintenance(Call)
<1>1. \A call \in MaintenanceCall : call.pc \in MaintenancePc
  BY DEF MaintenanceCall, MaintenancePc
<1> QED
  BY DEF HasMaintenance, Call, MaintenancePc, Idle

LEMMA PersistCall ==
    ASSUME NEW call \in Call, call.pc = "persist"
    PROVE  call.thought \in Thought
BY DEF Call, MaintenanceCall, Idle

LEMMA ReloadCall ==
    ASSUME NEW call \in Call, call.pc = "reload"
    PROVE  call.space \in Spaces
BY DEF Call, MaintenanceCall, Idle

LEMMA SwapCall ==
    ASSUME NEW call \in Call, call.pc = "swap"
    PROVE  call.space \in Spaces /\ call.fresh \in Store
BY DEF Call, MaintenanceCall, Idle

\* A successful write of one thought.
LEMMA SaveKeeps ==
    ASSUME StoreInv, IsFiniteSet(ada_thoughts), NEW t \in Thought, save_thought(t)
    PROVE  StoreInv' /\ IsFiniteSet(ada_thoughts') /\ TablesTypeOK'
BY SaveStoreInv, SaveFinite DEF StoreInv, TablesInv

LEMMA UntouchedKeeps ==
    ASSUME MemInv, UNCHANGED tables
    PROVE  StoreInv' /\ IsFiniteSet(ada_thoughts') /\ TablesTypeOK'
BY UnchangedStoreInv DEF MemInv, StoreInv, TablesInv, tables

LEMMA MaintainFinite ==
    ASSUME IsFiniteSet(ada_thoughts), NEW c, Maintain(c)
    PROVE  IsFiniteSet(ada_thoughts')
<1>1. UNCHANGED tables => IsFiniteSet(ada_thoughts')
  BY DEF tables
<1>2. \A sp, ids : ForgetSelect(c, sp, ids) => UNCHANGED tables
  BY DEF ForgetSelect
<1>3. ASSUME NEW sp, ForgetAll(c, sp) PROVE IsFiniteSet(ada_thoughts')
  BY <1>3, ShrinkFinite DEF ForgetAll, delete_space
<1>4. CASE ArchiveCommit(c)
  BY <1>4, ArchiveFinite DEF ArchiveCommit
<1>5. CASE ForgetCommit(c)
  BY <1>5, ShrinkFinite DEF ForgetCommit, delete_rows, RowsExcept
<1>6. CASE AmendCommit(c)
  BY <1>1, <1>6, AmendFinite DEF AmendCommit
<1> QED
  BY <1>1, <1>2, <1>3, <1>4, <1>5, <1>6
     DEF Maintain, ForgetByKey, ForgetById, ForgetByEntity

LEMMA NewThoughtType ==
    ASSUME TypeOK, NEW sp \in Spaces, NEW f \in Facts, NEW k \in MaybeKeys
    PROVE  NewThought(sp, f, k) \in Thought
<1> DEFINE version == NextVersion(spaces[sp], k)
<1>1. spaces[sp] \in Store /\ tells \in Nat /\ clock \in Nat
  BY DEF TypeOK
<1>2. version \in Nat \ {0}
  <2>1. CASE k = NoKey \/ spaces[sp].chains[k] = << >>
    BY <2>1 DEF NextVersion
  <2>2. CASE k \in Keys /\ spaces[sp].chains[k] # << >>
    <3>1. spaces[sp].chains[k] \in Seq(Thought)
      BY <1>1, <2>2 DEF Store
    <3>2. Last(spaces[sp].chains[k]) \in Thought
      BY <2>2, <3>1 DEF Last
    <3> QED
      BY <2>2, <3>2, KeyAssumption DEF NextVersion, Thought
  <2> QED
    BY <2>1, <2>2 DEF MaybeKeys
<1>3. f.content \in Texts /\ f.fill \in Fills
  BY CallAssumption
<1> HIDE DEF version
<1>4. (IF k = NoKey THEN <<NoKey, tells, 1>> ELSE <<k, clock, version>>) \in ThoughtId
  BY <1>1, <1>2 DEF ThoughtId, MaybeKeys
<1> QED
  BY <1>2, <1>3, <1>4 DEF NewThought, Thought, version

LEMMA RememberType ==
    ASSUME NEW store \in Store, NEW t \in Thought
    PROVE  Remember(store, t) \in Store
<1>1. t.key \in MaybeKeys /\ t.content \in Texts
  BY DEF Thought
<1>2. t.key # NoKey =>
        [store.chains EXCEPT ![t.key] = Append(@, t)] \in [Keys -> Seq(Thought)]
  BY <1>1 DEF MaybeKeys, Store
<1> QED
  BY <1>1, <1>2, CallAssumption DEF Remember, Store

LEMMA BootType ==
    ASSUME MemInv, Boot
    PROVE  /\ calls' \in [Clients -> Call] /\ spaces' \in [Spaces -> Store]
           /\ persist_queue' = << >> /\ batch' = << >> /\ mode' = "up"
<1>1. PICK main \in LoadedStores(Main) :
         spaces' = [sp \in Spaces |-> IF sp = Main THEN main ELSE EmptyStore]
  BY DEF Boot
<1>2. main \in Store
  BY Loaded DEF MemInv, StoreInv
<1>3. EmptyStore \in Store
  BY DEF EmptyStore, Store
<1> QED
  BY <1>1, <1>2, <1>3 DEF Boot, Call

LEMMA InitMem ==
    ASSUME Init
    PROVE  MemInv
<1>1. StoreInv
  BY EmptyStoreInv DEF Init
<1>2. IsFiniteSet(ada_thoughts)
  BY FS_EmptySet DEF Init
<1>3. EmptyStore \in Store
  BY DEF EmptyStore, Store
<1> QED
  BY <1>1, <1>2, <1>3 DEF Init, MemInv, TypeOK, StoreInv, TablesInv, Call

LEMMA MemStep ==
    ASSUME MemInv, [Next]_vars
    PROVE  MemInv'
<1> DEFINE Store2 == StoreInv' /\ IsFiniteSet(ada_thoughts') /\ TablesTypeOK'
           Ram == spaces' \in [Spaces -> Store] /\ mode' \in {"up", "stopping"}
           Queues == persist_queue' \in Seq(Thought) /\ batch' \in Seq(Thought)
           Count == /\ faults' \in Nat /\ clock' \in Nat
                    /\ tells' \in Nat /\ boots' \in Nat
           Goal == /\ Store2 /\ calls' \in [Clients -> Call]
                   /\ Ram /\ Queues /\ Count
<1>1. /\ StoreInv /\ IsFiniteSet(ada_thoughts) /\ TypeOK
      /\ calls \in [Clients -> Call] /\ spaces \in [Spaces -> Store]
      /\ persist_queue \in Seq(Thought) /\ batch \in Seq(Thought)
      /\ mode \in {"up", "stopping"}
      /\ faults \in Nat /\ clock \in Nat /\ tells \in Nat /\ boots \in Nat
  BY DEF MemInv, TypeOK
<1>2. SUFFICES Goal
  BY DEF MemInv, TypeOK
<1>3. UNCHANGED tables => Store2
  BY UntouchedKeeps
<1>4. Idle \in Call
  BY DEF Call
<1>5. ASSUME NEW c \in Clients, NEW sp \in Spaces, NEW f \in Facts,
             NEW k \in MaybeKeys, Tell(c, sp, f, k)
      PROVE  Goal
  <2> DEFINE t == NewThought(sp, f, k)
  <2>1. t \in Thought
    BY <1>1, NewThoughtType
  <2>2. /\ Begin(c, [pc |-> "persist", thought |-> t])
        /\ spaces' = [spaces EXCEPT ![sp] = Remember(@, t)]
        /\ tells' = tells + 1
        /\ UNCHANGED <<tables, faults, persist_queue, batch, mode, clock, boots>>
    BY <1>5 DEF Tell
  <2> HIDE DEF t
  <2>3. [pc |-> "persist", thought |-> t] \in Call
    BY <2>1 DEF Call
  <2>4. calls' \in [Clients -> Call]
    BY <1>1, <2>2, <2>3, BeginResumeType
  <2>5. Remember(spaces[sp], t) \in Store
    BY <1>1, <2>1, RememberType
  <2> QED
    BY <1>1, <1>3, <2>2, <2>4, <2>5
<1>6. ASSUME NEW c \in Clients, Persist(c) \/ PersistFails(c) PROVE Goal
  <2>1. calls[c].thought \in Thought /\ calls' \in [Clients -> Call]
    BY <1>1, <1>4, <1>6, PersistCall, BeginResumeType DEF Persist, PersistFails
  <2>2. CASE Persist(c)
    <3>1. Store2
      BY <1>1, <2>1, <2>2, SaveKeeps DEF Persist
    <3> QED
      BY <1>1, <2>1, <2>2, <3>1 DEF Persist, ramVars, boundVars
  <2>3. CASE PersistFails(c)
    BY <1>1, <1>3, <2>1, <2>3 DEF PersistFails, Fault, boundVars
  <2> QED
    BY <1>6, <2>2, <2>3
<1>7. ASSUME NEW c \in Clients, MemoryMaintain(c) PROVE Goal
  <2>1. HasMaintenance(Call)
    BY MemCalls
  <2>2. Ram /\ Queues /\ clock' \in Nat /\ tells' \in Nat /\ boots' \in Nat
    BY <1>1, <1>7 DEF MemoryMaintain, ramVars, boundVars
  <2>3. ASSUME calls' \in [Clients -> Call], UNCHANGED <<tables, faults>> PROVE Goal
    BY <1>1, <1>3, <2>2, <2>3
  <2>4. CASE Maintain(c)
    <3>1. calls' \in [Clients -> Call] /\ faults' \in Nat /\ StoreInv'
      BY <1>1, <2>1, <2>4, MaintainInv
    <3>2. IsFiniteSet(ada_thoughts')
      BY <1>1, <2>4, MaintainFinite
    <3> QED
      BY <2>2, <3>1, <3>2 DEF StoreInv, TablesInv
  <2>5. CASE MaintenanceFails(c)
    BY <1>1, <1>3, <2>1, <2>2, <2>5, MaintenanceFailsType
  <2>6. ASSUME NEW sp \in Spaces, NEW names, ArchiveSelect(c, sp, names) PROVE Goal
    BY <1>1, <2>1, <2>3, <2>6, ArchiveSelectType DEF StoreInv
  <2>7. ASSUME NEW sp \in Spaces, NEW id \in RowIds(sp) \cup ChainIds(sp),
               NEW change \in Amendments, AmendStart(c, sp, id, change)
        PROVE  Goal
    <3>1. RowIds(sp) \subseteq ThoughtId
      BY <1>1, SelectedIds DEF StoreInv
    <3>2. ChainIds(sp) \subseteq ThoughtId
      <4>1. \A k \in Keys : spaces[sp].chains[k] \in Seq(Thought)
        BY <1>1 DEF Store
      <4>2. \A k \in Keys : ToSet(spaces[sp].chains[k]) \subseteq Thought
        BY <4>1 DEF ToSet
      <4> QED
        BY <4>2 DEF ChainIds, Thought
    <3> QED
      BY <1>1, <2>1, <2>3, <2>7, <3>1, <3>2, AmendStartType
  <2> QED
    BY <1>7, <2>4, <2>5, <2>6, <2>7 DEF MemoryMaintain
<1>8. ASSUME NEW c \in Clients, ReloadRead(c) PROVE Goal
  <2>1. calls[c].space \in Spaces
    BY <1>1, <1>8, ReloadCall DEF ReloadRead
  <2>2. PICK fresh \in LoadedStores(calls[c].space) :
           Resume(c, [pc |-> "swap", space |-> calls[c].space, fresh |-> fresh])
    BY <1>8 DEF ReloadRead
  <2>3. fresh \in Store
    BY <1>1, Loaded DEF StoreInv
  <2>4. [pc |-> "swap", space |-> calls[c].space, fresh |-> fresh] \in Call
    BY <2>1, <2>3 DEF Call
  <2>5. calls' \in [Clients -> Call]
    BY <1>1, <2>2, <2>4, BeginResumeType
  <2> QED
    BY <1>1, <1>3, <1>8, <2>5 DEF ReloadRead, ramVars, boundVars
<1>9. ASSUME NEW c \in Clients, ReloadSwap(c) PROVE Goal
  <2>1. calls[c].space \in Spaces /\ calls[c].fresh \in Store
    BY <1>1, <1>9, SwapCall DEF ReloadSwap
  <2>2. calls' \in [Clients -> Call]
    BY <1>1, <1>4, <1>9, BeginResumeType DEF ReloadSwap
  <2> QED
    BY <1>1, <1>3, <1>9, <2>1, <2>2 DEF ReloadSwap, boundVars
<1>10. CASE FlushTake
  BY <1>1, <1>3, <1>10 DEF FlushTake, boundVars
<1>11. CASE FlushSave
  <2>1. Head(batch) \in Thought /\ Tail(batch) \in Seq(Thought)
    BY <1>1, <1>11 DEF FlushSave
  <2>2. Store2
    BY <1>1, <1>11, <2>1, SaveKeeps DEF FlushSave
  <2> QED
    BY <1>1, <1>11, <2>1, <2>2 DEF FlushSave, boundVars
<1>12. CASE FlushFails
  BY <1>1, <1>3, <1>12 DEF FlushFails, Fault, boundVars
<1>13. CASE Crash \/ Restart
  <2>1. /\ calls' \in [Clients -> Call] /\ spaces' \in [Spaces -> Store]
        /\ persist_queue' = << >> /\ batch' = << >> /\ mode' = "up"
    BY <1>13, BootType DEF Crash, Restart
  <2> QED
    BY <1>1, <1>3, <1>13, <2>1 DEF Crash, Restart
<1>14. CASE Shutdown
  BY <1>1, <1>3, <1>14 DEF Shutdown, boundVars
<1>15. CASE Tick \/ UNCHANGED vars
  BY <1>1, <1>3, <1>15 DEF Tick, vars, tables, ramVars
<1> QED
  BY <1>5, <1>6, <1>7, <1>8, <1>9, <1>10, <1>11, <1>12, <1>13, <1>14, <1>15
     DEF Next

(* No handler of the memory mode, fault, crash or restart leaves RAM, the   *)
(* queue or the tables holding anything but facts: chains rebuilt at boot   *)
(* and stores read by a reload included.                                    *)
THEOREM MemTypes == Spec => []TypeOK
<1>1. Init => MemInv
  BY InitMem
<1>2. MemInv /\ [Next]_vars => MemInv'
  BY MemStep
<1>3. MemInv => TypeOK
  BY DEF MemInv
<1> QED
  BY <1>1, <1>2, <1>3, PTL DEF Spec

(* Under every handler of the memory mode, each fact of the table has its   *)
(* slot rows and no slot row outlives its fact.                             *)
THEOREM MemSlots == Spec => []SlotsDecomposeThoughts
<1>1. Init => MemInv
  BY InitMem
<1>2. MemInv /\ [Next]_vars => MemInv'
  BY MemStep
<1>3. MemInv => SlotsDecomposeThoughts
  BY DEF MemInv, StoreInv, TablesInv
<1> QED
  BY <1>1, <1>2, <1>3, PTL DEF Spec

-----------------------------------------------------------------------------
\* Chains and the next version, for stores whose chains are in order.

Ascending(q) == \A i, j \in DOMAIN q : i < j => q[i].version <= q[j].version

LEMMA NextIsNewest ==
    ASSUME NEW store \in Store, NEW k \in Keys, Ascending(store.chains[k])
    PROVE  \A t \in ToSet(store.chains[k]) : t.version < NextVersion(store, k)
<1> DEFINE q == store.chains[k]
<1>1. q \in Seq(Thought)
  BY DEF Store
<1>2. SUFFICES ASSUME NEW i \in DOMAIN q
               PROVE  q[i].version < NextVersion(store, k)
  BY DEF ToSet
<1> HIDE DEF q
<1>3. /\ Len(q) \in DOMAIN q /\ i \in Nat /\ i <= Len(q) /\ q # << >>
      /\ q[i] \in Thought /\ q[Len(q)] \in Thought
  BY <1>1
<1>4. q[i].version <= q[Len(q)].version
  BY <1>3 DEF Ascending, Thought, q
<1>5. NextVersion(store, k) = q[Len(q)].version + 1
  BY <1>3, KeyAssumption DEF NextVersion, Last, q
<1> QED
  BY <1>3, <1>4, <1>5 DEF Thought

LEMMA Appended ==
    ASSUME NEW q \in Seq(Thought), NEW t \in Thought
    PROVE  /\ ToSet(Append(q, t)) = ToSet(q) \cup {t}
           /\ \A i \in DOMAIN Append(q, t) :
                 \/ i \in DOMAIN q /\ Append(q, t)[i] = q[i]
                 \/ i = Len(q) + 1 /\ Append(q, t)[i] = t
<1>1. /\ DOMAIN Append(q, t) = DOMAIN q \cup {Len(q) + 1}
      /\ \A i \in DOMAIN q : Append(q, t)[i] = q[i]
      /\ Append(q, t)[Len(q) + 1] = t
  OBVIOUS
<1> QED
  BY <1>1 DEF ToSet

(* A fact whose key has smaller versions only: its id is new, and the chain *)
(* of its key stays in order.                                               *)
LEMMA Remembered ==
    ASSUME NEW store \in Store, NEW t \in Thought,
           \A u \in store.thoughts : u.thought_id # t.thought_id
    PROVE  LET new == Remember(store, t) IN
           /\ new.thoughts = store.thoughts \cup {t}
           /\ new.absorbed = store.absorbed \cup {Norm[t.content]}
           /\ \A k \in Keys :
                 new.chains[k] = IF k = t.key THEN Append(store.chains[k], t)
                                              ELSE store.chains[k]
<1>1. {x \in store.thoughts : x.thought_id # t.thought_id} = store.thoughts
  OBVIOUS
<1> QED
  BY <1>1, KeyAssumption DEF Remember, Store

(* A store fit for the next tell: facts named after key and version, uuids  *)
(* used up, and a chain for each key that lists its facts in order.         *)
WellKept(store) ==
    /\ \A t \in store.thoughts : Named(t) /\ (t.key = NoKey => t.thought_id[2] < tells)
    /\ \A k \in Keys : /\ Ascending(store.chains[k])
                       /\ ToSet(store.chains[k]) = Under(store.thoughts, k)

\* What a tell makes is new: in its id, and in the version of its key.
LEMMA ToldAnew ==
    ASSUME TypeOK, WellKept(spaces[Main]), NEW f \in Facts, NEW k \in MaybeKeys,
           NEW t, t = NewThought(Main, f, k)
    PROVE  /\ t \in Thought /\ Named(t) /\ t.key = k /\ t.content = f.content
           /\ t.space_id = Main /\ (k = NoKey => t.thought_id[2] = tells)
           /\ \A u \in spaces[Main].thoughts :
                 /\ u.thought_id # t.thought_id
                 /\ u.key = k /\ k # NoKey => u.version < t.version
<1> DEFINE store == spaces[Main]
<1>1. t \in Thought /\ store \in Store /\ tells \in Nat
  BY SpaceAssumption, NewThoughtType DEF TypeOK
<1>2. /\ t.key = k /\ t.content = f.content /\ t.space_id = Main
      /\ t.version = NextVersion(store, k)
      /\ k = NoKey => t.thought_id = <<NoKey, tells, 1>>
      /\ k # NoKey => t.thought_id = <<k, clock, t.version>>
  BY DEF NewThought
<1>3. Named(t) /\ (k = NoKey => t.thought_id[2] = tells)
  BY <1>2 DEF Named, NextVersion
<1>4. ASSUME NEW u \in store.thoughts
      PROVE  /\ u.thought_id # t.thought_id
             /\ u.key = k /\ k # NoKey => u.version < t.version
  <2>1. u \in Thought /\ Named(u) /\ (u.key = NoKey => u.thought_id[2] < tells)
    BY <1>1 DEF WellKept, Store
  <2>2. u.key = k /\ k # NoKey => u.version < t.version
    <3>1. SUFFICES ASSUME u.key = k, k \in Keys PROVE u.version < t.version
      BY DEF MaybeKeys
    <3>2. u \in ToSet(store.chains[k]) /\ Ascending(store.chains[k])
      BY <3>1 DEF WellKept, Under
    <3> QED
      BY <1>1, <1>2, <3>1, <3>2, NextIsNewest
  <2>3. ASSUME u.thought_id = t.thought_id PROVE FALSE
    <3>1. u.key = k /\ u.version = t.version
      BY <1>2, <1>3, <2>1, <2>3 DEF Named
    <3>2. k # NoKey
      BY <1>1, <1>3, <2>1, <2>3, <3>1
    <3> QED
      BY <1>1, <2>1, <2>2, <3>1, <3>2 DEF Thought
  <2> QED
    BY <2>2, <2>3
<1> QED
  BY <1>1, <1>2, <1>3, <1>4

LEMMA KeptAfterTell ==
    ASSUME TypeOK, WellKept(spaces[Main]), NEW f \in Facts, NEW k \in MaybeKeys,
           NEW t, t = NewThought(Main, f, k), tells' = tells + 1,
           spaces' = [spaces EXCEPT ![Main] = Remember(@, t)]
    PROVE  /\ WellKept(spaces[Main])'
           /\ spaces'[Main].thoughts = spaces[Main].thoughts \cup {t}
           /\ spaces'[Main].absorbed = spaces[Main].absorbed \cup {Norm[t.content]}
<1> DEFINE store == spaces[Main]
           new == spaces'[Main]
<1>1. store \in Store /\ tells \in Nat /\ new = Remember(store, t)
  BY SpaceAssumption DEF TypeOK
<1>2. /\ t \in Thought /\ Named(t) /\ t.key = k
      /\ (k = NoKey => t.thought_id[2] = tells)
      /\ \A u \in store.thoughts :
            /\ u.thought_id # t.thought_id
            /\ u.key = k /\ k # NoKey => u.version < t.version
  BY ToldAnew
<1>3. /\ new.thoughts = store.thoughts \cup {t}
      /\ new.absorbed = store.absorbed \cup {Norm[t.content]}
      /\ \A x \in Keys : new.chains[x] = IF x = k THEN Append(store.chains[x], t)
                                                  ELSE store.chains[x]
  BY <1>1, <1>2, Remembered
<1> HIDE DEF new
<1>4. ASSUME NEW u \in new.thoughts, u.key = NoKey PROVE u.thought_id[2] < tells'
  <2>1. u \in Thought
    BY <1>1, <1>2, <1>3 DEF Store
  <2>2. u.thought_id[2] \in Nat
    BY <2>1 DEF Thought, ThoughtId
  <2> QED
    BY <1>1, <1>2, <1>3, <1>4, <2>2 DEF WellKept
<1>5. ASSUME NEW x \in Keys
      PROVE  Ascending(new.chains[x]) /\ ToSet(new.chains[x]) = Under(new.thoughts, x)
  <2>1. CASE x # k
    BY <1>2, <1>3, <2>1 DEF WellKept, Under
  <2>2. CASE x = k
    <3> DEFINE q == store.chains[k]
    <3>1. q \in Seq(Thought) /\ Ascending(q) /\ ToSet(q) = Under(store.thoughts, k)
      BY <1>1, <2>2 DEF Store, WellKept
    <3> HIDE DEF q
    <3>2. /\ ToSet(Append(q, t)) = ToSet(q) \cup {t}
          /\ \A i \in DOMAIN Append(q, t) :
                \/ i \in DOMAIN q /\ Append(q, t)[i] = q[i]
                \/ i = Len(q) + 1 /\ Append(q, t)[i] = t
      BY <1>2, <3>1, Appended
    <3>3. \A i \in DOMAIN q : q[i].version <= t.version /\ i < Len(q) + 1
      <4>1. \A i \in DOMAIN q : q[i] \in Under(store.thoughts, k) /\ q[i] \in Thought
                                /\ i < Len(q) + 1
        BY <3>1 DEF ToSet
      <4> QED
        BY <1>2, <2>2, <4>1, KeyAssumption DEF Under, Thought
    <3>4. Ascending(Append(q, t))
      <4>1. t.version \in Nat /\ DOMAIN q \subseteq Nat /\ Len(q) \in Nat
        BY <1>2, <3>1 DEF Thought
      <4> QED
        BY <3>1, <3>2, <3>3, <4>1 DEF Ascending
    <3> QED
      BY <1>2, <1>3, <2>2, <3>1, <3>2, <3>4 DEF Under, q
  <2> QED
    BY <2>1, <2>2
<1> QED
  BY <1>2, <1>3, <1>4, <1>5 DEF WellKept, new

-----------------------------------------------------------------------------
(* Tells alone, in one space.  An id tells its key and version, a version   *)
(* of a key is given once, so a write only ever adds the row it tells; what *)
(* RAM holds is on disk or on its way, and one database error is the only   *)
(* way into the queue.                                                      *)

Told == spaces[Main].thoughts

TellsOnly == \A c \in Clients : calls[c] = Idle \/ calls[c].pc = "persist"

IdsApart == \A t, u \in Told : t.thought_id = u.thought_id => t = u

ChainsRise ==
    \A k \in Keys : LET q == spaces[Main].chains[k] IN
        \A i, j \in DOMAIN q : i < j => q[i].version < q[j].version

RowsTold == \A r \in ada_thoughts : ~r.archived /\ r.thought \in Told

PendingTold ==
    /\ ToSet(persist_queue) \cup ToSet(batch) \subseteq Told
    /\ \A c \in Clients : calls[c].pc = "persist" => calls[c].thought \in Told

QueueMeansFault == persist_queue # << >> \/ batch # << >> => faults >= 1

ToldIsSafe ==
    mode = "up" /\ faults <= 1 => \A t \in Told : OnDisk(t) \/ Pending(t)

\* What RAM and the tables hold, and what is on its way between them.
RamInv == WellKept(spaces[Main]) /\ IdsApart /\ ChainsRise
WayInv == RowsTold /\ PendingTold /\ QueueMeansFault /\ ToldIsSafe

TellsInv == MemInv /\ NewestIsCurrent /\ TellsOnly /\ RamInv /\ WayInv

LEMMA MainOnly ==
    ASSUME OneSpace
    PROVE  /\ \A t \in Thought : t.space_id = Main /\ [t EXCEPT !.space_id = Main] = t
           /\ \A sp \in Spaces : sp = Main
BY DEF OneSpace, Thought

(* A write of a fact that is in RAM adds its row, or finds it there.        *)
LEMMA WriteAdds ==
    ASSUME OneSpace, TellsInv, NEW t \in Told, save_thought(t), Told' = Told
    PROVE  /\ ada_thoughts' = ada_thoughts \cup {[thought |-> t, archived |-> FALSE]}
           /\ NewestIsCurrent' /\ RowsTold'
           /\ OnDisk(t)' /\ \A u : OnDisk(u) => OnDisk(u)'
<1> DEFINE new == [thought |-> t, archived |-> FALSE]
<1>1. t \in Thought /\ Named(t) /\ StoreInv /\ t.space_id = Main
  BY SpaceAssumption, MainOnly
     DEF TellsInv, RamInv, WellKept, MemInv, TypeOK, Store, Told
<1>2. \A r \in ada_thoughts :
         /\ r \in Row /\ r.thought \in Told /\ Named(r.thought) /\ ~r.archived
         /\ r.thought.thought_id = t.thought_id => r = new
  BY <1>1 DEF StoreInv, TablesInv, TablesTypeOK, Row, TellsInv, RamInv, WayInv,
              WellKept, RowsTold, IdsApart, Told
<1>3. ada_thoughts' = ada_thoughts \cup {new}
  BY <1>2 DEF save_thought, RowsExcept
<1>4. RowsNamed
  BY <1>2 DEF RowsNamed
<1>5. NewestIsCurrent'
  BY <1>1, <1>4, SaveNewest DEF TellsInv
<1>6. RowsTold'
  BY <1>2, <1>3 DEF RowsTold
<1>7. new \in Live(t.space_id)' /\ \A sp : Live(sp) \subseteq Live(sp)'
  BY <1>3 DEF Live
<1> QED
  BY <1>3, <1>5, <1>6, <1>7 DEF OnDisk

\* A version of a key is in RAM once.
LEMMA VersionsApart ==
    ASSUME TellsInv, NEW a \in Told, NEW b \in Told,
           a.key = b.key, a.key # NoKey, a.version = b.version
    PROVE  a = b
<1>1. spaces[Main] \in Store
  BY SpaceAssumption DEF TellsInv, MemInv, TypeOK
<1>2. a.key \in Keys /\ a.version \in Nat
  BY <1>1 DEF Told, Store, Thought, MaybeKeys
<1> DEFINE q == spaces[Main].chains[a.key]
<1>3. q \in Seq(Thought) /\ a \in ToSet(q) /\ b \in ToSet(q)
  BY <1>1, <1>2 DEF Store, TellsInv, RamInv, WellKept, Under, Told
<1>4. PICK i \in DOMAIN q, j \in DOMAIN q : q[i] = a /\ q[j] = b
  BY <1>3 DEF ToSet
<1>5. i \in Nat /\ j \in Nat
  BY <1>3
<1>6. ~(i < j) /\ ~(j < i)
  BY <1>2, <1>4 DEF TellsInv, RamInv, ChainsRise
<1> QED
  BY <1>4, <1>5, <1>6

(* A restart finds in RAM exactly the facts of the table.                   *)
LEMMA BootTells ==
    ASSUME OneSpace, TellsInv, Boot, UNCHANGED <<tables, faults, tells>>
    PROVE  TellsOnly' /\ RamInv' /\ WayInv' /\ NewestIsCurrent'
<1>1. PICK main \in LoadedStores(Main) :
         spaces' = [sp \in Spaces |-> IF sp = Main THEN main ELSE EmptyStore]
  BY DEF Boot
<1>2. /\ main \in Store /\ main.thoughts = LoadedThoughts(Main)
      /\ \A k \in Keys :
            LET q == main.chains[k] IN
            /\ ToSet(q) = Under(main.thoughts, k)
            /\ \A i, j \in DOMAIN q :
                  i < j => q[i] # q[j] /\ q[i].version <= q[j].version
  BY Loaded DEF TellsInv, MemInv, StoreInv
<1>3. spaces'[Main] = main
  BY <1>1, SpaceAssumption
<1>4. \A r \in ada_thoughts : r \in Row /\ r.thought \in Thought
  BY DEF TellsInv, MemInv, StoreInv, TablesInv, TablesTypeOK, Row
<1>5. LoadedThoughts(Main) = {r.thought : r \in ada_thoughts}
  BY <1>4, MainOnly DEF LoadedThoughts, Live, TellsInv, WayInv, RowsTold
<1>6. Told' = {r.thought : r \in ada_thoughts} /\ Told' \subseteq Told
  BY <1>2, <1>3, <1>5 DEF Told, TellsInv, WayInv, RowsTold
<1>7. ASSUME NEW k \in Keys, NEW i \in DOMAIN main.chains[k],
             NEW j \in DOMAIN main.chains[k], i < j
      PROVE  main.chains[k][i].version < main.chains[k][j].version
  <2> DEFINE a == main.chains[k][i]
             b == main.chains[k][j]
  <2>1. a # b /\ a.version <= b.version
    BY <1>2, <1>7
  <2>2. a \in Under(main.thoughts, k) /\ b \in Under(main.thoughts, k)
    BY <1>2 DEF ToSet
  <2>3. a \in Told /\ b \in Told /\ a.key = k /\ b.key = k
    BY <1>3, <1>6, <2>2 DEF Under, Told
  <2>4. a.version \in Nat /\ b.version \in Nat
    <3>1. Told \subseteq Thought
      BY SpaceAssumption DEF Told, TellsInv, MemInv, TypeOK, Store
    <3> QED
      BY <2>3, <3>1 DEF Thought
  <2>5. a.version # b.version
    BY <1>7, <2>1, <2>3, VersionsApart, KeyAssumption
  <2> QED
    BY <2>1, <2>4, <2>5
<1>8. WellKept(spaces[Main])'
  <2>1. \A t \in main.thoughts : Named(t) /\ (t.key = NoKey => t.thought_id[2] < tells)
    BY <1>3, <1>6 DEF TellsInv, RamInv, WellKept, Told
  <2>2. \A k \in Keys : Ascending(main.chains[k])
    BY <1>2 DEF Ascending
  <2> QED
    BY <1>2, <1>3, <2>1, <2>2 DEF WellKept
<1>9. IdsApart' /\ ChainsRise'
  BY <1>3, <1>6, <1>7 DEF IdsApart, ChainsRise, TellsInv, RamInv
<1>10. RowsTold' /\ ToldIsSafe'
  <2>1. RowsTold'
    BY <1>6 DEF RowsTold, TellsInv, WayInv, tables
  <2>2. \A t \in Told' : OnDisk(t)'
    BY <1>4, <1>6, MainOnly DEF OnDisk, Live, tables, TellsInv, WayInv, RowsTold
  <2> QED
    BY <2>1, <2>2 DEF ToldIsSafe
<1>11. TellsOnly' /\ PendingTold' /\ QueueMeansFault'
  BY DEF Boot, TellsOnly, PendingTold, QueueMeansFault, Idle, ToSet
<1> QED
  BY <1>8, <1>9, <1>10, <1>11, UnchangedNewest DEF RamInv, WayInv, TellsInv

LEMMA Queued ==
    ASSUME NEW q \in Seq(Thought)
    PROVE  /\ ToSet(<< >>) = {}
           /\ q # << >> => /\ Head(q) \in Thought /\ Tail(q) \in Seq(Thought)
                           /\ ToSet(q) = {Head(q)} \cup ToSet(Tail(q))
<1>1. ToSet(<< >>) = {}
  BY DEF ToSet
<1>2. ASSUME q # << >> PROVE ToSet(q) = {Head(q)} \cup ToSet(Tail(q))
  <2>1. /\ Tail(q) \in Seq(Thought) /\ Len(Tail(q)) = Len(q) - 1 /\ Len(q) \in Nat \ {0}
        /\ \A i \in 1..(Len(q) - 1) : Tail(q)[i] = q[i + 1]
        /\ Head(q) = q[1]
    BY <1>2
  <2>2. ASSUME NEW i \in DOMAIN q PROVE q[i] \in {Head(q)} \cup ToSet(Tail(q))
    <3>1. CASE i = 1
      BY <2>1, <3>1
    <3>2. CASE i # 1
      <4>1. i - 1 \in 1..(Len(q) - 1) /\ (i - 1) + 1 = i
        BY <2>1, <3>2
      <4>2. i - 1 \in DOMAIN Tail(q) /\ Tail(q)[i - 1] = q[i]
        BY <2>1, <4>1
      <4> QED
        BY <4>2 DEF ToSet
    <3> QED
      BY <3>1, <3>2
  <2>3. ASSUME NEW i \in DOMAIN Tail(q) PROVE Tail(q)[i] \in ToSet(q)
    <3>1. i \in 1..(Len(q) - 1) /\ i + 1 \in DOMAIN q
      BY <2>1
    <3> QED
      BY <2>1, <3>1 DEF ToSet
  <2>4. Head(q) \in ToSet(q)
    BY <2>1 DEF ToSet
  <2> QED
    BY <2>2, <2>3, <2>4 DEF ToSet
<1> QED
  BY <1>1, <1>2

LEMMA NoHandlerRuns ==
    ASSUME TellsOnly, Handlers = {}, NEW c \in Clients
    PROVE  ~MemoryMaintain(c) /\ ~ReloadRead(c) /\ ~ReloadSwap(c)
<1>1. calls[c].pc \in {"idle", "persist"}
  BY DEF TellsOnly, Idle
<1> QED
  BY <1>1 DEF MemoryMaintain, Maintain, MaintenanceFails, ForgetByKey, ForgetById,
              ForgetByEntity, ForgetAll, ArchiveCommit, ForgetCommit, AmendCommit,
              ArchiveSelect, AmendStart, ReloadRead, ReloadSwap

\* Nothing in RAM changes.
LEMMA RamStays ==
    ASSUME RamInv, UNCHANGED <<spaces, tells>>
    PROVE  RamInv' /\ Told' = Told
BY DEF RamInv, WellKept, IdsApart, ChainsRise, Told

\* Nothing on disk changes.
LEMMA DiskStays ==
    ASSUME TellsInv, UNCHANGED tables, Told \subseteq Told'
    PROVE  /\ NewestIsCurrent' /\ RowsTold'
           /\ \A u : OnDisk(u) => OnDisk(u)'
BY UnchangedNewest DEF TellsInv, WayInv, RowsTold, OnDisk, Live, tables

LEMMA TellKeeps ==
    ASSUME OneSpace, TellsInv, NEW c \in Clients, NEW sp \in Spaces, NEW f \in Facts,
           NEW k \in MaybeKeys, Tell(c, sp, f, k)
    PROVE  TellsOnly' /\ RamInv' /\ WayInv' /\ NewestIsCurrent'
<1>1. PICK t : t = NewThought(Main, f, k)
  OBVIOUS
<1>2. /\ calls[c] = Idle
      /\ calls' = [calls EXCEPT ![c] = [pc |-> "persist", thought |-> t]]
      /\ spaces' = [spaces EXCEPT ![Main] = Remember(@, t)]
      /\ tells' = tells + 1
      /\ UNCHANGED <<tables, faults, persist_queue, batch, mode>>
  BY <1>1, MainOnly DEF Tell, Begin
<1>3. /\ TypeOK /\ WellKept(spaces[Main]) /\ calls \in [Clients -> Call]
      /\ spaces[Main] \in Store
  BY SpaceAssumption DEF TellsInv, RamInv, MemInv, TypeOK
<1>4. WellKept(spaces[Main])' /\ Told' = Told \cup {t}
  <2>1. /\ tells' = tells + 1
        /\ spaces' = [spaces EXCEPT ![Main] = Remember(@, t)]
    BY <1>2
  <2>2. /\ WellKept(spaces[Main])'
        /\ spaces'[Main].thoughts = spaces[Main].thoughts \cup {t}
    BY <1>1, <1>3, <2>1, KeptAfterTell
  <2> QED
    BY <2>2 DEF Told
<1>5. /\ t \in Thought
      /\ t.key = k
      /\ \A u \in Told :
            /\ u.thought_id # t.thought_id
            /\ u.key = k /\ k # NoKey => u.version < t.version
  BY <1>1, <1>3, ToldAnew DEF Told
<1>6. IdsApart'
  <2>1. \A u, v \in Told : u.thought_id = v.thought_id => u = v
    BY DEF IdsApart, TellsInv, RamInv
  <2> QED
    BY <1>4, <1>5, <2>1 DEF IdsApart
<1>7. ChainsRise'
  <2>1. \A x \in Keys :
           spaces'[Main].chains[x] = IF x = k THEN Append(spaces[Main].chains[x], t)
                                              ELSE spaces[Main].chains[x]
    BY <1>2, <1>3, <1>5, SpaceAssumption, Remembered DEF Told, TellsInv, MemInv, TypeOK
  <2>2. ASSUME NEW x \in Keys
        PROVE  LET p == spaces'[Main].chains[x] IN
               \A i, j \in DOMAIN p : i < j => p[i].version < p[j].version
    <3>1. CASE x # k
      BY <2>1, <3>1 DEF TellsInv, RamInv, ChainsRise
    <3>2. CASE x = k
      <4> DEFINE q == spaces[Main].chains[k]
      <4>1. q \in Seq(Thought) /\ ToSet(q) = Under(Told, k)
        BY <1>3, <3>2 DEF Store, WellKept, Told
      <4>2. \A i, j \in DOMAIN q : i < j => q[i].version < q[j].version
        BY <3>2 DEF TellsInv, RamInv, ChainsRise
      <4>3. \A i \in DOMAIN q : q[i].version < t.version
        <5>1. \A i \in DOMAIN q : q[i] \in Under(Told, k)
          BY <4>1 DEF ToSet
        <5> QED
          BY <1>5, <3>2, <5>1, KeyAssumption DEF Under
      <4> HIDE DEF q
      <4>4. \A i \in DOMAIN Append(q, t) :
              \/ i \in DOMAIN q /\ Append(q, t)[i] = q[i]
              \/ i = Len(q) + 1 /\ Append(q, t)[i] = t
        BY <1>5, <4>1, Appended
      <4>5. Len(q) \in Nat /\ \A i \in DOMAIN q : i \in Nat /\ i < Len(q) + 1
        BY <4>1
      <4>6. \A i, j \in DOMAIN Append(q, t) :
               i < j => Append(q, t)[i].version < Append(q, t)[j].version
        BY <4>2, <4>3, <4>4, <4>5
      <4> QED
        BY <2>1, <3>2, <4>6 DEF q
    <3> QED
      BY <3>1, <3>2
  <2> QED
    BY <2>2 DEF ChainsRise
<1>8. /\ calls'[c].pc = "persist" /\ calls'[c].thought = t
      /\ \A d \in Clients : d # c => calls'[d] = calls[d]
  BY <1>2, <1>3
<1>9. TellsOnly' /\ PendingTold' /\ QueueMeansFault'
  BY <1>2, <1>4, <1>8
     DEF TellsInv, WayInv, TellsOnly, PendingTold, QueueMeansFault, ToSet
<1>10. Pending(t)' /\ \A u : Pending(u) => Pending(u)'
  BY <1>2, <1>8 DEF Pending, Idle, ToSet
<1>11. NewestIsCurrent' /\ RowsTold' /\ \A u : OnDisk(u) => OnDisk(u)'
  BY <1>2, <1>4, DiskStays
<1>12. ToldIsSafe'
  BY <1>2, <1>4, <1>10, <1>11 DEF ToldIsSafe, TellsInv, WayInv
<1> QED
  BY <1>4, <1>6, <1>7, <1>9, <1>11, <1>12 DEF RamInv, WayInv

LEMMA TellsStep ==
    ASSUME OneSpace, Handlers = {}, TellsInv, [Next]_vars
    PROVE  TellsInv' /\ ada_thoughts \subseteq ada_thoughts'
<1> DEFINE Kept == TellsOnly' /\ RamInv' /\ WayInv' /\ NewestIsCurrent'
           Goal == Kept /\ ada_thoughts \subseteq ada_thoughts'
<1>1. /\ TypeOK /\ RamInv /\ TellsOnly /\ PendingTold /\ QueueMeansFault /\ ToldIsSafe
      /\ calls \in [Clients -> Call] /\ faults \in Nat
      /\ persist_queue \in Seq(Thought) /\ batch \in Seq(Thought)
  BY DEF TellsInv, WayInv, MemInv, TypeOK
<1>2. MemInv'
  BY MemStep DEF TellsInv
<1>3. SUFFICES Goal
  BY <1>2 DEF TellsInv
<1>4. UNCHANGED <<tables, spaces, tells>> =>
        /\ RamInv' /\ Told' = Told /\ NewestIsCurrent' /\ RowsTold'
        /\ \A u : OnDisk(u) => OnDisk(u)'
        /\ ada_thoughts' = ada_thoughts
  BY RamStays, DiskStays DEF TellsInv, tables
<1>5. ASSUME NEW t \in Told, save_thought(t), UNCHANGED <<spaces, tells>>
      PROVE  /\ RamInv' /\ Told' = Told /\ NewestIsCurrent' /\ RowsTold'
             /\ OnDisk(t)' /\ \A u : OnDisk(u) => OnDisk(u)'
             /\ ada_thoughts \subseteq ada_thoughts'
  BY <1>5, WriteAdds, RamStays DEF TellsInv
<1>6. ASSUME NEW c \in Clients, NEW sp \in Spaces, NEW f \in Facts,
             NEW k \in MaybeKeys, Tell(c, sp, f, k)
      PROVE  Goal
  BY <1>6, TellKeeps DEF Tell, tables
<1>7. ASSUME NEW c \in Clients, Persist(c) PROVE Goal
  <2>1. /\ calls[c].thought \in Told /\ save_thought(calls[c].thought)
        /\ calls' = [calls EXCEPT ![c] = Idle]
        /\ UNCHANGED <<faults, spaces, persist_queue, batch, mode, tells>>
    BY <1>1, <1>7 DEF Persist, Resume, PendingTold, ramVars, boundVars
  <2>2. \A d \in Clients : calls'[d] = IF d = c THEN Idle ELSE calls[d]
    BY <1>1, <2>1
  <2>3. TellsOnly' /\ PendingTold' /\ QueueMeansFault'
    BY <1>1, <1>5, <2>1, <2>2 DEF TellsOnly, PendingTold, QueueMeansFault, Idle, ToSet
  <2>4. \A u : Pending(u) => Pending(u)' \/ u = calls[c].thought
    BY <2>1, <2>2 DEF Pending, ToSet
  <2>5. ToldIsSafe'
    BY <1>1, <1>5, <2>1, <2>4 DEF ToldIsSafe
  <2> QED
    BY <1>5, <2>1, <2>3, <2>5 DEF WayInv
<1>8. ASSUME NEW c \in Clients, PersistFails(c) PROVE Goal
  <2>1. /\ calls[c].thought \in Told /\ calls[c].thought \in Thought
        /\ calls[c].pc = "persist" /\ faults' = faults + 1
        /\ persist_queue' = Append(persist_queue, calls[c].thought)
        /\ calls' = [calls EXCEPT ![c] = Idle]
        /\ UNCHANGED <<tables, spaces, batch, mode, tells>>
    BY <1>1, <1>8, PersistCall DEF PersistFails, Fault, Resume, PendingTold, boundVars
  <2>2. \A d \in Clients : calls'[d] = IF d = c THEN Idle ELSE calls[d]
    BY <1>1, <2>1
  <2>3. ToSet(persist_queue)' = ToSet(persist_queue) \cup {calls[c].thought}
    <3>1. ToSet(Append(persist_queue, calls[c].thought))
            = ToSet(persist_queue) \cup {calls[c].thought}
      BY <1>1, <2>1, Appended
    <3> QED
      BY <2>1, <3>1 DEF ToSet
  <2>4. ToSet(batch)' = ToSet(batch)
    BY <2>1 DEF ToSet
  <2>5. TellsOnly' /\ PendingTold' /\ QueueMeansFault'
    BY <1>1, <1>4, <2>1, <2>2, <2>3, <2>4
       DEF TellsOnly, PendingTold, QueueMeansFault, Idle
  <2>6. \A u : Pending(u) => Pending(u)'
    BY <2>1, <2>2, <2>3, <2>4 DEF Pending
  <2>7. ToldIsSafe'
    BY <1>1, <1>4, <2>1, <2>6 DEF ToldIsSafe
  <2> QED
    BY <1>4, <2>1, <2>5, <2>7 DEF WayInv
<1>9. CASE FlushTake
  <2>1. /\ batch = << >> /\ batch' = persist_queue /\ persist_queue' = << >>
        /\ UNCHANGED <<tables, calls, faults, spaces, mode, tells>>
    BY <1>9 DEF FlushTake, boundVars
  <2>2. /\ ToSet(batch) = {} /\ ToSet(batch)' = ToSet(persist_queue)
        /\ ToSet(persist_queue)' = {}
    BY <2>1 DEF ToSet
  <2>3. TellsOnly' /\ PendingTold' /\ QueueMeansFault'
    BY <1>1, <1>4, <1>9, <2>1, <2>2 DEF FlushTake, TellsOnly, PendingTold, QueueMeansFault
  <2>4. ToldIsSafe'
    BY <1>1, <1>4, <2>1, <2>2 DEF ToldIsSafe, Pending
  <2> QED
    BY <1>4, <2>1, <2>3, <2>4 DEF WayInv
<1>10. CASE FlushSave
  <2>1. /\ batch # << >> /\ batch' = Tail(batch) /\ save_thought(Head(batch))
        /\ UNCHANGED <<calls, faults, spaces, persist_queue, mode, tells>>
    BY <1>10 DEF FlushSave, boundVars
  <2>2. /\ ToSet(batch) = {Head(batch)} \cup ToSet(batch)'
        /\ ToSet(persist_queue)' = ToSet(persist_queue)
    <3>1. ToSet(batch) = {Head(batch)} \cup ToSet(Tail(batch))
      BY <1>1, <2>1, Queued
    <3> QED
      BY <2>1, <3>1 DEF ToSet
  <2>3. Head(batch) \in Told
    BY <1>1, <2>2 DEF PendingTold
  <2>4. TellsOnly' /\ PendingTold' /\ QueueMeansFault'
    BY <1>1, <1>5, <2>1, <2>2, <2>3 DEF TellsOnly, PendingTold, QueueMeansFault
  <2>5. \A u : Pending(u) => Pending(u)' \/ u = Head(batch)
    BY <2>1, <2>2 DEF Pending
  <2>6. ToldIsSafe'
    BY <1>1, <1>5, <2>1, <2>3, <2>5 DEF ToldIsSafe
  <2> QED
    BY <1>5, <2>1, <2>3, <2>4, <2>6 DEF WayInv
<1>11. CASE FlushFails
  <2>1. /\ batch # << >> /\ batch' = Tail(batch) /\ faults' = faults + 1
        /\ UNCHANGED <<tables, calls, spaces, persist_queue, mode, tells>>
    BY <1>11 DEF FlushFails, Fault, boundVars
  <2>2. /\ ToSet(batch)' \subseteq ToSet(batch)
        /\ ToSet(persist_queue)' = ToSet(persist_queue)
    <3>1. ToSet(batch) = {Head(batch)} \cup ToSet(Tail(batch))
      BY <1>1, <2>1, Queued
    <3> QED
      BY <2>1, <3>1 DEF ToSet
  <2>3. TellsOnly' /\ PendingTold' /\ QueueMeansFault'
    BY <1>1, <1>4, <2>1, <2>2 DEF TellsOnly, PendingTold, QueueMeansFault
  <2>4. ToldIsSafe'
    BY <1>1, <2>1 DEF ToldIsSafe, QueueMeansFault
  <2> QED
    BY <1>4, <2>1, <2>3, <2>4 DEF WayInv
<1>12. CASE Crash \/ Restart
  BY <1>12, BootTells DEF Crash, Restart, tables
<1>13. CASE Shutdown
  <2>1. /\ batch' = persist_queue /\ persist_queue' = << >> /\ mode' = "stopping"
        /\ UNCHANGED <<tables, calls, faults, spaces, tells>>
    BY <1>13 DEF Shutdown, boundVars
  <2>2. ToSet(batch)' = ToSet(persist_queue) /\ ToSet(persist_queue)' = {}
    BY <2>1 DEF ToSet
  <2>3. TellsOnly' /\ PendingTold' /\ QueueMeansFault' /\ ToldIsSafe'
    BY <1>1, <1>4, <2>1, <2>2
       DEF TellsOnly, PendingTold, QueueMeansFault, ToldIsSafe
  <2> QED
    BY <1>4, <2>1, <2>3 DEF WayInv
<1>14. CASE Tick \/ UNCHANGED vars
  <2>1. UNCHANGED <<tables, calls, faults, spaces, persist_queue, batch, mode, tells>>
    BY <1>14 DEF Tick, vars, tables, ramVars
  <2>2. /\ TellsOnly' /\ PendingTold' /\ QueueMeansFault'
        /\ \A u : Pending(u) => Pending(u)'
    BY <1>1, <1>4, <2>1 DEF TellsOnly, PendingTold, QueueMeansFault, Pending, ToSet
  <2>3. ToldIsSafe'
    BY <1>1, <1>4, <2>1, <2>2 DEF ToldIsSafe
  <2> QED
    BY <1>4, <2>1, <2>2, <2>3 DEF WayInv
<1> QED
  BY <1>1, <1>6, <1>7, <1>8, <1>9, <1>10, <1>11, <1>12, <1>13, <1>14, NoHandlerRuns
     DEF Next

LEMMA InitTells ==
    ASSUME Init
    PROVE  TellsInv
<1>1. /\ spaces[Main] = EmptyStore /\ EmptyStore.thoughts = {}
      /\ \A k \in Keys : EmptyStore.chains[k] = << >>
  BY SpaceAssumption DEF Init, EmptyStore
<1>2. RamInv
  BY <1>1 DEF RamInv, WellKept, IdsApart, ChainsRise, Told, Ascending, Under, ToSet
<1>3. NewestIsCurrent /\ TellsOnly /\ WayInv
  BY <1>1 DEF Init, NewestIsCurrent, TellsOnly, WayInv, RowsTold, PendingTold,
              QueueMeansFault, ToldIsSafe, Told, Idle, ToSet
<1> QED
  BY <1>2, <1>3, InitMem DEF TellsInv

LEMMA TellsInductive ==
    ASSUME OneSpace, Handlers = {}
    PROVE  /\ Init => TellsInv
           /\ TellsInv /\ [Next]_vars => TellsInv'
           /\ TellsInv /\ [Next]_vars => ada_thoughts \subseteq ada_thoughts'
BY InitTells, TellsStep

LEMMA TellsImply ==
    ASSUME OneSpace, TellsInv
    PROVE  NothingToldIsLost /\ DiskIsInRam /\ ChainsInOrder /\ NewestIsCurrent
<1>1. spaces[Main] \in Store
  BY SpaceAssumption DEF TellsInv, MemInv, TypeOK
<1>2. NothingToldIsLost
  <2>1. \A t \in Told : [t EXCEPT !.space_id = Main] = t
    BY <1>1, MainOnly DEF Told, Store
  <2> QED
    BY <2>1 DEF NothingToldIsLost, TellsInv, WayInv, ToldIsSafe, Told
<1>3. DiskIsInRam
  BY DEF DiskIsInRam, Live, TellsInv, WayInv, RowsTold, Told
<1>4. ChainsInOrder
  <2>1. ASSUME NEW r \in ada_thoughts, NEW q \in ada_thoughts,
               r.thought.key # NoKey, r.thought.key = q.thought.key,
               r.thought.version = q.thought.version
        PROVE  r = q
    <3>1. r.thought = q.thought
      BY <2>1, VersionsApart DEF TellsInv, WayInv, RowsTold
    <3> QED
      BY <3>1 DEF TellsInv, MemInv, StoreInv, TablesInv, PrimaryKey
  <2> QED
    BY <2>1, MainOnly DEF ChainsInOrder, TellsInv, RamInv, ChainsRise
<1> QED
  BY <1>2, <1>3, <1>4 DEF TellsInv

-----------------------------------------------------------------------------
(* Write-through with its queue: as long as the process runs and at most    *)
(* one database error happened, every fact a read may answer from RAM is on *)
(* disk, in a write-through, in the queue or in the worker's batch.         *)
THEOREM TellsLoseNothing ==
    ASSUME OneSpace, Handlers = {}
    PROVE  Spec => []NothingToldIsLost
<1>1. TellsInv => NothingToldIsLost
  BY TellsImply
<1> QED
  BY <1>1, TellsInductive, PTL DEF Spec

(* A fact on disk is in RAM, whatever tells interleave, however late the    *)
(* worker flushes, and after any restart.                                   *)
THEOREM DiskIsReadable ==
    ASSUME OneSpace, Handlers = {}
    PROVE  Spec => []DiskIsInRam
<1>1. TellsInv => DiskIsInRam
  BY TellsImply
<1> QED
  BY <1>1, TellsInductive, PTL DEF Spec

(* The chains in RAM stay strictly ordered and no version of a key is       *)
(* stored twice, whichever writes failed, came late or were cut off.        *)
THEOREM VersionsNeverCollide ==
    ASSUME OneSpace, Handlers = {}
    PROVE  Spec => []ChainsInOrder
<1>1. TellsInv => ChainsInOrder
  BY TellsImply
<1> QED
  BY <1>1, TellsInductive, PTL DEF Spec

(* Late flushes and retried writes never take the answer of the closed      *)
(* operations from the newest version on disk.                              *)
THEOREM MemNewestAnswers ==
    ASSUME OneSpace, Handlers = {}
    PROVE  Spec => []NewestIsCurrent
<1>1. TellsInv => NewestIsCurrent
  BY TellsImply
<1> QED
  BY <1>1, TellsInductive, PTL DEF Spec

(* No tell, flush or restart overwrites or removes a row: two facts never   *)
(* meet in one id.                                                          *)
THEOREM TellsNeverOverwrite ==
    ASSUME OneSpace, Handlers = {}
    PROVE  Spec => TellsOnlyAdd
<1>1. TellsInv /\ [Next]_vars => [ada_thoughts \subseteq ada_thoughts']_vars
  BY TellsInductive
<1> QED
  BY <1>1, TellsInductive, PTL DEF Spec, TellsOnlyAdd

-----------------------------------------------------------------------------
(* One client and no database error.  RAM and the disk differ only by the   *)
(* fact a write-through carries; from the commit of a handler to the swap   *)
(* of the store it reloads, what RAM holds does not matter.                 *)

LiveFacts == {r.thought : r \in Live(Main)}

MirrorsLive(store) ==
    /\ store.thoughts = LiveFacts
    /\ store.absorbed = {Norm[t.content] : t \in LiveFacts}
    /\ WellKept(store)

\* RAM is one fact ahead of the disk, and no live row has the id of that fact.
Ahead(t) ==
    /\ spaces[Main].thoughts = LiveFacts \cup {t}
    /\ spaces[Main].absorbed = {Norm[u.content] : u \in LiveFacts} \cup {Norm[t.content]}
    /\ WellKept(spaces[Main])
    /\ \A u \in LiveFacts : u.thought_id # t.thought_id

RowsUsed ==
    \A r \in ada_thoughts :
        Named(r.thought) /\ (r.thought.key = NoKey => r.thought.thought_id[2] < tells)

Phase(call) ==
    /\ call.pc \in {"idle", "archive", "forget", "amend"} => MirrorsLive(spaces[Main])
    /\ call.pc = "persist" => Ahead(call.thought)
    /\ call.pc = "swap" => MirrorsLive(call.fresh)

SerialInv ==
    /\ MemInv /\ RowsUsed
    /\ persist_queue = << >> /\ batch = << >> /\ faults = 0
    /\ \A c \in Clients : Phase(calls[c])

\* A store read from the tables as they are mirrors them.
LEMMA LoadedMirrors ==
    ASSUME OneSpace, MemInv, RowsUsed, NEW fresh \in LoadedStores(Main)
    PROVE  MirrorsLive(fresh)
<1>1. /\ fresh.thoughts = LoadedThoughts(Main)
      /\ fresh.absorbed = {Norm[t.content] : t \in fresh.thoughts}
      /\ \A k \in Keys :
            LET q == fresh.chains[k] IN
            /\ ToSet(q) = Under(fresh.thoughts, k)
            /\ \A i, j \in DOMAIN q :
                  i < j => q[i] # q[j] /\ q[i].version <= q[j].version
  BY Loaded DEF MemInv, StoreInv
<1>2. \A r \in Live(Main) : r \in ada_thoughts /\ r.thought \in Thought
  BY DEF Live, MemInv, StoreInv, TablesInv, TablesTypeOK, Row
<1>3. LoadedThoughts(Main) = LiveFacts
  BY <1>2, MainOnly DEF LoadedThoughts, LiveFacts
<1>4. \A t \in LiveFacts : Named(t) /\ (t.key = NoKey => t.thought_id[2] < tells)
  BY <1>2 DEF LiveFacts, RowsUsed
<1>5. \A k \in Keys : Ascending(fresh.chains[k])
  BY <1>1 DEF Ascending
<1> QED
  BY <1>1, <1>3, <1>4, <1>5 DEF MirrorsLive, WellKept

LEMMA BootMirrors ==
    ASSUME OneSpace, MemInv, RowsUsed, Boot, UNCHANGED <<tables, tells>>
    PROVE  /\ MirrorsLive(spaces[Main])'
           /\ persist_queue' = << >> /\ batch' = << >>
           /\ \A c \in Clients : calls'[c] = Idle
<1>1. PICK main \in LoadedStores(Main) :
         spaces' = [sp \in Spaces |-> IF sp = Main THEN main ELSE EmptyStore]
  BY DEF Boot
<1>2. MirrorsLive(main) /\ spaces'[Main] = main
  BY <1>1, SpaceAssumption, LoadedMirrors
<1>3. MirrorsLive(spaces[Main])'
  BY <1>2 DEF MirrorsLive, LiveFacts, Live, WellKept, tables
<1> QED
  BY <1>3 DEF Boot

\* Archive, forget, amend and wipe leave used uuids and names as they were.
LEMMA MaintainUsed ==
    ASSUME MemInv, RowsUsed, NEW c, Maintain(c), tells' = tells
    PROVE  RowsUsed'
<1>1. StoreInv
  BY DEF MemInv
<1>2. ada_thoughts' \subseteq ada_thoughts => RowsUsed'
  BY DEF RowsUsed
<1>3. \A sp, ids : ForgetSelect(c, sp, ids) => ada_thoughts' = ada_thoughts
  BY DEF ForgetSelect, tables
<1>4. \A sp : ForgetAll(c, sp) => ada_thoughts' \subseteq ada_thoughts
  BY DEF ForgetAll, delete_space
<1>5. CASE ArchiveCommit(c)
  BY <1>1, <1>5, ArchivedRows DEF ArchiveCommit, RowsUsed
<1>6. CASE ForgetCommit(c)
  BY <1>2, <1>6 DEF ForgetCommit, delete_rows, RowsExcept
<1>7. CASE AmendCommit(c)
  <2>1. ASSUME NEW r \in ada_thoughts, NEW text, NEW facts, amend_thought(r, text, facts)
        PROVE  RowsUsed'
    <3>1. \A q \in ada_thoughts' : \E p \in ada_thoughts :
             /\ p.thought.thought_id = q.thought.thought_id
             /\ p.thought.key = q.thought.key
             /\ p.thought.version = q.thought.version
      BY <1>1, <2>1, AmendedRows
    <3> QED
      BY <3>1 DEF RowsUsed, Named
  <2> QED
    BY <1>2, <1>7, <2>1 DEF AmendCommit, tables
<1> QED
  BY <1>2, <1>3, <1>4, <1>5, <1>6, <1>7
     DEF Maintain, ForgetByKey, ForgetById, ForgetByEntity

(* A handler goes from an idle client to a selection, or from a selection    *)
(* to a reload; only an amend that finds nothing goes back to idle, and it  *)
(* leaves the tables alone.                                                 *)
LEMMA MaintainPhase ==
    ASSUME MemInv, NEW c \in Clients, Clients = {c}, Phase(calls[c]), Maintain(c),
           UNCHANGED <<spaces, tells>>
    PROVE  Phase(calls[c])'
<1>1. calls \in [Clients -> Call]
  BY DEF MemInv, TypeOK
<1>2. UNCHANGED tables /\ MirrorsLive(spaces[Main]) => MirrorsLive(spaces[Main])'
  BY DEF MirrorsLive, LiveFacts, Live, WellKept, tables
<1>3. ASSUME NEW sp, NEW ids, ForgetSelect(c, sp, ids) PROVE Phase(calls[c])'
  <2>1. calls[c].pc = "idle" /\ calls'[c].pc = "forget" /\ UNCHANGED tables
    BY <1>1, <1>3 DEF ForgetSelect, Begin, Idle
  <2> QED
    BY <1>2, <2>1 DEF Phase
<1>4. ASSUME NEW sp, Begin(c, Reload(sp)) \/ Resume(c, Reload(sp))
      PROVE  Phase(calls[c])'
  <2>1. calls'[c].pc = "reload"
    BY <1>1, <1>4 DEF Begin, Resume, Reload
  <2> QED
    BY <2>1 DEF Phase
<1>5. CASE AmendCommit(c) /\ Resume(c, Idle) /\ UNCHANGED tables
  <2>1. calls[c].pc = "amend" /\ calls'[c].pc = "idle"
    BY <1>1, <1>5 DEF AmendCommit, Resume, Idle
  <2> QED
    BY <1>2, <1>5, <2>1 DEF Phase
<1> QED
  BY <1>3, <1>4, <1>5
     DEF Maintain, ForgetByKey, ForgetById, ForgetByEntity, ForgetAll,
         ArchiveCommit, ForgetCommit, AmendCommit

LEMMA TellAhead ==
    ASSUME OneSpace, MemInv, RowsUsed, NEW c \in Clients, Clients = {c}, Phase(calls[c]),
           NEW sp \in Spaces, NEW f \in Facts, NEW k \in MaybeKeys, Tell(c, sp, f, k)
    PROVE  Phase(calls[c])' /\ RowsUsed'
<1>1. PICK t : t = NewThought(Main, f, k)
  OBVIOUS
<1>2. /\ calls[c] = Idle
      /\ calls' = [calls EXCEPT ![c] = [pc |-> "persist", thought |-> t]]
      /\ spaces' = [spaces EXCEPT ![Main] = Remember(@, t)]
      /\ tells' = tells + 1
      /\ UNCHANGED tables
  BY <1>1, MainOnly DEF Tell, Begin
<1>3. TypeOK /\ calls \in [Clients -> Call] /\ MirrorsLive(spaces[Main]) /\ tells \in Nat
  BY <1>2 DEF MemInv, TypeOK, Phase, Idle
<1>4. WellKept(spaces[Main])
  BY <1>3 DEF MirrorsLive
<1>5. /\ WellKept(spaces[Main])'
      /\ spaces'[Main].thoughts = spaces[Main].thoughts \cup {t}
      /\ spaces'[Main].absorbed = spaces[Main].absorbed \cup {Norm[t.content]}
  <2>1. /\ tells' = tells + 1
        /\ spaces' = [spaces EXCEPT ![Main] = Remember(@, t)]
    BY <1>2
  <2> QED
    BY <1>1, <1>3, <1>4, <2>1, KeptAfterTell
<1>6. \A u \in spaces[Main].thoughts : u.thought_id # t.thought_id
  BY <1>1, <1>3, <1>4, ToldAnew
<1>7. LiveFacts' = LiveFacts
  BY <1>2 DEF LiveFacts, Live, tables
<1>8. Ahead(t)'
  BY <1>3, <1>5, <1>6, <1>7 DEF Ahead, MirrorsLive
<1>9. calls'[c] = [pc |-> "persist", thought |-> t]
  BY <1>2, <1>3
<1>10. Phase(calls[c])'
  BY <1>8, <1>9 DEF Phase
<1>11. RowsUsed'
  <2>1. \A r \in ada_thoughts : r.thought.thought_id[2] \in Nat
    BY DEF MemInv, StoreInv, TablesInv, TablesTypeOK, Row, Thought, ThoughtId
  <2> QED
    BY <1>2, <1>3, <2>1 DEF RowsUsed, tables
<1> QED
  BY <1>10, <1>11

LEMMA PersistCatchesUp ==
    ASSUME OneSpace, MemInv, RowsUsed, NEW c \in Clients, Clients = {c}, Phase(calls[c]),
           Persist(c)
    PROVE  Phase(calls[c])' /\ RowsUsed'
<1>1. PICK t \in Thought : t = calls[c].thought
  BY PersistCall DEF MemInv, TypeOK, Persist
<1>2. /\ calls \in [Clients -> Call] /\ calls[c].pc = "persist" /\ save_thought(t)
      /\ calls' = [calls EXCEPT ![c] = Idle] /\ UNCHANGED <<spaces, tells>>
  BY <1>1 DEF Persist, Resume, ramVars, boundVars, MemInv, TypeOK
<1>3. Ahead(t)
  BY <1>1, <1>2 DEF Phase
<1>4. Named(t) /\ (t.key = NoKey => t.thought_id[2] < tells)
  BY <1>3 DEF Ahead, WellKept
<1>5. RowsUsed'
  BY <1>2, <1>4 DEF RowsUsed, save_thought, RowsExcept
<1>6. LiveFacts' = LiveFacts \cup {t}
  <2> DEFINE new == [thought |-> t, archived |-> FALSE]
  <2>1. t.space_id = Main
    BY MainOnly
  <2>2. \A r \in Live(Main) : r \in RowsExcept({t.thought_id})
    BY <1>3 DEF Ahead, LiveFacts, Live, RowsExcept
  <2>3. Live(Main)' = Live(Main) \cup {new}
    BY <1>2, <2>1, <2>2 DEF Live, save_thought, RowsExcept
  <2>4. new.thought = t
    OBVIOUS
  <2> HIDE DEF new
  <2> QED
    BY <2>3, <2>4 DEF LiveFacts
<1>7. MirrorsLive(spaces[Main])'
  BY <1>2, <1>3, <1>6 DEF MirrorsLive, Ahead, WellKept
<1>8. calls'[c] = Idle
  BY <1>2
<1> QED
  BY <1>5, <1>7, <1>8 DEF Phase, Idle

LEMMA SerialStep ==
    ASSUME OneSpace, MaxFaults = 0, NEW c \in Clients, Clients = {c},
           SerialInv, [Next]_vars
    PROVE  SerialInv'
<1> DEFINE Empty == persist_queue' = << >> /\ batch' = << >> /\ faults' = 0
           Goal == RowsUsed' /\ Empty /\ Phase(calls[c])'
<1>1. /\ MemInv /\ RowsUsed /\ Phase(calls[c]) /\ calls \in [Clients -> Call]
      /\ persist_queue = << >> /\ batch = << >> /\ faults = 0
  BY DEF SerialInv, MemInv, TypeOK
<1>2. MemInv'
  BY MemStep DEF SerialInv
<1>3. SUFFICES Goal
  BY <1>2 DEF SerialInv
<1>4. ~Fault
  BY <1>1 DEF Fault
<1>5. UNCHANGED <<tables, spaces, tells>> =>
        /\ RowsUsed'
        /\ MirrorsLive(spaces[Main]) => MirrorsLive(spaces[Main])'
  BY <1>1 DEF RowsUsed, MirrorsLive, LiveFacts, Live, WellKept, tables
<1>6. UNCHANGED <<tables, spaces, tells, calls>> => Phase(calls[c])'
  <2>1. SUFFICES ASSUME UNCHANGED <<tables, spaces, tells, calls>>
                 PROVE  Phase(calls[c])'
    OBVIOUS
  <2>2. \A store : MirrorsLive(store) => MirrorsLive(store)'
    BY <2>1 DEF MirrorsLive, LiveFacts, Live, WellKept, tables
  <2>3. \A t : Ahead(t) => Ahead(t)'
    BY <2>1 DEF Ahead, LiveFacts, Live, WellKept, tables
  <2> QED
    BY <1>1, <2>1, <2>2, <2>3 DEF Phase
<1>7. ASSUME NEW sp \in Spaces, NEW f \in Facts, NEW k \in MaybeKeys, Tell(c, sp, f, k)
      PROVE  Goal
  BY <1>1, <1>7, TellAhead DEF Tell
<1>8. CASE Persist(c)
  BY <1>1, <1>8, PersistCatchesUp DEF Persist, ramVars
<1>9. CASE MemoryMaintain(c)
  <2>1. UNCHANGED <<spaces, persist_queue, batch, tells>>
    BY <1>9 DEF MemoryMaintain, ramVars, boundVars
  <2>2. ASSUME NEW call, Begin(c, call), call.pc \in {"archive", "amend"},
               UNCHANGED <<tables, faults>>
        PROVE  Goal
    <3>1. calls[c].pc = "idle" /\ calls'[c] = call
      BY <1>1, <2>2 DEF Begin, Idle
    <3> QED
      BY <1>1, <1>5, <2>1, <2>2, <3>1 DEF Phase
  <2>3. CASE Maintain(c)
    <3>1. UNCHANGED faults
      BY <2>3 DEF Maintain, ForgetByKey, ForgetById, ForgetByEntity, ForgetSelect,
                  ForgetAll, ArchiveCommit, ForgetCommit, AmendCommit
    <3> QED
      BY <1>1, <2>1, <2>3, <3>1, MaintainUsed, MaintainPhase
  <2>4. ~MaintenanceFails(c)
    BY <1>4 DEF MaintenanceFails
  <2>5. ASSUME NEW sp, NEW names, ArchiveSelect(c, sp, names) PROVE Goal
    BY <2>2, <2>5 DEF ArchiveSelect
  <2>6. ASSUME NEW sp, NEW id, NEW change, AmendStart(c, sp, id, change) PROVE Goal
    BY <2>2, <2>6 DEF AmendStart
  <2> QED
    BY <1>9, <2>3, <2>4, <2>5, <2>6 DEF MemoryMaintain
<1>10. CASE ReloadRead(c)
  <2>1. calls[c].space = Main
    BY <1>1, <1>10, ReloadCall, MainOnly DEF ReloadRead
  <2>2. PICK fresh \in LoadedStores(Main) :
           calls' = [calls EXCEPT ![c] = [pc |-> "swap", space |-> Main, fresh |-> fresh]]
    BY <1>10, <2>1 DEF ReloadRead, Resume
  <2>3. MirrorsLive(fresh) /\ UNCHANGED <<tables, faults, spaces, tells, persist_queue, batch>>
    BY <1>1, <1>10, LoadedMirrors DEF ReloadRead, ramVars, boundVars
  <2>4. MirrorsLive(fresh)'
    BY <2>3 DEF MirrorsLive, LiveFacts, Live, WellKept, tables
  <2>5. calls'[c] = [pc |-> "swap", space |-> Main, fresh |-> fresh]
    BY <1>1, <2>2
  <2> QED
    BY <1>1, <1>5, <2>3, <2>4, <2>5 DEF Phase
<1>11. CASE ReloadSwap(c)
  <2>1. /\ calls[c].pc = "swap" /\ calls[c].space = Main
        /\ spaces' = [spaces EXCEPT ![Main] = calls[c].fresh]
        /\ calls' = [calls EXCEPT ![c] = Idle]
        /\ UNCHANGED <<tables, faults, persist_queue, batch, tells>>
    BY <1>1, <1>11, SwapCall, MainOnly DEF ReloadSwap, Resume, boundVars
  <2>2. spaces'[Main] = calls[c].fresh /\ calls'[c] = Idle
    BY <1>1, <2>1, SpaceAssumption DEF MemInv, TypeOK
  <2>3. MirrorsLive(calls[c].fresh)
    BY <1>1, <2>1 DEF Phase
  <2>4. MirrorsLive(spaces[Main])'
    BY <2>1, <2>2, <2>3 DEF MirrorsLive, LiveFacts, Live, WellKept, tables
  <2>5. RowsUsed'
    BY <1>1, <2>1 DEF RowsUsed, tables
  <2> QED
    BY <1>1, <2>1, <2>2, <2>4, <2>5 DEF Phase, Idle
<1>12. CASE Crash \/ Restart
  <2>1. Boot /\ UNCHANGED <<tables, faults, tells>>
    BY <1>12 DEF Crash, Restart
  <2>2. MirrorsLive(spaces[Main])' /\ Empty /\ calls'[c] = Idle
    BY <1>1, <2>1, BootMirrors
  <2>3. RowsUsed'
    BY <1>1, <2>1 DEF RowsUsed, tables
  <2> QED
    BY <2>2, <2>3 DEF Phase, Idle
<1>13. CASE Shutdown \/ Tick \/ UNCHANGED vars
  <2>1. UNCHANGED <<tables, spaces, tells, calls, faults>> /\ Empty
    BY <1>1, <1>13 DEF Shutdown, Tick, vars, tables, ramVars, boundVars
  <2> QED
    BY <1>5, <1>6, <2>1
<1>14. ~PersistFails(c) /\ ~FlushTake /\ ~FlushSave /\ ~FlushFails
  BY <1>1, <1>4 DEF PersistFails, FlushTake, FlushSave, FlushFails
<1> QED
  BY <1>7, <1>8, <1>9, <1>10, <1>11, <1>12, <1>13, <1>14 DEF Next

LEMMA InitSerial ==
    ASSUME Init
    PROVE  SerialInv
<1>1. /\ spaces[Main] = EmptyStore /\ EmptyStore.thoughts = {}
      /\ EmptyStore.absorbed = {} /\ \A k \in Keys : EmptyStore.chains[k] = << >>
      /\ LiveFacts = {}
  BY SpaceAssumption DEF Init, EmptyStore, LiveFacts, Live
<1>2. MirrorsLive(spaces[Main])
  BY <1>1 DEF MirrorsLive, WellKept, Ascending, Under, ToSet
<1> QED
  BY <1>2, InitMem DEF Init, SerialInv, RowsUsed, Phase, Idle

LEMMA MirrorsWhenQuiet ==
    ASSUME NEW c \in Clients, SerialInv
    PROVE  RamMirrorsDisk
<1>1. SUFFICES ASSUME calls[c] = Idle PROVE Mirrors(Main)
  BY DEF RamMirrorsDisk, Quiet
<1>2. MirrorsLive(spaces[Main])
  BY <1>1 DEF SerialInv, Phase, Idle
<1>3. /\ spaces[Main].thoughts = {r.thought : r \in Live(Main)}
      /\ spaces[Main].absorbed = {Norm[t.content] : t \in {r.thought : r \in Live(Main)}}
      /\ \A k \in Keys : ToSet(spaces[Main].chains[k])
                           = {t \in {r.thought : r \in Live(Main)} : t.key = k}
  BY <1>2 DEF MirrorsLive, WellKept, LiveFacts, Under
<1> QED
  BY <1>3 DEF Mirrors

(* With one client and no database error, whatever it tells, archives,      *)
(* forgets or amends and whenever the server crashes or restarts: once      *)
(* nothing is in flight, RAM answers, deduplicates and numbers versions     *)
(* from exactly the facts that are live on disk.                            *)
THEOREM RamIsTheDisk ==
    ASSUME OneSpace, MaxFaults = 0, NEW c, Clients = {c}
    PROVE  Spec => []RamMirrorsDisk
<1>1. Init => SerialInv
  BY InitSerial
<1>2. SerialInv /\ [Next]_vars => SerialInv'
  BY SerialStep
<1>3. SerialInv => RamMirrorsDisk
  BY MirrorsWhenQuiet
<1> QED
  BY <1>1, <1>2, <1>3, PTL DEF Spec
=============================================================================
