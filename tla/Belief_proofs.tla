---------------------------- MODULE Belief_proofs ----------------------------
(***************************************************************************)
(* A save or an amend never takes the belief back, and, where nobody       *)
(* forgets facts one by one, the newest version of a key keeps the answer. *)
(* Both are proved for one space: with two a save can take over a row of   *)
(* the other one (SpacesNeverCross).                                       *)
(*                                                                         *)
(* What makes them inductive is that an id tells the key and the version   *)
(* of its thought: a save replaces a row of the same version only.         *)
(***************************************************************************)
EXTENDS Consolidate_proofs

NoSingleForgets == Handlers \cap {"forget_key", "forget_id", "forget_entity"} = {}

\* The thoughts a call has still to save are named too.
CallNamed(call) ==
    /\ call.pc = "version" => call.key # NoKey
    /\ call.pc = "save" => Named(call.thought)
    /\ call.pc = "consolidate" => \A t \in call.pending : Named(t)

NamesInv(C) ==
    /\ InvWith(C)
    /\ RowsNamed
    /\ \A c \in Clients : CallNamed(calls[c])

-----------------------------------------------------------------------------
\* The steps of the sql store, and those of consolidation.

LEMMA CallsNamedStep ==
    ASSUME NEW C, calls \in [Clients -> C], \A d \in Clients : CallNamed(calls[d]),
           NEW c \in Clients, NEW call, CallNamed(call),
           Begin(c, call) \/ Resume(c, call)
    PROVE  \A d \in Clients : CallNamed(calls'[d])
BY DEF Begin, Resume

LEMMA QuietCallsNamed ==
    ASSUME NEW call, call.pc \notin {"version", "save", "consolidate"}
    PROVE  CallNamed(call)
BY DEF CallNamed

LEMMA NewThoughtNamed ==
    ASSUME NEW call, NEW version, call.key = NoKey => version = 1
    PROVE  CallNamed(Saving(NewThought(call, version)))
BY DEF CallNamed, Saving, NewThought, Named

LEMMA SqlNames ==
    ASSUME NEW C, HasSqlCalls(C), NamesInv(C), [Next]_vars
    PROVE  NamesInv(C)'
<1> DEFINE Calls == \A c \in Clients : CallNamed(calls[c])
<1>1. InvWith(C)' /\ StoreInv /\ calls \in [Clients -> C]
  BY NextInv DEF NamesInv, InvWith
<1>2. RowsNamed /\ Calls
  BY DEF NamesInv
<1>3. SUFFICES RowsNamed' /\ Calls'
  BY <1>1 DEF NamesInv
<1>4. UNCHANGED tables => RowsNamed'
  BY <1>2 DEF RowsNamed, tables
<1>5. ASSUME NEW c \in Clients, NEW call,
             call.pc \notin {"version", "save", "consolidate"},
             Begin(c, call) \/ Resume(c, call)
      PROVE  Calls'
  BY <1>1, <1>2, <1>5, QuietCallsNamed, CallsNamedStep
<1>6. ASSUME NEW c \in Clients, Resume(c, Idle) PROVE Calls'
  BY <1>5, <1>6 DEF Idle
<1>7. ASSUME NEW c \in Clients, NEW sp, Begin(c, Reload(sp)) \/ Resume(c, Reload(sp))
      PROVE  Calls'
  BY <1>5, <1>7 DEF Reload
<1>8. ASSUME NEW c \in Clients, Tell(c) PROVE RowsNamed' /\ Calls'
  <2>1. ASSUME NEW sp \in Spaces, NEW f \in Facts, NEW k \in MaybeKeys,
               TellStart(c, sp, f, k)
        PROVE  RowsNamed' /\ Calls'
    BY <1>4, <1>5, <2>1 DEF TellStart
  <2>2. CASE CheckDuplicate(c)
    <3>1. CASE Resume(c, Idle)
      BY <1>4, <1>6, <2>2, <3>1 DEF CheckDuplicate
    <3>2. CASE Build(c, 1)
      BY <1>1, <1>2, <1>4, <2>2, <3>2, NewThoughtNamed, CallsNamedStep
         DEF CheckDuplicate, Build
    <3>3. CASE /\ calls[c].key # NoKey
               /\ Resume(c, [calls[c] EXCEPT !.pc = "version"])
      <4>1. calls[c] \in TellCall
        BY <1>1, <2>2 DEF CheckDuplicate, HasSqlCalls
      <4>2. CallNamed([calls[c] EXCEPT !.pc = "version"])
        BY <2>2, <3>3, <4>1 DEF CallNamed, TellCall, CheckDuplicate
      <4> QED
        BY <1>1, <1>2, <1>4, <2>2, <3>3, <4>2, CallsNamedStep DEF CheckDuplicate
    <3> QED
      BY <2>2, <3>1, <3>2, <3>3 DEF CheckDuplicate
  <2>3. CASE ReadVersion(c)
    <3>1. calls[c].key # NoKey
      BY <1>2, <2>3 DEF ReadVersion, CallNamed
    <3> QED
      BY <1>1, <1>2, <1>4, <2>3, <3>1, NewThoughtNamed, CallsNamedStep
         DEF ReadVersion, Build
  <2>4. CASE Save(c)
    BY <1>2, <1>6, <2>4, SaveNames DEF Save, CallNamed
  <2>5. CASE TellFails(c)
    BY <1>4, <1>6, <2>5 DEF TellFails
  <2> QED
    BY <1>8, <2>1, <2>2, <2>3, <2>4, <2>5 DEF Tell
<1>9. ASSUME NEW c \in Clients, Maintain(c) PROVE RowsNamed' /\ Calls'
  <2>1. ASSUME NEW sp, NEW ids, ForgetSelect(c, sp, ids) PROVE RowsNamed' /\ Calls'
    BY <1>4, <1>5, <2>1 DEF ForgetSelect
  <2>2. ASSUME NEW sp, ForgetAll(c, sp) PROVE RowsNamed' /\ Calls'
    BY <1>2, <1>7, <2>2, DeleteNames DEF ForgetAll, delete_space
  <2>3. CASE ArchiveCommit(c)
    BY <1>1, <1>2, <1>7, <2>3, ArchiveNames DEF ArchiveCommit
  <2>4. CASE ForgetCommit(c)
    BY <1>2, <1>7, <2>4, DeleteNames DEF ForgetCommit, delete_rows, RowsExcept
  <2>5. CASE AmendCommit(c)
    BY <1>1, <1>2, <1>4, <1>6, <1>7, <2>5, AmendNames DEF AmendCommit
  <2> QED
    BY <1>9, <2>1, <2>2, <2>3, <2>4, <2>5
       DEF Maintain, ForgetByKey, ForgetById, ForgetByEntity
<1>10. ASSUME NEW c \in Clients, SqlMaintain(c) PROVE RowsNamed' /\ Calls'
  <2>1. CASE MaintenanceFails(c)
    BY <1>4, <1>6, <2>1 DEF MaintenanceFails
  <2>2. ASSUME NEW sp \in Spaces, NEW names, ArchiveSelect(c, sp, names)
        PROVE  RowsNamed' /\ Calls'
    BY <1>4, <1>5, <2>2 DEF ArchiveSelect
  <2>3. ASSUME NEW sp \in Spaces, NEW id, NEW change, AmendStart(c, sp, id, change)
        PROVE  RowsNamed' /\ Calls'
    BY <1>4, <1>5, <2>3 DEF AmendStart
  <2> QED
    BY <1>9, <1>10, <2>1, <2>2, <2>3 DEF SqlMaintain
<1>11. ASSUME NEW c \in Clients, Reloaded(c) PROVE RowsNamed' /\ Calls'
  BY <1>4, <1>6, <1>11 DEF Reloaded
<1>12. CASE Tick \/ UNCHANGED vars
  BY <1>2, <1>4, <1>12 DEF Tick, vars, tables
<1>13. CASE Restart
  <2>1. CallNamed(Idle)
    BY QuietCallsNamed DEF Idle
  <2> QED
    BY <1>4, <1>13, <2>1 DEF Restart
<1> QED
  BY <1>8, <1>10, <1>11, <1>12, <1>13 DEF Next

LEMMA RefilledNames ==
    ASSUME NEW t \in Thought, NEW me, NEW missed, Named(t)
    PROVE  Named(Refill(t, me, missed))
BY DEF Refill, Named, Thought

LEMMA JanitorNames ==
    ASSUME NEW C, HasJanitorCalls(C), NamesInv(C), InvWith(C)',
           [JanitorNext]_vars, \A c \in Clients : ~MergeCommit(c)
    PROVE  NamesInv(C)'
<1> DEFINE Calls == \A c \in Clients : CallNamed(calls[c])
<1>1. InvWith(C)' /\ StoreInv /\ calls \in [Clients -> C]
  BY DEF NamesInv, InvWith
<1>2. RowsNamed /\ Calls
  BY DEF NamesInv
<1>3. UNCHANGED tables => RowsNamed'
  BY <1>2 DEF RowsNamed, tables
<1>4. ASSUME NEW c \in Clients, NEW call,
             call.pc \notin {"version", "save", "consolidate"}, Resume(c, call)
      PROVE  Calls'
  BY <1>1, <1>2, <1>4, QuietCallsNamed, CallsNamedStep
<1>5. CASE [Next]_vars
  BY <1>5, SqlNames DEF HasJanitorCalls
<1>6. ASSUME NEW c \in Clients, Janitor(c) PROVE RowsNamed' /\ Calls'
  <2>1. ASSUME NEW sp \in Spaces, NEW me, ConsolidateRead(c, sp, me)
        PROVE  RowsNamed' /\ Calls'
    <3>1. PICK retired, missed :
             Begin(c, [pc |-> "consolidate", space |-> sp,
                       pending |-> Refills(sp, me, missed, retired),
                       retired |-> retired])
      BY <2>1 DEF ConsolidateRead
    <3>2. \A t \in Snapshot(sp) : t \in Thought /\ Named(t)
      BY <1>1, <1>2 DEF Snapshot, Live, StoreInv, TablesInv, TablesTypeOK, Row, RowsNamed
    <3>3. \A t \in Refills(sp, me, missed, retired) : Named(t)
      BY <3>2, RefilledNames DEF Refills
    <3>4. CallNamed([pc |-> "consolidate", space |-> sp,
                     pending |-> Refills(sp, me, missed, retired),
                     retired |-> retired])
      BY <3>3 DEF CallNamed
    <3> QED
      BY <1>1, <1>2, <1>3, <2>1, <3>1, <3>4, CallsNamedStep DEF ConsolidateRead
  <2>2. CASE ConsolidateSave(c)
    <3>1. PICK t \in calls[c].pending :
             save_thought(t) /\ Resume(c, [calls[c] EXCEPT !.pending = @ \ {t}])
      BY <2>2 DEF ConsolidateSave
    <3>2. calls[c] \in ConsolidateCall
      BY <1>1, <2>2 DEF ConsolidateSave, HasJanitorCalls
    <3>3. Named(t) /\ CallNamed([calls[c] EXCEPT !.pending = @ \ {t}])
      BY <1>2, <2>2, <3>2 DEF ConsolidateSave, ConsolidateCall, CallNamed
    <3> QED
      BY <1>1, <1>2, <3>1, <3>3, SaveNames, CallsNamedStep
  <2>3. CASE ConsolidateArchive(c)
    BY <1>1, <1>2, <1>4, <2>3, ArchiveNames DEF ConsolidateArchive, Reload
  <2>4. CASE JanitorFails(c)
    BY <1>3, <1>4, <2>4 DEF JanitorFails, Idle
  <2>5. ~MergeCommit(c)
    OBVIOUS
  <2>6. ASSUME NEW sp \in Spaces, NEW source, NEW target, MergeRead(c, sp, source, target)
        PROVE  RowsNamed' /\ Calls'
    BY <1>1, <1>2, <1>3, <2>6, QuietCallsNamed, CallsNamedStep DEF MergeRead
  <2> QED
    BY <1>6, <2>1, <2>2, <2>3, <2>4, <2>5, <2>6 DEF Janitor
<1> QED
  BY <1>1, <1>5, <1>6 DEF JanitorNext, NamesInv

-----------------------------------------------------------------------------
\* Nobody is in the middle of forgetting single facts.
NobodyForgets == \A c \in Clients : calls[c].pc # "forget"

NewestInv(C) == NamesInv(C) /\ NewestIsCurrent /\ NobodyForgets

LEMMA NobodyForgetsStep ==
    ASSUME NEW C, calls \in [Clients -> C], NobodyForgets,
           NEW c \in Clients, NEW call, call.pc # "forget",
           Begin(c, call) \/ Resume(c, call)
    PROVE  NobodyForgets'
BY DEF NobodyForgets, Begin, Resume

LEMMA SqlNewest ==
    ASSUME NEW C, HasSqlCalls(C), OneSpace, NoSingleForgets,
           NewestInv(C), [Next]_vars
    PROVE  NewestInv(C)'
<1> DEFINE Goal == NewestIsCurrent' /\ NobodyForgets'
<1>1. /\ NamesInv(C)' /\ StoreInv /\ RowsNamed /\ calls \in [Clients -> C]
      /\ NewestIsCurrent /\ NobodyForgets
      /\ \A c \in Clients : CallNamed(calls[c])
  BY SqlNames DEF NewestInv, NamesInv, InvWith
<1>2. SUFFICES Goal
  BY <1>1 DEF NewestInv
<1>3. UNCHANGED tables => NewestIsCurrent'
  BY <1>1, UnchangedNewest
<1>4. ASSUME NEW c \in Clients, NEW call, call.pc # "forget",
             Begin(c, call) \/ Resume(c, call)
      PROVE  NobodyForgets'
  BY <1>1, <1>4, NobodyForgetsStep
<1>5. ASSUME NEW c \in Clients, Resume(c, Idle) PROVE NobodyForgets'
  BY <1>4, <1>5 DEF Idle
<1>6. ASSUME NEW c \in Clients, NEW sp, Begin(c, Reload(sp)) \/ Resume(c, Reload(sp))
      PROVE  NobodyForgets'
  BY <1>4, <1>6 DEF Reload
<1>7. ASSUME NEW c \in Clients, Tell(c) PROVE Goal
  <2>1. ASSUME NEW sp \in Spaces, NEW f \in Facts, NEW k \in MaybeKeys,
               TellStart(c, sp, f, k)
        PROVE  Goal
    BY <1>3, <1>4, <2>1 DEF TellStart
  <2>2. ASSUME NEW version, Build(c, version), UNCHANGED tables PROVE Goal
    BY <1>3, <1>4, <2>2 DEF Build, Saving
  <2>3. CASE CheckDuplicate(c)
    <3>1. ASSUME Resume(c, [calls[c] EXCEPT !.pc = "version"]) PROVE Goal
      <4>1. calls[c] \in TellCall
        BY <1>1, <2>3 DEF CheckDuplicate, HasSqlCalls
      <4>2. [calls[c] EXCEPT !.pc = "version"].pc # "forget"
        BY <4>1 DEF TellCall
      <4> QED
        BY <1>3, <1>4, <2>3, <3>1, <4>2 DEF CheckDuplicate
    <3> QED
      BY <1>3, <1>5, <2>2, <2>3, <3>1 DEF CheckDuplicate
  <2>4. CASE ReadVersion(c)
    BY <2>2, <2>4 DEF ReadVersion
  <2>5. CASE Save(c)
    <3>1. calls[c].thought \in Thought
      BY <1>1, <2>5, TellFields DEF Save, HasSqlCalls
    <3>2. Named(calls[c].thought)
      BY <1>1, <2>5 DEF Save, CallNamed
    <3> QED
      BY <1>1, <1>5, <2>5, <3>1, <3>2, SaveNewest DEF Save
  <2>6. CASE TellFails(c)
    BY <1>3, <1>5, <2>6 DEF TellFails
  <2> QED
    BY <1>7, <2>1, <2>3, <2>4, <2>5, <2>6 DEF Tell
<1>8. ASSUME NEW c \in Clients, Maintain(c) PROVE Goal
  <2>1. ASSUME NEW sp, ForgetAll(c, sp) PROVE Goal
    BY <1>1, <1>6, <2>1, DeleteSpaceNewest DEF ForgetAll
  <2>2. CASE ArchiveCommit(c)
    BY <1>1, <1>6, <2>2, ArchiveNewest DEF ArchiveCommit
  <2>3. CASE AmendCommit(c)
    BY <1>1, <1>3, <1>5, <1>6, <2>3, AmendNewest DEF AmendCommit
  <2>4. ~ForgetCommit(c)
    BY <1>1 DEF ForgetCommit, NobodyForgets
  <2> QED
    BY <1>8, <2>1, <2>2, <2>3, <2>4
       DEF Maintain, ForgetByKey, ForgetById, ForgetByEntity, NoSingleForgets
<1>9. ASSUME NEW c \in Clients, SqlMaintain(c) PROVE Goal
  <2>1. CASE MaintenanceFails(c)
    BY <1>3, <1>5, <2>1 DEF MaintenanceFails
  <2>2. ASSUME NEW sp \in Spaces, NEW names, ArchiveSelect(c, sp, names) PROVE Goal
    BY <1>3, <1>4, <2>2 DEF ArchiveSelect
  <2>3. ASSUME NEW sp \in Spaces, NEW id, NEW change, AmendStart(c, sp, id, change)
        PROVE  Goal
    BY <1>3, <1>4, <2>3 DEF AmendStart
  <2> QED
    BY <1>8, <1>9, <2>1, <2>2, <2>3 DEF SqlMaintain
<1>10. ASSUME NEW c \in Clients, Reloaded(c) PROVE Goal
  BY <1>3, <1>5, <1>10 DEF Reloaded
<1>11. CASE Tick \/ UNCHANGED vars
  BY <1>1, <1>3, <1>11 DEF Tick, vars, tables, NobodyForgets
<1>12. CASE Restart
  BY <1>3, <1>12 DEF Restart, NobodyForgets, Idle
<1> QED
  BY <1>7, <1>9, <1>10, <1>11, <1>12 DEF Next

LEMMA JanitorNewest ==
    ASSUME OneSpace, NoSingleForgets, NEW C, HasJanitorCalls(C), NewestInv(C),
           InvWith(C)', [JanitorNext]_vars, \A c \in Clients : ~MergeCommit(c)
    PROVE  NewestInv(C)'
<1> DEFINE Goal == NewestIsCurrent' /\ NobodyForgets'
<1>1. /\ NamesInv(C)' /\ StoreInv /\ RowsNamed /\ calls \in [Clients -> C]
      /\ NewestIsCurrent /\ NobodyForgets
      /\ \A c \in Clients : CallNamed(calls[c])
  BY JanitorNames DEF NewestInv, NamesInv, InvWith
<1>2. UNCHANGED tables => NewestIsCurrent'
  BY <1>1, UnchangedNewest
<1>3. ASSUME NEW c \in Clients, NEW call, call.pc # "forget",
             Begin(c, call) \/ Resume(c, call)
      PROVE  NobodyForgets'
  BY <1>1, <1>3, NobodyForgetsStep
<1>4. CASE [Next]_vars
  BY <1>4, SqlNewest DEF HasJanitorCalls
<1>5. ASSUME NEW c \in Clients, Janitor(c) PROVE Goal
  <2>1. calls[c].pc = "consolidate" => calls[c] \in ConsolidateCall
    BY <1>1 DEF HasJanitorCalls
  <2>2. ASSUME NEW sp \in Spaces, NEW me, ConsolidateRead(c, sp, me) PROVE Goal
    BY <1>2, <1>3, <2>2 DEF ConsolidateRead
  <2>3. CASE ConsolidateSave(c)
    <3>1. PICK t \in calls[c].pending :
             save_thought(t) /\ Resume(c, [calls[c] EXCEPT !.pending = @ \ {t}])
      BY <2>3 DEF ConsolidateSave
    <3>2. /\ t \in Thought /\ Named(t)
          /\ [calls[c] EXCEPT !.pending = @ \ {t}].pc # "forget"
      BY <1>1, <2>1, <2>3 DEF ConsolidateSave, ConsolidateCall, CallNamed
    <3> QED
      BY <1>1, <1>3, <3>1, <3>2, SaveNewest
  <2>4. CASE ConsolidateArchive(c)
    BY <1>1, <1>3, <2>4, ArchiveNewest DEF ConsolidateArchive, Reload
  <2>5. CASE JanitorFails(c)
    BY <1>2, <1>3, <2>5 DEF JanitorFails, Idle
  <2>6. ASSUME NEW sp \in Spaces, NEW source, NEW target, MergeRead(c, sp, source, target)
        PROVE  Goal
    BY <1>2, <1>3, <2>6 DEF MergeRead
  <2> QED
    BY <1>5, <2>2, <2>3, <2>4, <2>5, <2>6 DEF Janitor
<1> QED
  BY <1>1, <1>4, <1>5 DEF JanitorNext, NewestInv

LEMMA InitBelief ==
    ASSUME NEW C, HasSqlCalls(C), Init
    PROVE  NewestInv(C)
<1>1. InvWith(C)
  BY InitInv
<1> QED
  BY <1>1 DEF Init, NewestInv, NamesInv, NobodyForgets, NewestIsCurrent,
              RowsNamed, CallNamed, Idle

-----------------------------------------------------------------------------
(* With any number of clients telling, amending, archiving and wiping the   *)
(* one space, and whatever overlaps, the newest version of a key that is    *)
(* not archived is current: the closed operations answer from it.           *)
THEOREM NewestAnswers ==
    ASSUME OneSpace, NoSingleForgets
    PROVE  Spec => []NewestIsCurrent
<1>1. Init => NewestInv(Call)
  BY SqlCalls, InitBelief
<1>2. NewestInv(Call) /\ [Next]_vars => NewestInv(Call)'
  BY SqlCalls, SqlNewest
<1>3. NewestInv(Call) => NewestIsCurrent
  BY DEF NewestInv
<1> QED
  BY <1>1, <1>2, <1>3, PTL DEF Spec

(* The same with consolidations, whose stale write-backs may revive an      *)
(* older version but never take the answer from the newest.                 *)
THEOREM NewestSurvivesConsolidation ==
    ASSUME OneSpace, NoSingleForgets, "merge" \notin Handlers
    PROVE  JanitorSpec => []NewestIsCurrent
<1>1. Init => NewestInv(JanitorCall)
  BY JanitorCalls, InitBelief
<1>2. NewestInv(JanitorCall) /\ [JanitorNext]_vars => NewestInv(JanitorCall)'
  <2>1. SUFFICES ASSUME NewestInv(JanitorCall), [JanitorNext]_vars
                 PROVE  NewestInv(JanitorCall)'
    OBVIOUS
  <2>2. InvWith(JanitorCall) /\ InvWith(JanitorCall)'
    BY <2>1, JanitorStepInv DEF NewestInv, NamesInv
  <2>3. \A c \in Clients : ~MergeCommit(c)
    BY <2>2 DEF MergeCommit, InvWith, JanitorCall, ConsolidateCall, Call, TellCall,
                MaintenanceCall, Idle
  <2> QED
    BY <2>1, <2>2, <2>3, JanitorCalls, JanitorNewest
<1>3. NewestInv(JanitorCall) => NewestIsCurrent
  BY DEF NewestInv
<1> QED
  BY <1>1, <1>2, <1>3, PTL DEF JanitorSpec

-----------------------------------------------------------------------------
\* A merge renames no fact, and takes the answer from none.
LEMMA MergeNewest ==
    ASSUME OneSpace, StoreInv, RowsNamed, NewestIsCurrent, StoreInv', Refilled,
           \A x \in fact_slots' : \E s \in fact_slots :
              x.thought_id = s.thought_id /\ x.is_current = s.is_current
    PROVE  RowsNamed' /\ NewestIsCurrent'
<1>1. ASSUME NEW r \in ada_thoughts'
      PROVE  \E q \in ada_thoughts :
                /\ r.thought.thought_id = q.thought.thought_id
                /\ r.thought.key = q.thought.key
                /\ r.thought.version = q.thought.version
                /\ r.thought.space_id = q.thought.space_id
                /\ q.archived => r.archived
  <2>1. PICK q \in ada_thoughts :
           /\ r.thought = [q.thought EXCEPT !.fill = r.thought.fill]
           /\ q.archived => r.archived
    BY DEF Refilled
  <2>2. q.thought \in Thought
    BY DEF StoreInv, TablesInv, TablesTypeOK, Row
  <2> QED
    BY <2>1, <2>2 DEF Thought
<1>2. RowsNamed'
  BY <1>1 DEF RowsNamed, Named
<1>3. ASSUME NEW q \in ada_thoughts
      PROVE  \E r \in ada_thoughts' :
                /\ r.thought.key = q.thought.key
                /\ r.thought.version = q.thought.version
                /\ r.thought.space_id = q.thought.space_id
  <2>1. PICK r \in ada_thoughts' : r.thought.thought_id = q.thought.thought_id
    BY DEF Refilled
  <2>2. r.thought.space_id = Main /\ q.thought.space_id = Main
    BY DEF StoreInv, TablesInv, TablesTypeOK, Row, Thought, OneSpace
  <2> QED
    BY <1>2, <2>1, <2>2 DEF RowsNamed, Named
<1>4. \A sp, k : Versions(sp, k) \subseteq Versions(sp, k)'
  BY <1>3 DEF Versions
<1>5. ASSUME NEW r \in ada_thoughts', NEW x \in fact_slots',
             r.thought.thought_id = x.thought_id,
             r.thought.key # NoKey, ~r.archived,
             \A v \in Versions(r.thought.space_id, r.thought.key)' :
                v <= r.thought.version
      PROVE  x.is_current
  <2>1. PICK q \in ada_thoughts :
           /\ r.thought.thought_id = q.thought.thought_id
           /\ r.thought.key = q.thought.key
           /\ r.thought.version = q.thought.version
           /\ r.thought.space_id = q.thought.space_id
           /\ q.archived => r.archived
    BY <1>1
  <2>2. PICK s \in fact_slots : x.thought_id = s.thought_id /\ x.is_current = s.is_current
    OBVIOUS
  <2>3. \A v \in Versions(q.thought.space_id, q.thought.key) : v <= q.thought.version
    BY <1>4, <1>5, <2>1
  <2> QED
    BY <1>5, <2>1, <2>2, <2>3 DEF NewestIsCurrent
<1> QED
  BY <1>2, <1>5 DEF NewestIsCurrent

\* A merge step of the only client.
LEMMA MergeStep ==
    ASSUME OneSpace, NEW c, Clients = {c}, NewestInv(AloneCall), AloneInv, AloneInv',
           MergeCommit(c)
    PROVE  NewestInv(AloneCall)'
<1>1. /\ StoreInv /\ RowsNamed /\ NewestIsCurrent /\ StoreInv' /\ InvWith(AloneCall)'
      /\ calls \in [Clients -> AloneCall] /\ UpToDate(calls[c])
  BY DEF NewestInv, NamesInv, AloneInv, InvWith
<1>2. calls[c] \in MergeCall
  BY <1>1, AloneCalls DEF MergeCommit
<1>3. RowsNamed' /\ NewestIsCurrent'
  <2>1. Refilled /\ \A x \in fact_slots' : \E s \in fact_slots :
           x.thought_id = s.thought_id /\ x.is_current = s.is_current
    BY <1>1, <1>2, MergeKeeps
  <2> QED
    BY <1>1, <2>1, MergeNewest
<1>4. calls'[c].pc = "reload"
  BY <1>1 DEF MergeCommit, Resume, Reload
<1> QED
  BY <1>1, <1>3, <1>4 DEF NewestInv, NamesInv, CallNamed, NobodyForgets

(* One client, which waits for each reply, may merge entities as well.      *)
THEOREM NewestSurvivesMerges ==
    ASSUME OneSpace, NoSingleForgets, NEW c, Clients = {c}
    PROVE  JanitorSpec => []NewestIsCurrent
<1> DEFINE I == AloneInv /\ NewestInv(AloneCall)
<1>1. Init => I
  BY AloneInit, AloneCalls, InitBelief
<1>2. I /\ [JanitorNext]_vars => I'
  <2>1. SUFFICES ASSUME I, [JanitorNext]_vars PROVE I'
    OBVIOUS
  <2>2. AloneInv'
    BY <2>1, AloneStep
  <2>3. CASE MergeCommit(c)
    BY <2>1, <2>2, <2>3, MergeStep
  <2>4. CASE ~MergeCommit(c)
    BY <2>1, <2>2, <2>4, AloneCalls, JanitorNewest DEF AloneInv
  <2> QED
    BY <2>3, <2>4
<1>3. I => NewestIsCurrent
  BY DEF NewestInv
<1> QED
  BY <1>1, <1>2, <1>3, PTL DEF JanitorSpec

-----------------------------------------------------------------------------
\* What a save and an amend do to the versions that are current.

Forward ==
    \A sp \in Spaces, k \in Keys : \A v \in CurrentVersions(sp, k) :
        \E w \in CurrentVersions(sp, k)' : w >= v

LEMMA KeyedSlot ==
    ASSUME NEW t, t.key # NoKey
    PROVE  \E s : /\ s \in slot_rows(t, TRUE) /\ s.is_current = TRUE
                  /\ s.space_id = t.space_id /\ s.key = t.key
                  /\ s.version = t.version
<1>1. PICK s : s \in slot_rows(t, TRUE)
  BY DEF slot_rows
<1> QED
  BY <1>1, SlotRowsFields

LEMMA SaveForward ==
    ASSUME OneSpace, StoreInv, RowsNamed, NEW t \in Thought, Named(t), save_thought(t)
    PROVE  Forward
<1>1. SUFFICES ASSUME NEW sp \in Spaces, NEW k \in Keys, NEW x \in fact_slots,
                      x.space_id = sp, x.key = k, x.is_current
               PROVE  \E w \in CurrentVersions(sp, k)' : w >= x.version
  BY DEF Forward, CurrentVersions
<1>2. /\ t.version \in Nat /\ x.version \in Nat /\ k # NoKey
      /\ t.space_id = sp
  BY <1>1, KeyAssumption
     DEF OneSpace, Thought, StoreInv, TablesInv, TablesTypeOK, Slot
<1>3. t.key = k => t.version \in CurrentVersions(sp, k)'
  BY <1>2, KeyedSlot DEF save_thought, CurrentVersions
<1>4. CASE x.thought_id = t.thought_id
  <2>1. PICK r \in ada_thoughts :
           /\ r.thought.thought_id = x.thought_id
           /\ r.thought.key = x.key /\ r.thought.version = x.version
    BY RowOfSlot
  <2>2. t.key = k /\ t.version = x.version
    BY <1>1, <1>4, <2>1 DEF RowsNamed, Named
  <2> QED
    BY <1>2, <1>3, <2>2
<1>5. CASE x.thought_id # t.thought_id /\ ~Supersedes(t, x)
  <2>1. x \in fact_slots'
    BY <1>5 DEF save_thought, SlotsExcept
  <2> QED
    BY <1>1, <1>2, <2>1 DEF CurrentVersions
<1>6. CASE Supersedes(t, x)
  BY <1>1, <1>2, <1>3, <1>6 DEF Supersedes
<1> QED
  BY <1>4, <1>5, <1>6

LEMMA AmendForward ==
    ASSUME StoreInv, NEW r \in ada_thoughts, NEW text, NEW facts,
           amend_thought(r, text, facts)
    PROVE  Forward
<1> DEFINE id == r.thought.thought_id
           t == Amended(r.thought, text, facts)
<1>1. /\ fact_slots' = SlotsExcept({id}) \cup slot_rows(t, PlaceInChain(id))
      /\ t.space_id = r.thought.space_id /\ t.key = r.thought.key
      /\ t.version = r.thought.version
  BY AmendedFields DEF amend_thought, StoreInv, TablesInv, TablesTypeOK, Row
<1> HIDE DEF t
<1>2. SUFFICES ASSUME NEW sp \in Spaces, NEW k \in Keys, NEW x \in fact_slots,
                      x.space_id = sp, x.key = k, x.is_current
               PROVE  x.version \in CurrentVersions(sp, k)' /\ x.version \in Nat
  BY DEF Forward, CurrentVersions
<1>3. x.version \in Nat /\ k # NoKey
  BY KeyAssumption DEF StoreInv, TablesInv, TablesTypeOK, Slot
<1>4. CASE x.thought_id = id
  <2>1. /\ x.space_id = r.thought.space_id /\ x.key = r.thought.key
        /\ x.version = r.thought.version
    BY <1>4, SlotOfRow
  <2>2. \A s \in fact_slots : s.thought_id = id => s.is_current = TRUE
    <3>1. \A s \in fact_slots : s.thought_id = id => s = x /\ s \in Slot
      BY <1>4 DEF StoreInv, TablesInv, PrimaryKey, TablesTypeOK
    <3> QED
      BY <1>2, <3>1 DEF Slot
  <2>3. PlaceInChain(id) = TRUE
    BY <2>2 DEF PlaceInChain
  <2>4. PICK s : /\ s \in slot_rows(t, TRUE) /\ s.is_current = TRUE
                 /\ s.space_id = t.space_id /\ s.key = t.key
                 /\ s.version = t.version
    BY <1>1, <1>2, <1>3, <2>1, KeyedSlot
  <2>5. s \in fact_slots'
    BY <1>1, <2>3, <2>4
  <2> QED
    BY <1>1, <1>2, <1>3, <2>1, <2>4, <2>5 DEF CurrentVersions
<1>5. CASE x.thought_id # id
  <2>1. x \in fact_slots'
    BY <1>1, <1>5 DEF SlotsExcept
  <2> QED
    BY <1>2, <1>3, <2>1 DEF CurrentVersions
<1> QED
  BY <1>4, <1>5

LEMMA UnchangedForward ==
    ASSUME StoreInv, UNCHANGED tables
    PROVE  Forward
<1>1. \A s \in fact_slots : s.version \in Nat
  BY DEF StoreInv, TablesInv, TablesTypeOK, Slot
<1> QED
  BY <1>1 DEF Forward, CurrentVersions, tables

\* The client whose call saves or amends is the one that takes the step.
LEMMA StepForward ==
    ASSUME OneSpace, NamesInv(Call), [Next]_vars,
           NEW c \in Clients, calls[c].pc \in {"save", "amend"}, calls'[c] # calls[c]
    PROVE  Forward
<1>1. /\ StoreInv /\ RowsNamed /\ calls \in [Clients -> Call]
      /\ \A d \in Clients : CallNamed(calls[d])
  BY DEF NamesInv, InvWith
<1>2. UNCHANGED tables => Forward
  BY <1>1, UnchangedForward
<1>3. ASSUME NEW d \in Clients, NEW call, Resume(d, call) PROVE d = c
  BY <1>1, <1>3 DEF Resume
<1>4. ASSUME NEW d \in Clients, NEW call, Begin(d, call) PROVE FALSE
  BY <1>1, <1>4 DEF Begin, Idle
<1>5. ASSUME NEW d \in Clients, Tell(d) PROVE Forward
  <2>1. CASE Save(d)
    <3>1. calls[d].thought \in Thought
      BY <1>1, <2>1, SqlCalls, TellFields DEF Save, HasSqlCalls
    <3>2. Named(calls[d].thought)
      BY <1>1, <2>1 DEF Save, CallNamed
    <3> QED
      BY <1>1, <2>1, <3>1, <3>2, SaveForward DEF Save
  <2> QED
    BY <1>2, <1>5, <2>1
       DEF Tell, TellStart, CheckDuplicate, ReadVersion, TellFails
<1>6. ASSUME NEW d \in Clients, SqlMaintain(d) PROVE Forward
  <2>1. CASE Maintain(d)
    <3>1. CASE AmendCommit(d)
      BY <1>1, <1>2, <3>1, AmendForward DEF AmendCommit
    <3>2. ~ArchiveCommit(d) /\ ~ForgetCommit(d)
      BY <1>3 DEF ArchiveCommit, ForgetCommit
    <3>3. \A sp \in Spaces : ~ForgetAll(d, sp)
      BY <1>4 DEF ForgetAll
    <3> QED
      BY <1>2, <2>1, <3>1, <3>2, <3>3
         DEF Maintain, ForgetByKey, ForgetById, ForgetByEntity, ForgetSelect
  <2> QED
    BY <1>2, <1>6, <2>1 DEF SqlMaintain, MaintenanceFails, ArchiveSelect, AmendStart
<1> QED
  BY <1>2, <1>5, <1>6 DEF Next, Reloaded, Tick, Restart, vars, tables

(* No save and no amend takes the belief about a key back to an earlier     *)
(* version, whatever else the clients do in between, forgets included.      *)
THEOREM BeliefOnlyGrows ==
    ASSUME OneSpace
    PROVE  Spec => BeliefMovesForward
<1>1. Init => NamesInv(Call)
  BY SqlCalls, InitBelief DEF NewestInv
<1>2. NamesInv(Call) /\ [Next]_vars => NamesInv(Call)'
  BY SqlCalls, SqlNames
<1>3. NamesInv(Call) /\ [Next]_vars =>
        [(\E c \in Clients : calls[c].pc \in {"save", "amend"} /\ calls'[c] # calls[c])
         => \A sp \in Spaces, k \in Keys : \A v \in CurrentVersions(sp, k) :
               \E w \in CurrentVersions(sp, k)' : w >= v]_vars
  BY StepForward DEF Forward
<1> QED
  BY <1>1, <1>2, <1>3, PTL DEF Spec, BeliefMovesForward
=============================================================================
