-------------------------- MODULE Consolidate_proofs --------------------------
(***************************************************************************)
(* Consolidation beside any number of clients, when nobody merges: every   *)
(* lemma of SqlStore_proofs holds for the larger set of calls, and the     *)
(* three steps of consolidation are a reading, saves and an archive.       *)
(***************************************************************************)
EXTENDS Consolidate, SqlStore_proofs

JanitorCall == Call \cup ConsolidateCall

\* C is a set of calls in which consolidations are those with their pc.
HasJanitorCalls(C) ==
    /\ HasSqlCalls(C) /\ ConsolidateCall \subseteq C
    /\ \A call \in C : call.pc = "consolidate" => call \in ConsolidateCall

LEMMA JanitorCalls == HasSqlCalls(JanitorCall) /\ HasJanitorCalls(JanitorCall)
<1>1. \A call \in ConsolidateCall : call.pc = "consolidate"
  BY DEF ConsolidateCall
<1>2. HasSqlCalls(JanitorCall)
  BY <1>1, SqlCalls DEF HasSqlCalls, HasMaintenance, MaintenancePc, JanitorCall
<1>3. \A call \in Call : call.pc # "consolidate"
  BY DEF Call, TellCall, MaintenanceCall, Idle
<1> QED
  BY <1>2, <1>3 DEF JanitorCall, HasJanitorCalls

LEMMA RefillType ==
    ASSUME NEW t \in Thought, NEW me \in Operators \cup {NoMe}, NEW missed
    PROVE  Refill(t, me, missed) \in Thought
<1> DEFINE u == IF t.fill = NoFill /\ t \notin missed THEN Enriched[t.content]
                ELSE t.fill
<1>1. t.content \in Texts /\ t.fill \in Fills
  BY DEF Thought
<1>2. u \in Fills
  BY <1>1, ConsolidateAssumption
<1>3. ResolveSpeaker(t.content, u, me) \in Fills
  BY <1>2, ConsolidateAssumption DEF ResolveSpeaker, Fills
<1> HIDE DEF u
<1>4. [t EXCEPT !.fill = ResolveSpeaker(t.content, u, me)] \in Thought
  BY <1>3 DEF Thought
<1> QED
  BY <1>4 DEF Refill, u

LEMMA ConsolidateInv ==
    ASSUME NEW C, HasJanitorCalls(C), InvWith(C), NEW c \in Clients,
           \/ \E sp \in Spaces, me \in Operators \cup {NoMe} :
                 ConsolidateRead(c, sp, me)
           \/ ConsolidateSave(c)
           \/ ConsolidateArchive(c),
           UNCHANGED <<clock, tells>>
    PROVE  InvWith(C)'
<1> USE DEF InvWith
<1>1. calls[c] \in C
  OBVIOUS
<1>2. calls[c].pc = "consolidate" => calls[c] \in ConsolidateCall
  BY <1>1 DEF HasJanitorCalls
<1>3. ASSUME NEW sp \in Spaces, NEW me \in Operators \cup {NoMe},
             ConsolidateRead(c, sp, me)
      PROVE  InvWith(C)'
  <2>1. PICK retired \in Retirements(sp), missed \in SUBSET Slotless(sp) :
           Begin(c, [pc |-> "consolidate", space |-> sp,
                     pending |-> Refills(sp, me, missed, retired),
                     retired |-> retired])
    BY <1>3 DEF ConsolidateRead
  <2>2. retired \subseteq ThoughtId
    BY SelectedIds DEF Retirements, StoreInv
  <2>3. Snapshot(sp) \subseteq Thought
    BY DEF Snapshot, Live, StoreInv, TablesInv, TablesTypeOK, Row
  <2>4. Refills(sp, me, missed, retired) \subseteq Thought
    BY <2>3, RefillType DEF Refills
  <2>5. [pc |-> "consolidate", space |-> sp,
         pending |-> Refills(sp, me, missed, retired),
         retired |-> retired] \in C
    BY <2>2, <2>4 DEF HasJanitorCalls, ConsolidateCall
  <2>6. calls' \in [Clients -> C]
    BY <2>1, <2>5, BeginResumeType
  <2> QED
    BY <1>3, <2>6, UnchangedStoreInv DEF ConsolidateRead, tables
<1>4. CASE ConsolidateSave(c)
  <2>1. PICK t \in calls[c].pending :
           save_thought(t) /\ Resume(c, [calls[c] EXCEPT !.pending = @ \ {t}])
    BY <1>4 DEF ConsolidateSave
  <2>2. t \in Thought /\ [calls[c] EXCEPT !.pending = @ \ {t}] \in ConsolidateCall
    BY <1>2, <1>4 DEF ConsolidateSave, ConsolidateCall
  <2>3. calls' \in [Clients -> C]
    BY <2>1, <2>2, BeginResumeType DEF HasJanitorCalls
  <2> QED
    BY <1>4, <2>1, <2>2, <2>3, SaveStoreInv DEF ConsolidateSave
<1>5. CASE ConsolidateArchive(c)
  <2>1. Reload(calls[c].space) \in C
    BY <1>2, <1>5, ReloadType
       DEF ConsolidateArchive, ConsolidateCall, HasJanitorCalls, HasSqlCalls,
           HasMaintenance
  <2>2. calls' \in [Clients -> C]
    BY <1>5, <2>1, BeginResumeType DEF ConsolidateArchive
  <2> QED
    BY <1>5, <2>2, ArchiveStoreInv DEF ConsolidateArchive
<1> QED
  BY <1>3, <1>4, <1>5

LEMMA JanitorStepInv ==
    ASSUME "merge" \notin Handlers, InvWith(JanitorCall), [JanitorNext]_vars
    PROVE  InvWith(JanitorCall)'
<1> USE DEF InvWith
<1>1. CASE [Next]_vars
  BY <1>1, JanitorCalls, NextInv
<1>2. ASSUME NEW c \in Clients, Janitor(c) PROVE InvWith(JanitorCall)'
  <2>1. calls[c] \in JanitorCall /\ calls[c].pc # "merge"
    BY DEF JanitorCall, ConsolidateCall, Call, TellCall, MaintenanceCall, Idle
  <2>2. CASE JanitorFails(c)
    <3>1. calls' \in [Clients -> JanitorCall]
      BY <2>2, BeginResumeType DEF JanitorFails, JanitorCall, Call
    <3> QED
      BY <1>2, <2>2, <3>1, UnchangedStoreInv DEF Janitor, JanitorFails, Fault, tables
  <2> QED
    BY <1>2, <2>1, <2>2, JanitorCalls, ConsolidateInv
       DEF Janitor, MergeRead, MergeCommit
<1> QED
  BY <1>1, <1>2 DEF JanitorNext

-----------------------------------------------------------------------------
(* Whatever consolidations run beside the other calls, with stale snapshots *)
(* and half-finished write-backs, every call and row has its type, and the  *)
(* slot rows are exactly what the stored thoughts decompose into, as long   *)
(* as nobody merges entities.                                               *)
THEOREM JanitorSlots ==
    ASSUME "merge" \notin Handlers
    PROVE  JanitorSpec => [](JanitorTypeOK /\ SlotsDecomposeThoughts)
<1>1. Init => InvWith(JanitorCall)
  BY JanitorCalls, InitInv
<1>2. InvWith(JanitorCall) /\ [JanitorNext]_vars => InvWith(JanitorCall)'
  BY JanitorStepInv
<1>3. InvWith(JanitorCall) => JanitorTypeOK /\ SlotsDecomposeThoughts
  BY DEF InvWith, JanitorCall, JanitorTypeOK, StoreInv, TablesInv
<1> QED
  BY <1>1, <1>2, <1>3, PTL DEF JanitorSpec

-----------------------------------------------------------------------------
(* One client, which waits for each reply, merges too: what a merge or a    *)
(* consolidation read is what it finds when it writes.                      *)
AloneCall == JanitorCall \cup MergeCall

LEMMA AloneCalls ==
    /\ HasSqlCalls(AloneCall) /\ HasJanitorCalls(AloneCall)
    /\ Call \subseteq AloneCall
    /\ \A call \in AloneCall : call.pc = "merge" => call \in MergeCall
<1>1. \A call \in MergeCall : call.pc = "merge"
  BY DEF MergeCall
<1>2. \A call \in JanitorCall : call.pc # "merge"
  BY DEF JanitorCall, ConsolidateCall, Call, TellCall, MaintenanceCall, Idle
<1> QED
  BY <1>1, <1>2, JanitorCalls
     DEF AloneCall, JanitorCall, HasJanitorCalls, HasSqlCalls, HasMaintenance,
         MaintenancePc

\* What a consolidation has still to save are its facts with other slots.
RefillOf(t, sp) == \E r \in Live(sp) : t = [r.thought EXCEPT !.fill = t.fill]

UpToDate(call) ==
    /\ call.pc = "merge" => call.ids = SlotIds(Mentions(call.space, call.source))
    /\ call.pc = "consolidate" => \A t \in call.pending : RefillOf(t, call.space)

AloneInv == InvWith(AloneCall) /\ \A c \in Clients : UpToDate(calls[c])

LEMMA SameFill ==
    ASSUME NEW t \in Thought
    PROVE  t = [t EXCEPT !.fill = t.fill]
BY DEF Thought

-----------------------------------------------------------------------------
\* The slot rows of a thought name the source if its own slots do.
LEMMA MergedSlots ==
    ASSUME NEW t \in Thought, NEW source \in Entities, NEW target \in Entities,
           NEW current, NEW s \in slot_rows(t, current)
    PROVE  /\ s.entity = source <=> t.fill = source
           /\ s.entity = source =>
                [s EXCEPT !.entity = target]
                  \in slot_rows([t EXCEPT !.fill = target], current)
<1>1. t.fill \in Fills /\ NoEntity \notin Entities /\ NoFill \notin Entities
  BY FillAssumption DEF Thought
<1>2. s.entity = IF t.fill \in Entities THEN t.fill ELSE NoEntity
  BY DEF slot_rows
<1>3. s.entity = source <=> t.fill = source
  BY <1>1, <1>2
<1>4. ASSUME s.entity = source
      PROVE  [s EXCEPT !.entity = target]
               \in slot_rows([t EXCEPT !.fill = target], current)
  <2>1. PICK u : u = [t EXCEPT !.fill = target]
    OBVIOUS
  <2>2. /\ u.thought_id = t.thought_id /\ u.space_id = t.space_id
        /\ u.key = t.key /\ u.version = t.version /\ u.fill = target
    BY <2>1 DEF Thought
  <2>3. slot_rows(u, current) =
          {[thought_id |-> t.thought_id, space_id |-> t.space_id,
            entity |-> target, key |-> t.key, version |-> t.version,
            is_current |-> current]}
    BY <1>1, <2>2 DEF slot_rows
  <2>4. s = [thought_id |-> t.thought_id, space_id |-> t.space_id,
             entity |-> source, key |-> t.key, version |-> t.version,
             is_current |-> current]
    BY <1>2, <1>4 DEF slot_rows
  <2>5. [s EXCEPT !.entity = target] =
          [thought_id |-> t.thought_id, space_id |-> t.space_id,
           entity |-> target, key |-> t.key, version |-> t.version,
           is_current |-> current]
    BY <2>4
  <2> QED
    BY <2>1, <2>3, <2>5
<1> QED
  BY <1>3, <1>4

LEMMA MergeKeeps ==
    ASSUME StoreInv, NEW c, calls[c] \in MergeCall, UpToDate(calls[c]), MergeCommit(c)
    PROVE  /\ StoreInv' /\ Refilled
           /\ \A x \in fact_slots' : \E s \in fact_slots :
                x.thought_id = s.thought_id /\ x.is_current = s.is_current
<1>1. PICK call \in MergeCall : call = calls[c]
  OBVIOUS
<1> DEFINE source == call.source
           target == call.target
           renamed(r) == r.thought.thought_id \in call.ids /\ r.thought.fill = source
           repointed(s) == s.space_id = call.space /\ s.entity = source
           Row2(r) == IF renamed(r) THEN [r EXCEPT !.thought.fill = target] ELSE r
           Slot2(s) == IF repointed(s) THEN [s EXCEPT !.entity = target] ELSE s
<1>2. /\ ada_thoughts' = {Row2(r) : r \in ada_thoughts}
      /\ fact_slots' = {Slot2(s) : s \in fact_slots}
  BY <1>1 DEF MergeCommit
<1>3. /\ source \in Entities /\ target \in Entities /\ target \in Fills
      /\ call.ids = SlotIds(Mentions(call.space, source))
  BY <1>1 DEF MergeCall, MergeCommit, UpToDate, Fills
<1>4. ASSUME NEW r \in ada_thoughts
      PROVE  /\ r \in Row /\ Row2(r) \in Row
             /\ renamed(r) => Row2(r).thought = [r.thought EXCEPT !.fill = target]
             /\ Row2(r).thought.thought_id = r.thought.thought_id
             /\ Row2(r).thought.version = r.thought.version
             /\ Row2(r).archived = r.archived
             /\ Row2(r).thought = [r.thought EXCEPT !.fill = Row2(r).thought.fill]
  <2>1. r \in Row /\ r.thought \in Thought
    BY DEF StoreInv, TablesInv, TablesTypeOK, Row
  <2>2. CASE ~renamed(r)
    BY <2>1, <2>2, SameFill
  <2>3. CASE renamed(r)
    <3>1. PICK u : u = [r.thought EXCEPT !.fill = target]
      OBVIOUS
    <3>2. Row2(r) = [thought |-> u, archived |-> r.archived]
      BY <2>1, <2>3, <3>1 DEF Row
    <3>3. /\ u \in Thought /\ u.thought_id = r.thought.thought_id
          /\ u.version = r.thought.version /\ u.fill = target
      BY <1>3, <2>1, <3>1 DEF Thought
    <3>4. u = [r.thought EXCEPT !.fill = u.fill]
      BY <3>1, <3>3
    <3>5. Row2(r) \in Row
      BY <2>1, <3>2, <3>3 DEF Row
    <3>6. Row2(r).thought = u /\ Row2(r).archived = r.archived
      BY <3>2
    <3> HIDE DEF Row2
    <3> QED
      BY <2>1, <3>1, <3>3, <3>4, <3>5, <3>6
  <2> QED
    BY <2>2, <2>3
<1>5. ASSUME NEW s \in fact_slots
      PROVE  /\ Slot2(s) \in Slot /\ Slot2(s).thought_id = s.thought_id
             /\ Slot2(s).is_current = s.is_current
  BY <1>3 DEF StoreInv, TablesInv, TablesTypeOK, Slot
<1>6. ASSUME NEW r \in ada_thoughts, NEW current,
             NEW s \in fact_slots, s \in slot_rows(r.thought, current)
      PROVE  Slot2(s) \in slot_rows(Row2(r).thought, current)
  <2>1. s.thought_id = r.thought.thought_id
    BY <1>6, SlotRowsFields
  <2>2. r.thought.thought_id \in call.ids <=> repointed(s)
    BY <1>3, <2>1
       DEF SlotIds, Mentions, SlotsOf, StoreInv, TablesInv, PrimaryKey
  <2>3. r.thought \in Thought
    BY <1>4 DEF Row
  <2>4. renamed(r) <=> repointed(s)
    BY <1>3, <1>6, <2>2, <2>3, MergedSlots
  <2>5. CASE repointed(s)
    BY <1>3, <1>4, <1>6, <2>3, <2>4, <2>5, MergedSlots
  <2>6. CASE ~repointed(s)
    BY <1>6, <2>4, <2>6
  <2> QED
    BY <2>5, <2>6
<1>7. ASSUME NEW r \in ada_thoughts, NEW current, slot_rows(r.thought, current) = {}
      PROVE  slot_rows(Row2(r).thought, current) = {}
  <2>1. r.thought.fill = NoFill
    BY <1>7 DEF slot_rows
  <2> QED
    BY <1>3, <1>7, <2>1, FillAssumption
<1> HIDE DEF renamed, repointed, Row2, Slot2
<1>8. TablesTypeOK'
  BY <1>2, <1>4, <1>5 DEF TablesTypeOK
<1>9. ASSUME NEW q \in ada_thoughts' PROVE \E r \in ada_thoughts : q = Row2(r)
  BY <1>2
<1>10. PrimaryKey'
  <2>1. ASSUME NEW q \in ada_thoughts', NEW p \in ada_thoughts',
               q.thought.thought_id = p.thought.thought_id
        PROVE  q = p
    <3>1. PICK a \in ada_thoughts, b \in ada_thoughts : q = Row2(a) /\ p = Row2(b)
      BY <1>9
    <3>2. a.thought.thought_id = b.thought.thought_id
      BY <1>4, <2>1, <3>1
    <3> QED
      BY <3>1, <3>2 DEF StoreInv, TablesInv, PrimaryKey
  <2>2. ASSUME NEW x \in fact_slots', NEW y \in fact_slots', x.thought_id = y.thought_id
        PROVE  x = y
    <3>1. PICK a \in fact_slots, b \in fact_slots : x = Slot2(a) /\ y = Slot2(b)
      BY <1>2
    <3>2. a.thought_id = b.thought_id
      BY <1>5, <2>2, <3>1
    <3> QED
      BY <3>1, <3>2 DEF StoreInv, TablesInv, PrimaryKey
  <2> QED
    BY <2>1, <2>2 DEF PrimaryKey
<1>11. VersionsBounded'
  <2>1. PICK n \in Nat : \A r \in ada_thoughts : r.thought.version <= n
    BY DEF StoreInv, VersionsBounded
  <2>2. ASSUME NEW q \in ada_thoughts' PROVE q.thought.version <= n
    BY <1>4, <1>9, <2>1
  <2> QED
    BY <2>2 DEF VersionsBounded
<1>12. SlotsDecomposeThoughts'
  <2>1. ASSUME NEW x \in fact_slots'
        PROVE  \E q \in ada_thoughts' : x \in slot_rows(q.thought, x.is_current)
    <3>1. PICK s \in fact_slots : x = Slot2(s)
      BY <1>2
    <3>2. PICK r \in ada_thoughts : s \in slot_rows(r.thought, s.is_current)
      BY DEF StoreInv, TablesInv, SlotsDecomposeThoughts
    <3>3. Slot2(s) \in slot_rows(Row2(r).thought, s.is_current)
      BY <1>6, <3>2
    <3>4. x.is_current = s.is_current /\ Row2(r) \in ada_thoughts'
      BY <1>2, <1>5, <3>1
    <3> QED
      BY <3>1, <3>3, <3>4
  <2>2. ASSUME NEW q \in ada_thoughts'
        PROVE  \E current \in BOOLEAN : slot_rows(q.thought, current) \subseteq fact_slots'
    <3>1. PICK r \in ada_thoughts : q = Row2(r)
      BY <1>2
    <3>2. PICK current \in BOOLEAN : slot_rows(r.thought, current) \subseteq fact_slots
      BY DEF StoreInv, TablesInv, SlotsDecomposeThoughts
    <3>3. CASE slot_rows(r.thought, current) = {}
      BY <1>7, <3>1, <3>3
    <3>4. ASSUME NEW s \in slot_rows(r.thought, current)
          PROVE  slot_rows(q.thought, current) \subseteq fact_slots'
      <4>1. s \in fact_slots /\ Slot2(s) \in slot_rows(q.thought, current)
        BY <1>6, <3>1, <3>2
      <4>2. Slot2(s) \in fact_slots'
        BY <1>2, <4>1
      <4> QED
        BY <4>1, <4>2, SlotRowsFields
    <3> QED
      BY <3>3, <3>4
  <2> QED
    BY <2>1, <2>2 DEF SlotsDecomposeThoughts
<1>13. Refilled
  <2>1. ASSUME NEW q \in ada_thoughts
        PROVE  \E r \in ada_thoughts' : r.thought.thought_id = q.thought.thought_id
    <3>1. Row2(q) \in ada_thoughts'
      BY <1>2
    <3> QED
      BY <1>4, <3>1
  <2>2. ASSUME NEW r \in ada_thoughts'
        PROVE  \E q \in ada_thoughts :
                  /\ r.thought = [q.thought EXCEPT !.fill = r.thought.fill]
                  /\ q.archived => r.archived
    <3>1. PICK q \in ada_thoughts : r = Row2(q)
      BY <1>9
    <3> QED
      BY <1>4, <3>1
  <2> QED
    BY <2>1, <2>2 DEF Refilled
<1>14. ASSUME NEW x \in fact_slots'
       PROVE  \E s \in fact_slots :
                 x.thought_id = s.thought_id /\ x.is_current = s.is_current
  <2>1. PICK s \in fact_slots : x = Slot2(s)
    BY <1>2
  <2> QED
    BY <1>5, <2>1
<1> QED
  BY <1>8, <1>10, <1>11, <1>12, <1>13, <1>14 DEF StoreInv, TablesInv

-----------------------------------------------------------------------------
LEMMA UnchangedRefills ==
    ASSUME StoreInv, UNCHANGED tables
    PROVE  Refilled
<1>1. \A r \in ada_thoughts : r.thought = [r.thought EXCEPT !.fill = r.thought.fill]
  BY SameFill DEF StoreInv, TablesInv, TablesTypeOK, Row
<1> QED
  BY <1>1 DEF Refilled, tables

LEMMA ArchiveRefills ==
    ASSUME StoreInv, NEW ids, archive_rows(ids)
    PROVE  Refilled
<1>1. \A r \in ada_thoughts : r.thought = [r.thought EXCEPT !.fill = r.thought.fill]
  BY SameFill DEF StoreInv, TablesInv, TablesTypeOK, Row
<1>2. ASSUME NEW q \in ada_thoughts'
      PROVE  \E r \in ada_thoughts : q.thought = r.thought /\ (r.archived => q.archived)
  BY ArchivedRows
<1>3. \A r \in ada_thoughts : \E q \in ada_thoughts' : q.thought = r.thought
  BY ArchivedRows
<1>4. ASSUME NEW q \in ada_thoughts'
      PROVE  \E r \in ada_thoughts :
                /\ q.thought = [r.thought EXCEPT !.fill = q.thought.fill]
                /\ r.archived => q.archived
  <2>1. PICK r \in ada_thoughts : q.thought = r.thought /\ (r.archived => q.archived)
    BY <1>2
  <2> QED
    BY <1>1, <2>1
<1> QED
  BY <1>3, <1>4 DEF Refilled

\* A save of new slots changes one row, and leaves what others wait to save.
LEMMA SaveRefills ==
    ASSUME StoreInv, NEW t \in Thought, NEW sp, RefillOf(t, sp), save_thought(t)
    PROVE  Refilled /\ \A x : RefillOf(x, sp) => RefillOf(x, sp)'
<1> DEFINE new == [thought |-> t, archived |-> FALSE]
<1>1. PICK p \in ada_thoughts :
         /\ p.thought.space_id = sp /\ ~p.archived
         /\ t = [p.thought EXCEPT !.fill = t.fill]
  BY DEF RefillOf, Live
<1>2. ada_thoughts' = RowsExcept({t.thought_id}) \cup {new}
  BY DEF save_thought
<1>3. p.thought \in Thought
      /\ \A r \in ada_thoughts : r.thought = [r.thought EXCEPT !.fill = r.thought.fill]
  BY SameFill DEF StoreInv, TablesInv, TablesTypeOK, Row
<1>4. t.thought_id = p.thought.thought_id /\ t.space_id = sp
  BY <1>1, <1>3 DEF Thought
<1>5. \A r \in ada_thoughts : r.thought.thought_id = t.thought_id => r = p
  BY <1>4 DEF StoreInv, TablesInv, PrimaryKey
<1>6. \A r \in RowsExcept({t.thought_id}) : r \in ada_thoughts
  BY DEF RowsExcept
<1>7. new.thought = t /\ new.archived = FALSE /\ new \in ada_thoughts'
  BY <1>2
<1> HIDE DEF new
<1>8. Refilled
  <2>1. ASSUME NEW q \in ada_thoughts
        PROVE  \E r \in ada_thoughts' : r.thought.thought_id = q.thought.thought_id
    BY <1>2, <1>7 DEF RowsExcept
  <2>2. ASSUME NEW r \in ada_thoughts'
        PROVE  \E q \in ada_thoughts :
                  /\ r.thought = [q.thought EXCEPT !.fill = r.thought.fill]
                  /\ q.archived => r.archived
    BY <1>1, <1>2, <1>3, <1>6, <1>7
  <2> QED
    BY <2>1, <2>2 DEF Refilled
<1>9. ASSUME NEW x, RefillOf(x, sp) PROVE RefillOf(x, sp)'
  <2>1. PICK r \in ada_thoughts :
           /\ r.thought.space_id = sp /\ ~r.archived
           /\ x = [r.thought EXCEPT !.fill = x.fill]
    BY <1>9 DEF RefillOf, Live
  <2>2. CASE r.thought.thought_id = t.thought_id
    <3>1. r = p
      BY <1>5, <2>2
    <3>2. x = [t EXCEPT !.fill = x.fill]
      BY <1>1, <1>3, <2>1, <3>1 DEF Thought
    <3> QED
      BY <1>4, <1>7, <3>2 DEF RefillOf, Live
  <2>3. CASE r.thought.thought_id # t.thought_id
    <3>1. r \in ada_thoughts'
      BY <1>2, <2>3 DEF RowsExcept
    <3> QED
      BY <2>1, <3>1 DEF RefillOf, Live
  <2> QED
    BY <2>2, <2>3
<1> QED
  BY <1>8, <1>9

\* What a consolidation reads it finds.
LEMMA ReadIsUpToDate ==
    ASSUME StoreInv, NEW sp, NEW me, NEW missed, NEW retired,
           NEW t \in Refills(sp, me, missed, retired)
    PROVE  RefillOf(t, sp)
<1>1. PICK r \in Live(sp) : t = Refill(r.thought, me, missed)
  BY DEF Refills, Snapshot
<1>2. r.thought \in Thought
  BY DEF Live, StoreInv, TablesInv, TablesTypeOK, Row
<1>3. t = r.thought \/ \E f : t = [r.thought EXCEPT !.fill = f]
  BY <1>1 DEF Refill
<1>4. t = [r.thought EXCEPT !.fill = t.fill]
  BY <1>2, <1>3, SameFill DEF Thought
<1> QED
  BY <1>4 DEF RefillOf

LEMMA QuietIsUpToDate ==
    ASSUME NEW c, Clients = {c}, NEW C, calls \in [Clients -> C],
           NEW call, call.pc \notin {"merge", "consolidate"},
           Begin(c, call) \/ Resume(c, call)
    PROVE  \A d \in Clients : UpToDate(calls[d])'
BY DEF Begin, Resume, UpToDate

\* A step of the other handlers never enters a consolidation or a merge, and
\* ends one only by a restart.
LEMMA AloneOthers ==
    ASSUME NEW c, Clients = {c}, NEW C, HasSqlCalls(C), calls \in [Clients -> C],
           [Next]_vars
    PROVE  \/ UNCHANGED <<tables, calls>>
           \/ /\ calls'[c].pc \notin {"merge", "consolidate"}
              /\ calls[c].pc \in {"merge", "consolidate"} => UNCHANGED tables
<1> DEFINE Rest == {"merge", "consolidate"}
           Goal == \/ UNCHANGED <<tables, calls>>
                   \/ /\ calls'[c].pc \notin Rest
                      /\ calls[c].pc \in Rest => UNCHANGED tables
<1>1. calls[c] \in C /\ calls[c].pc \in {"check", "version", "save"} => calls[c] \in TellCall
  BY DEF HasSqlCalls
<1>2. ASSUME NEW d \in Clients, NEW call, call.pc \notin Rest, Begin(d, call)
      PROVE  Goal
  BY <1>2 DEF Begin, Idle
<1>3. ASSUME NEW d \in Clients, NEW call, call.pc \notin Rest, Resume(d, call),
             calls[c].pc \notin Rest \/ UNCHANGED tables
      PROVE  Goal
  BY <1>3 DEF Resume
<1>4. Idle.pc \notin Rest /\ \A sp : Reload(sp).pc \notin Rest
  BY DEF Idle, Reload
<1>5. ASSUME NEW d \in Clients, Tell(d) PROVE Goal
  <2>1. ASSUME NEW sp \in Spaces, NEW f \in Facts, NEW k \in MaybeKeys,
               TellStart(d, sp, f, k)
        PROVE  Goal
    BY <1>2, <2>1 DEF TellStart
  <2>2. ASSUME NEW version, Build(d, version), UNCHANGED tables PROVE Goal
    BY <1>3, <2>2 DEF Build, Saving
  <2>3. CASE CheckDuplicate(d)
    <3>1. [calls[d] EXCEPT !.pc = "version"].pc \notin Rest
      BY <1>1, <2>3 DEF CheckDuplicate, TellCall
    <3> QED
      BY <1>3, <1>4, <2>2, <2>3, <3>1 DEF CheckDuplicate
  <2>4. CASE ReadVersion(d)
    BY <2>2, <2>4 DEF ReadVersion
  <2>5. CASE Save(d) \/ TellFails(d)
    BY <1>3, <1>4, <2>5 DEF Save, TellFails
  <2> QED
    BY <1>5, <2>1, <2>3, <2>4, <2>5 DEF Tell
<1>6. ASSUME NEW d \in Clients, SqlMaintain(d) PROVE Goal
  <2>1. ASSUME NEW sp, NEW ids, ForgetSelect(d, sp, ids) PROVE Goal
    BY <1>2, <2>1 DEF ForgetSelect
  <2>2. ASSUME NEW sp, ForgetAll(d, sp) PROVE Goal
    BY <1>2, <1>4, <2>2 DEF ForgetAll
  <2>3. CASE ArchiveCommit(d) \/ ForgetCommit(d) \/ AmendCommit(d)
    BY <1>3, <1>4, <2>3 DEF ArchiveCommit, ForgetCommit, AmendCommit
  <2>4. CASE MaintenanceFails(d)
    BY <1>3, <1>4, <2>4 DEF MaintenanceFails
  <2>5. ASSUME NEW sp, NEW names, ArchiveSelect(d, sp, names) PROVE Goal
    BY <1>2, <2>5 DEF ArchiveSelect
  <2>6. ASSUME NEW sp, NEW id, NEW change, AmendStart(d, sp, id, change) PROVE Goal
    BY <1>2, <2>6 DEF AmendStart
  <2> QED
    BY <1>6, <2>1, <2>2, <2>3, <2>4, <2>5, <2>6
       DEF SqlMaintain, Maintain, ForgetByKey, ForgetById, ForgetByEntity
<1>7. ASSUME NEW d \in Clients, Reloaded(d) PROVE Goal
  BY <1>3, <1>4, <1>7 DEF Reloaded
<1>8. CASE Tick \/ UNCHANGED vars
  BY <1>8 DEF Tick, vars, tables
<1>9. CASE Restart
  BY <1>4, <1>9 DEF Restart
<1> QED
  BY <1>5, <1>6, <1>7, <1>8, <1>9 DEF Next

LEMMA AloneStep ==
    ASSUME NEW c, Clients = {c}, AloneInv, [JanitorNext]_vars
    PROVE  AloneInv' /\ (JanitorStep(c) => Refilled)
<1> DEFINE C == AloneCall
           Quiet == JanitorStep(c) => Refilled
           Goal == InvWith(C)' /\ UpToDate(calls[c])' /\ Quiet
<1>1. /\ InvWith(C) /\ StoreInv /\ calls \in [Clients -> C] /\ UpToDate(calls[c])
      /\ HasSqlCalls(C) /\ HasJanitorCalls(C)
      /\ calls[c] \in C /\ Call \subseteq C
      /\ calls[c].pc = "merge" => calls[c] \in MergeCall
      /\ calls[c].pc = "consolidate" => calls[c] \in ConsolidateCall
  BY AloneCalls DEF AloneInv, InvWith, HasJanitorCalls
<1>2. SUFFICES Goal
  BY DEF AloneInv
<1>3. ASSUME NEW call, call.pc \notin {"merge", "consolidate"}, Resume(c, call)
      PROVE  UpToDate(calls[c])'
  BY <1>1, <1>3, QuietIsUpToDate
<1>4. UNCHANGED tables => Refilled /\ StoreInv'
  BY <1>1, UnchangedRefills, UnchangedStoreInv DEF tables
<1>5. Idle.pc \notin {"merge", "consolidate"}
      /\ \A sp : Reload(sp).pc \notin {"merge", "consolidate"}
  BY DEF Idle, Reload
<1>6. ASSUME NEW call, call \in C, Begin(c, call), UpToDate(call)',
             UNCHANGED <<tables, faults, clock, tells>>
      PROVE  Goal
  <2>1. InvWith(C)' /\ calls'[c] = call
    BY <1>1, <1>4, <1>6, BeginResumeType DEF InvWith, Begin
  <2>2. Quiet
    BY <1>6 DEF JanitorStep, Begin, Idle
  <2> QED
    BY <1>6, <2>1, <2>2
<1>7. CASE [Next]_vars
  <2>1. InvWith(C)'
    BY <1>1, <1>7, NextInv
  <2>2. CASE UNCHANGED <<tables, calls>>
    BY <1>1, <2>1, <2>2
       DEF UpToDate, RefillOf, Live, Mentions, SlotsOf, JanitorStep, tables
  <2>3. CASE /\ calls'[c].pc \notin {"merge", "consolidate"}
             /\ calls[c].pc \in {"merge", "consolidate"} => UNCHANGED tables
    BY <1>4, <2>1, <2>3 DEF UpToDate, JanitorStep
  <2> QED
    BY <1>1, <1>7, <2>2, <2>3, AloneOthers
<1>8. ASSUME Janitor(c) PROVE Goal
  <2>1. ASSUME NEW sp \in Spaces, NEW me \in Operators \cup {NoMe},
               ConsolidateRead(c, sp, me)
        PROVE  Goal
    <3>1. PICK retired \in Retirements(sp), missed \in SUBSET Slotless(sp) :
             Begin(c, [pc |-> "consolidate", space |-> sp,
                       pending |-> Refills(sp, me, missed, retired),
                       retired |-> retired])
      BY <2>1 DEF ConsolidateRead
    <3>2. InvWith(C)'
      BY <1>1, <1>8, <2>1, ConsolidateInv DEF Janitor
    <3>3. PICK pending : pending = Refills(sp, me, missed, retired)
      OBVIOUS
    <3>4. \A t \in pending : RefillOf(t, sp)
      BY <1>1, <3>3, ReadIsUpToDate
    <3>5. \A t \in pending : RefillOf(t, sp)'
      BY <2>1, <3>4 DEF ConsolidateRead, RefillOf, Live, tables
    <3>6. calls'[c] = [pc |-> "consolidate", space |-> sp, pending |-> pending,
                       retired |-> retired] /\ calls[c] = Idle
      BY <1>1, <3>1, <3>3 DEF Begin
    <3> QED
      BY <3>2, <3>5, <3>6 DEF UpToDate, JanitorStep, Idle
  <2>2. CASE ConsolidateSave(c)
    <3>1. PICK t \in calls[c].pending :
             save_thought(t) /\ Resume(c, [calls[c] EXCEPT !.pending = @ \ {t}])
      BY <2>2 DEF ConsolidateSave
    <3>2. PICK call \in ConsolidateCall : call = calls[c] /\ call.pc = "consolidate"
      BY <1>1, <2>2 DEF ConsolidateSave
    <3>3. t \in Thought /\ RefillOf(t, call.space)
      BY <1>1, <3>1, <3>2 DEF ConsolidateCall, UpToDate
    <3>4. Refilled /\ \A x : RefillOf(x, call.space) => RefillOf(x, call.space)'
      BY <1>1, <3>1, <3>3, SaveRefills
    <3>5. /\ calls'[c].pc = "consolidate" /\ calls'[c].space = call.space
          /\ calls'[c].pending = call.pending \ {t}
      BY <1>1, <3>1, <3>2 DEF Resume, ConsolidateCall
    <3>6. \A x \in call.pending : RefillOf(x, call.space)'
      BY <1>1, <3>2, <3>4 DEF UpToDate
    <3>7. InvWith(C)'
      BY <1>1, <1>8, <2>2, ConsolidateInv DEF Janitor
    <3> QED
      BY <3>4, <3>5, <3>6, <3>7 DEF UpToDate
  <2>3. CASE ConsolidateArchive(c)
    <3>1. InvWith(C)'
      BY <1>1, <1>8, <2>3, ConsolidateInv DEF Janitor
    <3>2. Refilled /\ UpToDate(calls[c])'
      BY <1>1, <1>3, <1>5, <2>3, ArchiveRefills DEF ConsolidateArchive
    <3> QED
      BY <3>1, <3>2
  <2>4. ASSUME NEW sp \in Spaces, NEW source \in Entities, NEW target \in Entities,
               MergeRead(c, sp, source, target)
        PROVE  Goal
    <3>1. PICK ids : ids = SlotIds(Mentions(sp, source))
      OBVIOUS
    <3>2. PICK call : call = [pc |-> "merge", space |-> sp, ids |-> ids,
                              source |-> source, target |-> target]
      OBVIOUS
    <3>3. Begin(c, call) /\ UNCHANGED <<tables, faults, clock, tells>>
      BY <1>8, <2>4, <3>1, <3>2 DEF Janitor, MergeRead
    <3>4. ids \subseteq ThoughtId
      BY <1>1, <3>1, SelectedIds DEF SlotIds, Mentions, SlotsOf, StoreInv
    <3>5. call \in C
      BY <3>2, <3>4 DEF AloneCall, MergeCall
    <3>6. UpToDate(call)'
      BY <3>1, <3>2, <3>3 DEF UpToDate, Mentions, SlotsOf, SlotIds, tables
    <3> QED
      BY <1>6, <3>3, <3>5, <3>6
  <2>5. CASE MergeCommit(c)
    <3>1. StoreInv' /\ Refilled /\ calls[c] \in MergeCall
      BY <1>1, <2>5, MergeKeeps DEF MergeCommit
    <3>2. Reload(calls[c].space) \in C
      BY <1>1, <3>1, ReloadType DEF MergeCall, HasSqlCalls, HasMaintenance
    <3>3. calls' \in [Clients -> C] /\ UpToDate(calls[c])'
      BY <1>1, <1>3, <1>5, <2>5, <3>2, BeginResumeType DEF MergeCommit
    <3> QED
      BY <1>1, <1>8, <2>5, <3>1, <3>3 DEF InvWith, MergeCommit, Janitor
  <2>6. CASE JanitorFails(c)
    <3>1. calls' \in [Clients -> C] /\ UpToDate(calls[c])'
      BY <1>1, <1>3, <1>5, <2>6, BeginResumeType DEF JanitorFails, Call
    <3> QED
      BY <1>1, <1>4, <1>8, <2>6, <3>1 DEF InvWith, JanitorFails, Janitor, Fault
  <2> QED
    BY <1>8, <2>1, <2>2, <2>3, <2>4, <2>5, <2>6 DEF Janitor
<1> QED
  BY <1>7, <1>8 DEF JanitorNext

LEMMA AloneInit ==
    ASSUME Init
    PROVE  AloneInv
<1>1. InvWith(AloneCall)
  BY AloneCalls, InitInv
<1> QED
  BY <1>1 DEF AloneInv, Init, UpToDate, Idle

(* One client that consolidates, merges entities and amends as it likes,    *)
(* and waits for each reply, keeps every type, and the slot rows stay what  *)
(* the thoughts decompose into.                                             *)
THEOREM AloneSlots ==
    ASSUME NEW c, Clients = {c}
    PROVE  JanitorSpec => [](JanitorTypeOK /\ SlotsDecomposeThoughts)
<1>1. AloneInv /\ [JanitorNext]_vars => AloneInv'
  BY AloneStep
<1>2. AloneInv => JanitorTypeOK /\ SlotsDecomposeThoughts
  BY DEF AloneInv, InvWith, AloneCall, JanitorCall, JanitorTypeOK, StoreInv, TablesInv
<1> QED
  BY <1>1, <1>2, AloneInit, PTL DEF JanitorSpec

(* And what its consolidations and merges write back loses no fact, brings  *)
(* none back, rewrites no content and takes none out of the archive.        *)
THEOREM RefillsOnly ==
    ASSUME NEW d, Clients = {d}
    PROVE  JanitorSpec => OnlyRefills
<1>1. AloneInv /\ [JanitorNext]_vars => AloneInv'
  BY AloneStep
<1>2. AloneInv /\ [JanitorNext]_vars =>
        [\A c \in Clients : JanitorStep(c) => Refilled]_vars
  BY AloneStep
<1> QED
  BY <1>1, <1>2, AloneInit, PTL DEF JanitorSpec, OnlyRefills
=============================================================================
