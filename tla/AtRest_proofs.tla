---------------------------- MODULE AtRest_proofs ----------------------------
(***************************************************************************)
(* The transactions of FactTables keep the two tables in step, whatever    *)
(* the constants and whoever issues them; and what the handlers of AtRest  *)
(* preserve in any module whose calls include theirs.                      *)
(***************************************************************************)
EXTENDS AtRest, TLAPS

\* What every transaction preserves.
TablesInv == TablesTypeOK /\ PrimaryKey /\ SlotsDecomposeThoughts

USE DEF Row

-----------------------------------------------------------------------------
LEMMA SlotRowsType ==
    ASSUME NEW t \in Thought, NEW current \in BOOLEAN
    PROVE  slot_rows(t, current) \subseteq Slot
BY FillAssumption DEF slot_rows, Slot, Thought, Fills

LEMMA SlotRowsFields ==
    ASSUME NEW t, NEW current, NEW s \in slot_rows(t, current)
    PROVE  /\ s.thought_id = t.thought_id
           /\ s.space_id = t.space_id
           /\ s.key = t.key
           /\ s.version = t.version
           /\ s.is_current = current
           /\ \A q \in slot_rows(t, current) : q = s
BY DEF slot_rows

LEMMA DemotedRows ==
    ASSUME NEW t, NEW current, NEW s \in slot_rows(t, current)
    PROVE  Demote(s) \in slot_rows(t, FALSE)
BY DEF slot_rows, Demote

LEMMA DemotedSingle ==
    ASSUME NEW t, NEW current, NEW s, slot_rows(t, current) = {s}
    PROVE  slot_rows(t, FALSE) = {Demote(s)}
<1>1. s \in slot_rows(t, current)
  OBVIOUS
<1>2. Demote(s) \in slot_rows(t, FALSE)
  BY <1>1, DemotedRows
<1> QED
  BY <1>2, SlotRowsFields

\* Whether a thought has slot rows does not depend on their being current.
LEMMA SlotRowsEmpty ==
    ASSUME NEW t, NEW a, NEW b, slot_rows(t, a) = {}
    PROVE  slot_rows(t, b) = {}
BY DEF slot_rows

LEMMA SlotRowsSingle ==
    ASSUME NEW t, NEW a, slot_rows(t, a) # {}
    PROVE  \E s : slot_rows(t, a) = {s}
BY DEF slot_rows

LEMMA DemoteType ==
    ASSUME NEW s \in Slot
    PROVE  Demote(s) \in Slot /\ Demote(s).thought_id = s.thought_id
           /\ Demote(s).space_id = s.space_id
BY DEF Demote, Slot
-----------------------------------------------------------------------------
(* The shape of a transaction that keeps the tables in step.  Every new row *)
(* is an old one outside ids or one of a set with its slots; every new slot *)
(* row is an old one outside ids, as it was or demoted, or belongs to a     *)
(* new row.                                                                 *)

LEMMA SaveType ==
    ASSUME TablesTypeOK, NEW t \in Thought, save_thought(t)
    PROVE  TablesTypeOK'
<1>1. [thought |-> t, archived |-> FALSE] \in Row
  OBVIOUS
<1>2. ada_thoughts' \subseteq Row
  BY <1>1 DEF save_thought, RowsExcept, TablesTypeOK
<1>3. slot_rows(t, TRUE) \subseteq Slot
  BY SlotRowsType
<1>4. ASSUME NEW s \in fact_slots PROVE Demote(s) \in Slot
  BY DemoteType DEF TablesTypeOK
<1>5. fact_slots' \subseteq Slot
  BY <1>3, <1>4 DEF save_thought, SlotsExcept, TablesTypeOK
<1> QED
  BY <1>2, <1>5 DEF TablesTypeOK

LEMMA SaveInv ==
    ASSUME TablesInv, NEW t \in Thought, save_thought(t)
    PROVE  TablesInv'
<1> USE DEF TablesInv
<1> DEFINE new == [thought |-> t, archived |-> FALSE]
<1>1. \A r \in ada_thoughts' :
         \/ r = new
         \/ r \in ada_thoughts /\ r.thought.thought_id # t.thought_id
  BY DEF save_thought, RowsExcept
<1>2. new \in ada_thoughts' /\ new.thought = t
  BY DEF save_thought
<1>3. \A s \in fact_slots' :
         \/ s \in slot_rows(t, TRUE)
         \/ \E old \in fact_slots : /\ old.thought_id # t.thought_id
                                    /\ s = IF Supersedes(t, old) THEN Demote(old)
                                                                 ELSE old
  BY DEF save_thought, SlotsExcept
<1>4. \A old \in fact_slots : old.thought_id # t.thought_id =>
         (IF Supersedes(t, old) THEN Demote(old) ELSE old) \in fact_slots'
  BY DEF save_thought, SlotsExcept
<1>5. slot_rows(t, TRUE) \subseteq fact_slots'
  BY DEF save_thought
<1>6. \A old \in fact_slots : Demote(old).thought_id = old.thought_id
  BY DemoteType DEF TablesTypeOK
<1>7. TablesTypeOK'
  BY SaveType
<1>8. PrimaryKey'
  <2>1. \A r, q \in ada_thoughts' :
           r.thought.thought_id = q.thought.thought_id => r = q
    BY <1>1, <1>2 DEF PrimaryKey
  <2>2. ASSUME NEW s \in fact_slots', NEW q \in fact_slots',
               s.thought_id = q.thought_id
        PROVE  s = q
    <3>1. CASE s \in slot_rows(t, TRUE) /\ q \in slot_rows(t, TRUE)
      BY <3>1, SlotRowsFields
    <3>2. ASSUME NEW x \in fact_slots', x \notin slot_rows(t, TRUE)
          PROVE  \E old \in fact_slots :
                    /\ old.thought_id # t.thought_id
                    /\ old.thought_id = x.thought_id
                    /\ x = IF Supersedes(t, old) THEN Demote(old) ELSE old
      BY <3>2, <1>3, <1>6
    <3>3. \A x \in slot_rows(t, TRUE) : x.thought_id = t.thought_id
      BY SlotRowsFields
    <3>4. CASE s \notin slot_rows(t, TRUE) /\ q \notin slot_rows(t, TRUE)
      <4>1. PICK a \in fact_slots :
               /\ a.thought_id = s.thought_id
               /\ s = IF Supersedes(t, a) THEN Demote(a) ELSE a
        BY <3>2, <3>4
      <4>2. PICK b \in fact_slots :
               /\ b.thought_id = q.thought_id
               /\ q = IF Supersedes(t, b) THEN Demote(b) ELSE b
        BY <3>2, <3>4
      <4>3. a = b
        BY <4>1, <4>2, <2>2 DEF PrimaryKey
      <4> QED
        BY <4>1, <4>2, <4>3
    <3> QED
      BY <3>1, <3>2, <3>3, <3>4, <2>2
  <2> QED
    BY <2>1, <2>2 DEF PrimaryKey
<1>9. ASSUME NEW s \in fact_slots'
      PROVE  \E r \in ada_thoughts' : s \in slot_rows(r.thought, s.is_current)
  <2>1. CASE s \in slot_rows(t, TRUE)
    BY <2>1, <1>2, SlotRowsFields
  <2>2. ASSUME NEW old \in fact_slots, old.thought_id # t.thought_id,
               s = IF Supersedes(t, old) THEN Demote(old) ELSE old
        PROVE  \E r \in ada_thoughts' : s \in slot_rows(r.thought, s.is_current)
    <3>1. PICK r \in ada_thoughts : old \in slot_rows(r.thought, old.is_current)
      BY DEF SlotsDecomposeThoughts
    <3>2. r \in ada_thoughts'
      BY <3>1, <2>2, SlotRowsFields DEF save_thought, RowsExcept
    <3>3. s \in slot_rows(r.thought, s.is_current)
      BY <3>1, <2>2, DemotedRows, SlotRowsFields
    <3> QED
      BY <3>2, <3>3
  <2> QED
    BY <2>1, <2>2, <1>3
<1>10. ASSUME NEW r \in ada_thoughts'
       PROVE  \E current \in BOOLEAN : slot_rows(r.thought, current) \subseteq fact_slots'
  <2>1. CASE r = new
    BY <2>1, <1>2, <1>5
  <2>2. CASE r \in ada_thoughts /\ r.thought.thought_id # t.thought_id
    <3>1. PICK c \in BOOLEAN : slot_rows(r.thought, c) \subseteq fact_slots
      BY <2>2 DEF SlotsDecomposeThoughts
    <3>2. CASE slot_rows(r.thought, c) = {}
      BY <3>2
    <3>3. CASE slot_rows(r.thought, c) # {}
      <4>1. PICK s : slot_rows(r.thought, c) = {s}
        BY <3>3, SlotRowsSingle
      <4>2. s \in fact_slots /\ s.thought_id # t.thought_id
        BY <4>1, <3>1, <2>2, SlotRowsFields
      <4>3. CASE Supersedes(t, s)
        <5>1. slot_rows(r.thought, FALSE) = {Demote(s)}
          BY <4>1, DemotedSingle
        <5> QED
          BY <5>1, <4>2, <4>3, <1>4
      <4>4. CASE ~Supersedes(t, s)
        BY <4>1, <4>2, <4>4, <1>4
      <4> QED
        BY <4>3, <4>4
    <3> QED
      BY <3>2, <3>3
  <2> QED
    BY <2>1, <2>2, <1>1
<1> QED
  BY <1>7, <1>8, <1>9, <1>10 DEF SlotsDecomposeThoughts

-----------------------------------------------------------------------------
LEMMA AmendedType ==
    ASSUME NEW t \in Thought,
           NEW text \in Texts \cup {Keep}, NEW facts \in Fills \cup {Keep}
    PROVE  /\ Amended(t, text, facts) \in Thought
           /\ Amended(t, text, facts).thought_id = t.thought_id
BY DEF Amended, Thought

LEMMA PlaceInChainType ==
    ASSUME NEW id
    PROVE  PlaceInChain(id) \in BOOLEAN
BY DEF PlaceInChain

LEMMA AmendInv ==
    ASSUME TablesInv, NEW r \in ada_thoughts,
           NEW text \in Texts \cup {Keep}, NEW facts \in Fills \cup {Keep},
           amend_thought(r, text, facts)
    PROVE  TablesInv'
<1> USE DEF TablesInv
<1> DEFINE id == r.thought.thought_id
           t == Amended(r.thought, text, facts)
           new == [r EXCEPT !.thought = t]
           place == PlaceInChain(id)
<1>1. r \in Row /\ r.thought \in Thought
  BY DEF TablesTypeOK
<1>2. t \in Thought /\ t.thought_id = id /\ place \in BOOLEAN
  BY <1>1, AmendedType, PlaceInChainType
<1>3. new \in Row /\ new.thought = t
  BY <1>1, <1>2
<1> HIDE DEF t, new, place
<1>4. ada_thoughts' = RowsExcept({id}) \cup {new}
  BY DEF amend_thought, t, new
<1>5. fact_slots' = SlotsExcept({id}) \cup slot_rows(t, place)
  BY DEF amend_thought, t, place
<1>6. slot_rows(t, place) \subseteq Slot
  BY <1>2, SlotRowsType
<1>7. TablesTypeOK'
  BY <1>3, <1>4, <1>5, <1>6 DEF TablesTypeOK, RowsExcept, SlotsExcept
<1>8. \A s \in slot_rows(t, place) : s.thought_id = id /\ s.is_current = place
  BY <1>2, SlotRowsFields
<1>9. PrimaryKey'
  <2>1. \A x, y \in ada_thoughts' :
           x.thought.thought_id = y.thought.thought_id => x = y
    BY <1>2, <1>3, <1>4 DEF PrimaryKey, RowsExcept
  <2>2. \A x, y \in slot_rows(t, place) : x = y
    BY SlotRowsFields
  <2>3. \A x, y \in fact_slots' : x.thought_id = y.thought_id => x = y
    BY <2>2, <1>5, <1>8 DEF PrimaryKey, SlotsExcept
  <2> QED
    BY <2>1, <2>3 DEF PrimaryKey
<1>10. ASSUME NEW s \in fact_slots'
       PROVE  \E x \in ada_thoughts' : s \in slot_rows(x.thought, s.is_current)
  <2>1. CASE s \in slot_rows(t, place)
    BY <2>1, <1>3, <1>4, <1>8
  <2>2. CASE s \in fact_slots /\ s.thought_id # id
    <3>1. PICK x \in ada_thoughts : s \in slot_rows(x.thought, s.is_current)
      BY <2>2 DEF SlotsDecomposeThoughts
    <3>2. x \in ada_thoughts'
      BY <3>1, <2>2, <1>4, SlotRowsFields DEF RowsExcept
    <3> QED
      BY <3>1, <3>2
  <2> QED
    BY <2>1, <2>2, <1>5 DEF SlotsExcept
<1>11. ASSUME NEW x \in ada_thoughts'
       PROVE  \E current \in BOOLEAN : slot_rows(x.thought, current) \subseteq fact_slots'
  <2>1. CASE x = new
    BY <2>1, <1>2, <1>3, <1>5
  <2>2. CASE x \in ada_thoughts /\ x.thought.thought_id # id
    <3>1. PICK c \in BOOLEAN : slot_rows(x.thought, c) \subseteq fact_slots
      BY <2>2 DEF SlotsDecomposeThoughts
    <3>2. slot_rows(x.thought, c) \subseteq fact_slots'
      BY <3>1, <2>2, <1>5, SlotRowsFields DEF SlotsExcept
    <3> QED
      BY <3>2
  <2> QED
    BY <2>1, <2>2, <1>4 DEF RowsExcept
<1> QED
  BY <1>7, <1>9, <1>10, <1>11 DEF SlotsDecomposeThoughts

-----------------------------------------------------------------------------
LEMMA ArchiveInv ==
    ASSUME TablesInv, NEW ids, archive_rows(ids)
    PROVE  TablesInv'
<1> USE DEF TablesInv
<1> DEFINE retired(r) == IF r.thought.thought_id \in ids
                         THEN [r EXCEPT !.archived = TRUE] ELSE r
           demoted(s) == IF s.thought_id \in ids THEN Demote(s) ELSE s
<1>1. \A r \in ada_thoughts : retired(r) \in Row /\ retired(r).thought = r.thought
  BY DEF TablesTypeOK
<1>2. \A s \in fact_slots : /\ demoted(s) \in Slot
                           /\ demoted(s).thought_id = s.thought_id
  BY DemoteType DEF TablesTypeOK
<1>3. /\ \A r \in ada_thoughts : retired(r) \in ada_thoughts'
      /\ \A x \in ada_thoughts' : \E r \in ada_thoughts : x = retired(r)
  BY DEF archive_rows, RowsExcept
<1>4. /\ \A s \in fact_slots : demoted(s) \in fact_slots'
      /\ \A x \in fact_slots' : \E s \in fact_slots : x = demoted(s)
  BY DEF archive_rows, SlotsExcept
<1>5. \A t, c : \A s \in slot_rows(t, c) :
         demoted(s) \in slot_rows(t, demoted(s).is_current)
  BY DemotedRows, SlotRowsFields
<1> HIDE DEF retired, demoted
<1>6. TablesTypeOK'
  BY <1>1, <1>2, <1>3, <1>4 DEF TablesTypeOK
<1>7. PrimaryKey'
  BY <1>1, <1>2, <1>3, <1>4 DEF PrimaryKey
<1>8. ASSUME NEW x \in fact_slots'
      PROVE  \E r \in ada_thoughts' : x \in slot_rows(r.thought, x.is_current)
  <2>1. PICK s \in fact_slots : x = demoted(s)
    BY <1>4
  <2>2. PICK r \in ada_thoughts : s \in slot_rows(r.thought, s.is_current)
    BY DEF SlotsDecomposeThoughts
  <2>3. x \in slot_rows(r.thought, x.is_current)
    BY <2>1, <2>2, <1>5
  <2> QED
    BY <2>3, <1>1, <1>3
<1>9. ASSUME NEW x \in ada_thoughts'
      PROVE  \E current \in BOOLEAN : slot_rows(x.thought, current) \subseteq fact_slots'
  <2>1. PICK r \in ada_thoughts : x = retired(r)
    BY <1>3
  <2>2. PICK c \in BOOLEAN : slot_rows(r.thought, c) \subseteq fact_slots
    BY DEF SlotsDecomposeThoughts
  <2>3. CASE slot_rows(r.thought, c) = {}
    BY <2>1, <2>2, <2>3, <1>1
  <2>4. CASE slot_rows(r.thought, c) # {}
    <3>1. PICK s : slot_rows(r.thought, c) = {s}
      BY <2>4, SlotRowsSingle
    <3>2. slot_rows(r.thought, FALSE) = {Demote(s)}
      BY <3>1, DemotedSingle
    <3>3. demoted(s) \in fact_slots'
      BY <3>1, <2>2, <1>4
    <3> QED
      BY <3>1, <3>2, <3>3, <2>1, <2>2, <1>1 DEF demoted
  <2> QED
    BY <2>3, <2>4
<1> QED
  BY <1>6, <1>7, <1>8, <1>9 DEF SlotsDecomposeThoughts

-----------------------------------------------------------------------------
LEMMA DeleteRowsInv ==
    ASSUME TablesInv, NEW ids, delete_rows(ids)
    PROVE  TablesInv'
<1> USE DEF TablesInv
<1>1. ada_thoughts' = RowsExcept(ids) /\ fact_slots' = SlotsExcept(ids)
  BY DEF delete_rows
<1>2. TablesTypeOK' /\ PrimaryKey'
  BY <1>1 DEF TablesTypeOK, PrimaryKey, RowsExcept, SlotsExcept
<1>3. ASSUME NEW s \in fact_slots'
      PROVE  \E r \in ada_thoughts' : s \in slot_rows(r.thought, s.is_current)
  <2>1. s \in fact_slots /\ s.thought_id \notin ids
    BY <1>1 DEF SlotsExcept
  <2>2. PICK r \in ada_thoughts : s \in slot_rows(r.thought, s.is_current)
    BY <2>1 DEF SlotsDecomposeThoughts
  <2>3. r \in ada_thoughts'
    BY <1>1, <2>1, <2>2, SlotRowsFields DEF RowsExcept
  <2> QED
    BY <2>2, <2>3
<1>4. ASSUME NEW r \in ada_thoughts'
      PROVE  \E current \in BOOLEAN : slot_rows(r.thought, current) \subseteq fact_slots'
  <2>1. r \in ada_thoughts /\ r.thought.thought_id \notin ids
    BY <1>1 DEF RowsExcept
  <2>2. PICK c \in BOOLEAN : slot_rows(r.thought, c) \subseteq fact_slots
    BY <2>1 DEF SlotsDecomposeThoughts
  <2>3. slot_rows(r.thought, c) \subseteq fact_slots'
    BY <1>1, <2>1, <2>2, SlotRowsFields DEF SlotsExcept
  <2> QED
    BY <2>3
<1> QED
  BY <1>2, <1>3, <1>4 DEF SlotsDecomposeThoughts

LEMMA DeleteSpaceInv ==
    ASSUME TablesInv, NEW sp, delete_space(sp)
    PROVE  TablesInv'
<1> USE DEF TablesInv
<1>1. /\ ada_thoughts' = {r \in ada_thoughts : r.thought.space_id # sp}
      /\ fact_slots' = {s \in fact_slots : s.space_id # sp}
  BY DEF delete_space
<1>2. TablesTypeOK' /\ PrimaryKey'
  BY <1>1 DEF TablesTypeOK, PrimaryKey
<1>3. ASSUME NEW s \in fact_slots'
      PROVE  \E r \in ada_thoughts' : s \in slot_rows(r.thought, s.is_current)
  <2>1. PICK r \in ada_thoughts : s \in slot_rows(r.thought, s.is_current)
    BY <1>1 DEF SlotsDecomposeThoughts
  <2>2. r \in ada_thoughts'
    BY <1>1, <2>1, SlotRowsFields
  <2> QED
    BY <2>1, <2>2
<1>4. ASSUME NEW r \in ada_thoughts'
      PROVE  \E current \in BOOLEAN : slot_rows(r.thought, current) \subseteq fact_slots'
  <2>1. r \in ada_thoughts /\ r.thought.space_id # sp
    BY <1>1
  <2>2. PICK c \in BOOLEAN : slot_rows(r.thought, c) \subseteq fact_slots
    BY <2>1 DEF SlotsDecomposeThoughts
  <2>3. slot_rows(r.thought, c) \subseteq fact_slots'
    BY <1>1, <2>1, <2>2, SlotRowsFields
  <2> QED
    BY <2>3
<1> QED
  BY <1>2, <1>3, <1>4 DEF SlotsDecomposeThoughts

LEMMA UnchangedInv ==
    ASSUME TablesInv, UNCHANGED <<ada_thoughts, fact_slots>>
    PROVE  TablesInv'
BY DEF TablesInv, TablesTypeOK, PrimaryKey, SlotsDecomposeThoughts

LEMMA EmptyTablesInv ==
    ASSUME ada_thoughts = {}, fact_slots = {}
    PROVE  TablesInv
BY DEF TablesInv, TablesTypeOK, PrimaryKey, SlotsDecomposeThoughts

-----------------------------------------------------------------------------
\* The stored versions are bounded, so that a key has a last version.
VersionsBounded ==
    \E n \in Nat : \A r \in ada_thoughts : r.thought.version <= n

StoreInv == TablesInv /\ VersionsBounded

LEMMA SaveStoreInv ==
    ASSUME StoreInv, NEW t \in Thought, save_thought(t)
    PROVE  StoreInv'
<1>1. TablesInv'
  BY SaveInv DEF StoreInv
<1>2. PICK n \in Nat : \A r \in ada_thoughts : r.thought.version <= n
  BY DEF StoreInv, VersionsBounded
<1>3. t.version \in Nat
  BY DEF Thought
<1>4. \A r \in ada_thoughts : r.thought.version \in Nat
  BY DEF StoreInv, TablesInv, TablesTypeOK, Thought
<1>5. n + t.version \in Nat
  BY <1>3
<1>6. \A r \in ada_thoughts' : r.thought = t \/ r \in ada_thoughts
  BY DEF save_thought, RowsExcept
<1>7. \A r \in ada_thoughts' : r.thought.version <= n + t.version
  BY <1>2, <1>3, <1>4, <1>6
<1> QED
  BY <1>1, <1>5, <1>7 DEF StoreInv, VersionsBounded

LEMMA AmendStoreInv ==
    ASSUME StoreInv, NEW r \in ada_thoughts,
           NEW text \in Texts \cup {Keep}, NEW facts \in Fills \cup {Keep},
           amend_thought(r, text, facts)
    PROVE  StoreInv'
<1>1. TablesInv'
  BY AmendInv DEF StoreInv
<1>2. r \in Row /\ r.thought \in Thought
  BY DEF StoreInv, TablesInv, TablesTypeOK
<1>3. Amended(r.thought, text, facts).version = r.thought.version
  BY <1>2 DEF Amended, Thought
<1>4. \A x \in ada_thoughts' :
         x.thought.version = r.thought.version \/ x \in ada_thoughts
  BY <1>2, <1>3 DEF amend_thought, RowsExcept
<1> QED
  BY <1>1, <1>4 DEF StoreInv, VersionsBounded

LEMMA ArchiveStoreInv ==
    ASSUME StoreInv, NEW ids, archive_rows(ids)
    PROVE  StoreInv'
<1>1. TablesInv'
  BY ArchiveInv DEF StoreInv
<1>2. \A r \in ada_thoughts : [r EXCEPT !.archived = TRUE].thought = r.thought
  BY DEF StoreInv, TablesInv, TablesTypeOK
<1>3. \A x \in ada_thoughts' : \E r \in ada_thoughts : x.thought = r.thought
  BY <1>2 DEF archive_rows, RowsExcept
<1> QED
  BY <1>1, <1>3 DEF StoreInv, VersionsBounded

LEMMA DeleteRowsStoreInv ==
    ASSUME StoreInv, NEW ids, delete_rows(ids)
    PROVE  StoreInv'
BY DeleteRowsInv DEF StoreInv, VersionsBounded, delete_rows, RowsExcept

LEMMA DeleteSpaceStoreInv ==
    ASSUME StoreInv, NEW sp, delete_space(sp)
    PROVE  StoreInv'
BY DeleteSpaceInv DEF StoreInv, VersionsBounded, delete_space

LEMMA UnchangedStoreInv ==
    ASSUME StoreInv, UNCHANGED <<ada_thoughts, fact_slots>>
    PROVE  StoreInv'
BY UnchangedInv DEF StoreInv, VersionsBounded

LEMMA EmptyStoreInv ==
    ASSUME ada_thoughts = {}, fact_slots = {}
    PROVE  StoreInv
BY EmptyTablesInv DEF StoreInv, VersionsBounded

-----------------------------------------------------------------------------
(* One space only: with two a save can take over a row of the other one,    *)
(* as ids do not carry the space.                                           *)
OneSpace == Spaces = {Main}

\* The id of a thought tells its key and its version.
Named(t) == t.thought_id[1] = t.key /\ t.thought_id[3] = t.version

RowsNamed == \A r \in ada_thoughts : Named(r.thought)

LEMMA SlotOfRow ==
    ASSUME StoreInv, NEW r \in ada_thoughts, NEW s \in fact_slots,
           r.thought.thought_id = s.thought_id
    PROVE  /\ s \in slot_rows(r.thought, s.is_current)
           /\ s.space_id = r.thought.space_id /\ s.key = r.thought.key
           /\ s.version = r.thought.version
<1>1. PICK q \in ada_thoughts : s \in slot_rows(q.thought, s.is_current)
  BY DEF StoreInv, TablesInv, SlotsDecomposeThoughts
<1>2. q = r
  BY <1>1, SlotRowsFields DEF StoreInv, TablesInv, PrimaryKey
<1> QED
  BY <1>1, <1>2, SlotRowsFields

LEMMA RowOfSlot ==
    ASSUME StoreInv, NEW s \in fact_slots
    PROVE  \E r \in ada_thoughts :
              /\ r.thought.thought_id = s.thought_id
              /\ r.thought.space_id = s.space_id
              /\ r.thought.key = s.key /\ r.thought.version = s.version
<1>1. PICK q \in ada_thoughts : s \in slot_rows(q.thought, s.is_current)
  BY DEF StoreInv, TablesInv, SlotsDecomposeThoughts
<1> QED
  BY <1>1, SlotRowsFields

-----------------------------------------------------------------------------
\* Names.

LEMMA SaveNames ==
    ASSUME RowsNamed, NEW t, Named(t), save_thought(t)
    PROVE  RowsNamed'
BY DEF RowsNamed, save_thought, RowsExcept

\* What an amendment leaves alone.
LEMMA AmendedFields ==
    ASSUME NEW t \in Thought, NEW text, NEW facts
    PROVE  LET a == Amended(t, text, facts) IN
           /\ a.thought_id = t.thought_id /\ a.space_id = t.space_id
           /\ a.key = t.key /\ a.version = t.version
BY DEF Amended, Thought

\* An amended row keeps its id, space, key, version and flag.
LEMMA AmendedRows ==
    ASSUME StoreInv, NEW r \in ada_thoughts, NEW text, NEW facts,
           amend_thought(r, text, facts)
    PROVE  /\ \A q \in ada_thoughts' : \E p \in ada_thoughts :
                /\ p.thought.thought_id = q.thought.thought_id
                /\ p.thought.space_id = q.thought.space_id
                /\ p.thought.key = q.thought.key
                /\ p.thought.version = q.thought.version
                /\ p.archived = q.archived
           /\ \A p \in ada_thoughts : \E q \in ada_thoughts' :
                /\ p.thought.space_id = q.thought.space_id
                /\ p.thought.key = q.thought.key
                /\ p.thought.version = q.thought.version
<1> DEFINE id == r.thought.thought_id
           t == Amended(r.thought, text, facts)
           new == [r EXCEPT !.thought = t]
<1>1. r \in Row /\ r.thought \in Thought /\ new.thought = t
      /\ new.archived = r.archived
  BY DEF StoreInv, TablesInv, TablesTypeOK, Row
<1>2. /\ t.thought_id = id /\ t.space_id = r.thought.space_id
      /\ t.key = r.thought.key /\ t.version = r.thought.version
  BY <1>1, AmendedFields
<1>3. ada_thoughts' = RowsExcept({id}) \cup {new}
  BY DEF amend_thought
<1> HIDE DEF t, new
<1>4. ASSUME NEW p \in ada_thoughts, p.thought.thought_id = id PROVE p = r
  BY <1>4 DEF StoreInv, TablesInv, PrimaryKey
<1> QED
  BY <1>1, <1>2, <1>3, <1>4 DEF RowsExcept

LEMMA AmendNames ==
    ASSUME StoreInv, RowsNamed, NEW r \in ada_thoughts, NEW text, NEW facts,
           amend_thought(r, text, facts)
    PROVE  RowsNamed'
BY AmendedRows DEF RowsNamed, Named

\* Archiving changes the flag of a row only.
LEMMA ArchivedRows ==
    ASSUME StoreInv, NEW ids, archive_rows(ids)
    PROVE  /\ \A q \in ada_thoughts' :
                \/ q \in ada_thoughts /\ q.thought.thought_id \notin ids
                \/ q.archived /\ \E r \in ada_thoughts : q.thought = r.thought
           /\ \A r \in ada_thoughts : \E q \in ada_thoughts' :
                q.thought = r.thought
<1>1. \A r \in ada_thoughts : [r EXCEPT !.archived = TRUE].thought = r.thought
                              /\ [r EXCEPT !.archived = TRUE].archived
  BY DEF StoreInv, TablesInv, TablesTypeOK, Row
<1> QED
  BY <1>1 DEF archive_rows, RowsExcept

LEMMA ArchiveNames ==
    ASSUME StoreInv, RowsNamed, NEW ids, archive_rows(ids)
    PROVE  RowsNamed'
BY ArchivedRows DEF RowsNamed

LEMMA DeleteNames ==
    ASSUME RowsNamed, ada_thoughts' \subseteq ada_thoughts
    PROVE  RowsNamed'
BY DEF RowsNamed

-----------------------------------------------------------------------------
\* The newest version keeps the answer.

LEMMA SaveNewest ==
    ASSUME OneSpace, StoreInv, RowsNamed, NewestIsCurrent,
           NEW t \in Thought, Named(t), save_thought(t)
    PROVE  NewestIsCurrent'
<1> DEFINE new == [thought |-> t, archived |-> FALSE]
<1>2. \A r \in ada_thoughts' : r = new \/ r \in RowsExcept({t.thought_id})
  BY DEF save_thought
<1>4. ASSUME NEW r \in ada_thoughts', NEW s \in fact_slots',
             r.thought.thought_id = s.thought_id,
             r.thought.key # NoKey, ~r.archived,
             \A v \in Versions(r.thought.space_id, r.thought.key)' :
                v <= r.thought.version
      PROVE  s.is_current
  <2>1. CASE s \in slot_rows(t, TRUE)
    BY <2>1, SlotRowsFields
  <2>2. CASE s \notin slot_rows(t, TRUE)
    <3>1. PICK x \in SlotsExcept({t.thought_id}) :
             \/ s = x /\ ~Supersedes(t, x)
             \/ s = Demote(x) /\ Supersedes(t, x)
      BY <2>2 DEF save_thought
    <3>2. x \in fact_slots /\ x.thought_id # t.thought_id /\ x \in Slot
      BY <3>1 DEF SlotsExcept, StoreInv, TablesInv, TablesTypeOK
    <3>3. s.thought_id = x.thought_id
      BY <3>1, <3>2, DemoteType
    <3>4. r # new
      BY <1>4, <3>2, <3>3
    <3>5. r \in ada_thoughts
      BY <1>2, <3>4 DEF RowsExcept
    <3>6. /\ r \in Row /\ t.version \in Nat /\ r.thought.version \in Nat
          /\ t.space_id = r.thought.space_id
      BY <3>5 DEF OneSpace, StoreInv, TablesInv, TablesTypeOK, Row, Thought
    <3>7. x.key = r.thought.key /\ x.version = r.thought.version
          /\ x.space_id = r.thought.space_id
      BY <1>4, <3>2, <3>3, <3>5, SlotOfRow
    <3>8. t.key = r.thought.key => t.version <= r.thought.version
      <4>1. new \in ada_thoughts'
        BY DEF save_thought
      <4>2. t.key = r.thought.key =>
              t.version \in Versions(r.thought.space_id, r.thought.key)'
        BY <3>6, <4>1 DEF Versions
      <4> QED
        BY <1>4, <4>2
    <3>9. s = x
      BY <3>1, <3>6, <3>7, <3>8 DEF Supersedes
    <3>10. \A v \in Versions(r.thought.space_id, r.thought.key) :
              v <= r.thought.version
      <4>1. SUFFICES ASSUME NEW q \in ada_thoughts,
                            q.thought.space_id = r.thought.space_id,
                            q.thought.key = r.thought.key
                     PROVE  q.thought.version <= r.thought.version
        BY DEF Versions
      <4>2. CASE q.thought.thought_id = t.thought_id
        <5>1. q.thought.key = t.key /\ q.thought.version = t.version
          BY <4>2 DEF RowsNamed, Named
        <5> QED
          BY <3>8, <4>1, <5>1
      <4>3. CASE q.thought.thought_id # t.thought_id
        <5>1. q \in ada_thoughts'
          BY <4>3 DEF save_thought, RowsExcept
        <5>2. q.thought.version \in Versions(r.thought.space_id, r.thought.key)'
          BY <4>1, <5>1 DEF Versions
        <5> QED
          BY <1>4, <5>2
      <4> QED
        BY <4>2, <4>3
    <3>11. x.is_current
      BY <1>4, <3>2, <3>3, <3>5, <3>10 DEF NewestIsCurrent
    <3> QED
      BY <3>9, <3>11
  <2> QED
    BY <2>1, <2>2
<1> QED
  BY <1>4 DEF NewestIsCurrent

LEMMA AmendNewest ==
    ASSUME StoreInv, NewestIsCurrent, NEW r \in ada_thoughts, NEW text, NEW facts,
           amend_thought(r, text, facts)
    PROVE  NewestIsCurrent'
<1> DEFINE id == r.thought.thought_id
           t == Amended(r.thought, text, facts)
<1>1. t.thought_id = id
  BY AmendedFields DEF StoreInv, TablesInv, TablesTypeOK, Row
<1>2. fact_slots' = SlotsExcept({id}) \cup slot_rows(t, PlaceInChain(id))
  BY DEF amend_thought
<1> HIDE DEF id, t
<1>3. ASSUME NEW q \in ada_thoughts', NEW s \in fact_slots',
             q.thought.thought_id = s.thought_id,
             q.thought.key # NoKey, ~q.archived,
             \A v \in Versions(q.thought.space_id, q.thought.key)' :
                v <= q.thought.version
      PROVE  s.is_current
  <2>1. PICK p \in ada_thoughts :
           /\ p.thought.thought_id = q.thought.thought_id
           /\ p.thought.space_id = q.thought.space_id
           /\ p.thought.key = q.thought.key
           /\ p.thought.version = q.thought.version
           /\ p.archived = q.archived
    BY AmendedRows
  <2>2. \A v \in Versions(p.thought.space_id, p.thought.key) : v <= p.thought.version
    BY <1>3, <2>1, AmendedRows DEF Versions
  <2>3. \A x \in fact_slots : x.thought_id = s.thought_id => x.is_current
    BY <1>3, <2>1, <2>2 DEF NewestIsCurrent
  <2>4. CASE s \in SlotsExcept({id})
    BY <2>3, <2>4 DEF SlotsExcept
  <2>5. CASE s \in slot_rows(t, PlaceInChain(id))
    <3>1. s.thought_id = id /\ s.is_current = PlaceInChain(id)
      BY <1>1, <2>5, SlotRowsFields
    <3> QED
      BY <2>3, <3>1 DEF PlaceInChain
  <2> QED
    BY <1>2, <2>4, <2>5
<1> QED
  BY <1>3 DEF NewestIsCurrent

LEMMA ArchiveNewest ==
    ASSUME StoreInv, NewestIsCurrent, NEW ids, archive_rows(ids)
    PROVE  NewestIsCurrent'
<1>1. \A sp, k : Versions(sp, k) \subseteq Versions(sp, k)'
  BY ArchivedRows DEF Versions
<1>2. \A s \in fact_slots' : s.thought_id \in ids \/ s \in fact_slots
  <2>1. \A s \in fact_slots : Demote(s).thought_id = s.thought_id
    BY DemoteType DEF StoreInv, TablesInv, TablesTypeOK
  <2> QED
    BY <2>1 DEF archive_rows, SlotsExcept
<1> QED
  BY <1>1, <1>2, ArchivedRows DEF NewestIsCurrent

LEMMA DeleteSpaceNewest ==
    ASSUME NewestIsCurrent, NEW sp, delete_space(sp)
    PROVE  NewestIsCurrent'
<1>1. /\ ada_thoughts' \subseteq ada_thoughts /\ fact_slots' \subseteq fact_slots
      /\ \A r \in ada_thoughts' : r.thought.space_id # sp
      /\ \A r \in ada_thoughts : r.thought.space_id # sp => r \in ada_thoughts'
  BY DEF delete_space
<1>2. \A r \in ada_thoughts' :
         Versions(r.thought.space_id, r.thought.key)
           \subseteq Versions(r.thought.space_id, r.thought.key)'
  BY <1>1 DEF Versions
<1> QED
  BY <1>1, <1>2 DEF NewestIsCurrent

LEMMA UnchangedNewest ==
    ASSUME NewestIsCurrent, UNCHANGED tables
    PROVE  NewestIsCurrent'
BY DEF NewestIsCurrent, Versions, tables

-----------------------------------------------------------------------------
\* One version of a key answers.

\* t is newer than every stored version of its key.
NewerThanAll(t) ==
    t.key # NoKey => \A v \in Versions(t.space_id, t.key) : v < t.version

LEMMA SaveOne ==
    ASSUME StoreInv, OneCurrentVersion, NEW t \in Thought, NewerThanAll(t), save_thought(t)
    PROVE  OneCurrentVersion'
<1> DEFINE new == slot_rows(t, TRUE)
           kept == SlotsExcept({t.thought_id})
<1>1. fact_slots' = new \cup {s \in kept : ~Supersedes(t, s)}
                      \cup {Demote(s) : s \in {x \in kept : Supersedes(t, x)}}
  BY DEF save_thought
<1>2. \A s \in new : s.key = t.key /\ s.space_id = t.space_id
                     /\ \A q \in new : q = s
  BY SlotRowsFields
<1>3. kept \subseteq fact_slots
  BY DEF SlotsExcept
<1>4. ASSUME NEW s \in kept PROVE ~Demote(s).is_current
  BY <1>3, <1>4 DEF Demote, StoreInv, TablesInv, TablesTypeOK, Slot
<1>5. ASSUME NEW s \in kept, ~Supersedes(t, s), s.key = t.key,
             s.space_id = t.space_id
      PROVE  t.key = NoKey
  <2>1. PICK r \in ada_thoughts :
           /\ r.thought.space_id = s.space_id
           /\ r.thought.key = s.key /\ r.thought.version = s.version
    BY <1>3, RowOfSlot
  <2>2. s.version \in Versions(t.space_id, t.key)
    BY <1>5, <2>1 DEF Versions
  <2> QED
    BY <1>5, <2>2 DEF Supersedes, NewerThanAll
<1> HIDE DEF new, kept
<1>6. \A s \in fact_slots' : s.is_current => s \in new \/ (s \in kept /\ ~Supersedes(t, s))
  BY <1>1, <1>4
<1> QED
  BY <1>2, <1>3, <1>5, <1>6 DEF OneCurrentVersion

LEMMA AmendOne ==
    ASSUME StoreInv, OneCurrentVersion, NEW r \in ada_thoughts, NEW text, NEW facts,
           amend_thought(r, text, facts)
    PROVE  OneCurrentVersion'
<1> DEFINE id == r.thought.thought_id
           t == Amended(r.thought, text, facts)
           new == slot_rows(t, PlaceInChain(id))
<1>1. fact_slots' = SlotsExcept({id}) \cup new
  BY DEF amend_thought
<1>2. t.key = r.thought.key /\ t.space_id = r.thought.space_id
  BY AmendedFields DEF StoreInv, TablesInv, TablesTypeOK, Row
<1>3. \A s \in new : /\ s.key = t.key /\ s.space_id = t.space_id
                     /\ s.is_current = PlaceInChain(id)
                     /\ \A q \in new : q = s
  BY SlotRowsFields
<1>4. ASSUME NEW s \in new, s.is_current, s.key # NoKey,
             NEW q \in SlotsExcept({id}), q.is_current,
             q.key = s.key, q.space_id = s.space_id
      PROVE  FALSE
  <2>1. PICK current \in BOOLEAN : slot_rows(r.thought, current) \subseteq fact_slots
    BY DEF StoreInv, TablesInv, SlotsDecomposeThoughts
  <2>2. PICK x : x \in slot_rows(r.thought, current)
    BY <1>2, <1>3, <1>4 DEF slot_rows
  <2>3. /\ x \in fact_slots /\ x.thought_id = id
        /\ x.key = r.thought.key /\ x.space_id = r.thought.space_id
    BY <2>1, <2>2, SlotRowsFields
  <2>4. x.is_current
    BY <1>3, <1>4, <2>3 DEF PlaceInChain
  <2>5. q \in fact_slots /\ q.thought_id # id
    BY DEF SlotsExcept
  <2> QED
    BY <1>2, <1>3, <1>4, <2>3, <2>4, <2>5 DEF OneCurrentVersion
<1>5. SlotsExcept({id}) \subseteq fact_slots
  BY DEF SlotsExcept
<1> HIDE DEF new, t, id
<1> QED
  BY <1>1, <1>3, <1>4, <1>5 DEF OneCurrentVersion

LEMMA ArchiveOne ==
    ASSUME StoreInv, OneCurrentVersion, NEW ids, archive_rows(ids)
    PROVE  OneCurrentVersion'
<1>1. ASSUME NEW s \in fact_slots PROVE ~Demote(s).is_current
  BY <1>1 DEF Demote, StoreInv, TablesInv, TablesTypeOK, Slot
<1>2. \A s \in fact_slots' : s.is_current => s \in fact_slots
  BY <1>1 DEF archive_rows, SlotsExcept
<1> QED
  BY <1>2 DEF OneCurrentVersion

LEMMA FewerOne ==
    ASSUME OneCurrentVersion, fact_slots' \subseteq fact_slots
    PROVE  OneCurrentVersion'
BY DEF OneCurrentVersion

-----------------------------------------------------------------------------
\* The pc of a call of archive, forget or amend, and of what follows them.
MaintenancePc == {"archive", "forget", "amend", "reload"}

\* C is a set of calls in which those of AtRest are the ones with its pcs.
HasMaintenance(C) ==
    /\ Idle \in C /\ MaintenanceCall \subseteq C
    /\ \A call \in C : call.pc \in MaintenancePc => call \in MaintenanceCall

-----------------------------------------------------------------------------
LEMMA BeginResumeType ==
    ASSUME NEW C, calls \in [Clients -> C], NEW c \in Clients, NEW call \in C,
           Begin(c, call) \/ Resume(c, call)
    PROVE  calls' \in [Clients -> C]
BY DEF Begin, Resume

LEMMA ReloadType ==
    ASSUME NEW sp \in Spaces
    PROVE  Reload(sp) \in MaintenanceCall
BY DEF Reload, MaintenanceCall

LEMMA ArchiveCall ==
    ASSUME NEW call \in MaintenanceCall, call.pc \in {"archive", "forget"}
    PROVE  call.space \in Spaces
BY DEF MaintenanceCall

LEMMA AmendCall ==
    ASSUME NEW call \in MaintenanceCall, call.pc = "amend"
    PROVE  /\ call.space \in Spaces
           /\ call.change.text \in Texts \cup {Keep}
           /\ call.change.facts \in Fills \cup {Keep}
BY CallAssumption DEF MaintenanceCall

LEMMA SelectedIds ==
    ASSUME TablesInv, NEW sp
    PROVE  /\ \A s \in fact_slots : s.thought_id \in ThoughtId
           /\ RowIds(sp) \subseteq ThoughtId
BY DEF TablesInv, TablesTypeOK, Slot, Row, Thought, RowIds

LEMMA ForgetSelectType ==
    ASSUME NEW C, HasMaintenance(C), calls \in [Clients -> C],
           NEW c \in Clients, NEW sp \in Spaces, NEW ids \in SUBSET ThoughtId,
           ForgetSelect(c, sp, ids)
    PROVE  calls' \in [Clients -> C] /\ UNCHANGED <<tables, faults>>
<1>1. [pc |-> "forget", space |-> sp, ids |-> ids] \in C
  BY DEF HasMaintenance, MaintenanceCall
<1> QED
  BY <1>1, BeginResumeType DEF ForgetSelect

LEMMA ArchiveSelectType ==
    ASSUME NEW C, HasMaintenance(C), calls \in [Clients -> C], TablesInv,
           NEW c \in Clients, NEW sp \in Spaces, NEW names,
           ArchiveSelect(c, sp, names)
    PROVE  calls' \in [Clients -> C] /\ UNCHANGED <<tables, faults>>
<1>1. PICK ids \in SUBSET ThoughtId :
         Begin(c, [pc |-> "archive", space |-> sp, ids |-> ids])
  BY SelectedIds DEF ArchiveSelect, SlotIds, SlotsOf
<1>2. [pc |-> "archive", space |-> sp, ids |-> ids] \in C
  BY DEF HasMaintenance, MaintenanceCall
<1> QED
  BY <1>1, <1>2, BeginResumeType DEF ArchiveSelect

LEMMA AmendStartType ==
    ASSUME NEW C, HasMaintenance(C), calls \in [Clients -> C],
           NEW c \in Clients, NEW sp \in Spaces, NEW id \in ThoughtId,
           NEW change \in Amendments, AmendStart(c, sp, id, change)
    PROVE  calls' \in [Clients -> C] /\ UNCHANGED <<tables, faults>>
<1>1. [pc |-> "amend", space |-> sp, id |-> id, change |-> change] \in C
  BY DEF HasMaintenance, MaintenanceCall
<1> QED
  BY <1>1, BeginResumeType DEF AmendStart

LEMMA MaintenanceFailsType ==
    ASSUME NEW C, HasMaintenance(C), calls \in [Clients -> C], faults \in Nat,
           NEW c \in Clients, MaintenanceFails(c)
    PROVE  calls' \in [Clients -> C] /\ faults' \in Nat /\ UNCHANGED tables
<1>1. Idle \in C /\ Resume(c, Idle)
  BY DEF MaintenanceFails, HasMaintenance
<1>2. calls' \in [Clients -> C]
  BY <1>1, BeginResumeType
<1> QED
  BY <1>2 DEF MaintenanceFails, Fault

LEMMA MaintainInv ==
    ASSUME NEW C, HasMaintenance(C), calls \in [Clients -> C], faults \in Nat,
           StoreInv, NEW c \in Clients, Maintain(c)
    PROVE  calls' \in [Clients -> C] /\ faults' \in Nat /\ StoreInv'
<1> DEFINE Goal == calls' \in [Clients -> C] /\ faults' \in Nat /\ StoreInv'
<1>1. TablesInv
  BY DEF StoreInv
<1>2. ASSUME NEW sp \in Spaces, NEW ids \in SUBSET ThoughtId,
             ForgetSelect(c, sp, ids)
      PROVE  Goal
  BY <1>2, ForgetSelectType, UnchangedStoreInv DEF tables
<1>3. ASSUME NEW sp \in Spaces, NEW k \in Keys, ForgetByKey(c, sp, k) PROVE Goal
  BY <1>1, <1>2, <1>3, SelectedIds DEF ForgetByKey, SlotIds, SlotsOf
<1>4. ASSUME NEW sp \in Spaces, NEW id, ForgetById(c, sp, id) PROVE Goal
  BY <1>1, <1>2, <1>4, SelectedIds DEF ForgetById
<1>5. ASSUME NEW sp \in Spaces, NEW e, ForgetByEntity(c, sp, e) PROVE Goal
  BY <1>1, <1>2, <1>5, SelectedIds DEF ForgetByEntity, SlotIds, SlotsOf
<1>6. \A sp \in Spaces : Reload(sp) \in C
  BY ReloadType DEF HasMaintenance
<1>7. ASSUME NEW sp \in Spaces, ForgetAll(c, sp) PROVE Goal
  BY <1>6, <1>7, BeginResumeType, DeleteSpaceStoreInv DEF ForgetAll
<1>8. calls[c] \in C
  OBVIOUS
<1>9. CASE ArchiveCommit(c)
  <2>1. calls[c] \in MaintenanceCall /\ calls[c].pc = "archive"
    BY <1>8, <1>9 DEF ArchiveCommit, HasMaintenance, MaintenancePc
  <2>2. Reload(calls[c].space) \in C
    BY <2>1, <1>6, ArchiveCall
  <2> QED
    BY <1>9, <2>2, BeginResumeType, ArchiveStoreInv DEF ArchiveCommit
<1>10. CASE ForgetCommit(c)
  <2>1. calls[c] \in MaintenanceCall /\ calls[c].pc = "forget"
    BY <1>8, <1>10 DEF ForgetCommit, HasMaintenance, MaintenancePc
  <2>2. Reload(calls[c].space) \in C
    BY <2>1, <1>6, ArchiveCall
  <2> QED
    BY <1>10, <2>2, BeginResumeType, DeleteRowsStoreInv DEF ForgetCommit
<1>11. CASE AmendCommit(c)
  <2>1. calls[c] \in MaintenanceCall /\ calls[c].pc = "amend"
    BY <1>8, <1>11 DEF AmendCommit, HasMaintenance, MaintenancePc
  <2>2. /\ Reload(calls[c].space) \in C
        /\ calls[c].change.text \in Texts \cup {Keep}
        /\ calls[c].change.facts \in Fills \cup {Keep}
    BY <2>1, <1>6, AmendCall
  <2>3. Idle \in C
    BY DEF HasMaintenance
  <2>4. CASE \E r \in ada_thoughts :
               /\ amend_thought(r, calls[c].change.text, calls[c].change.facts)
               /\ Resume(c, Reload(calls[c].space))
    BY <1>11, <2>2, <2>4, BeginResumeType, AmendStoreInv DEF AmendCommit
  <2>5. CASE Resume(c, Idle) /\ UNCHANGED tables
    BY <1>11, <2>3, <2>5, BeginResumeType, UnchangedStoreInv DEF AmendCommit, tables
  <2> QED
    BY <1>11, <2>4, <2>5 DEF AmendCommit
<1> QED
  BY <1>3, <1>4, <1>5, <1>7, <1>9, <1>10, <1>11 DEF Maintain
=============================================================================
