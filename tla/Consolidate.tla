----------------------------- MODULE Consolidate -----------------------------
(***************************************************************************)
(* Consolidation and entity merging, beside the clients of a store in sql  *)
(* mode.  consolidate reads the live facts of a space, refills slots and   *)
(* looks for near duplicates on that snapshot, and writes the outcome back *)
(* one thought per transaction, and the retired ones in a last one.        *)
(***************************************************************************)
EXTENDS SqlStore, NearDuplicates

CONSTANTS
    WordsOf,    \* the tokens of a content, each a sequence of letters
    Questions,  \* the contents that end in a question mark
    FirstPerson,\* the contents that use a first-person word
    Unnamed,    \* slots whose entity.name is missing or a first-person word
    Operators,  \* the entities a caller gives as "me"
    NoMe,       \* "me" was not given
    Enriched    \* the slots the enricher finds in a content

ASSUME ConsolidateAssumption ==
    /\ DOMAIN WordsOf = Texts
    /\ Questions \subseteq Texts /\ FirstPerson \subseteq Texts
    /\ Unnamed \subseteq Fills \ {NoFill}
    /\ Operators \subseteq Entities /\ NoMe \notin Fills
    /\ Enriched \in [Texts -> Fills]

-----------------------------------------------------------------------------
ConsolidateCall ==
    [pc : {"consolidate"}, space : Spaces, pending : SUBSET Thought,
     retired : SUBSET ThoughtId]

MergeCall ==
    [pc : {"merge"}, ids : SUBSET ThoughtId, space : Spaces,
     source : Entities, target : Entities]

\* Mutant of Snapshot: archived facts are read too.
WholeSpace(sp) ==
    {r.thought : r \in {x \in ada_thoughts : x.thought.space_id = sp}}

Snapshot(sp) == {r.thought : r \in Live(sp)}

-----------------------------------------------------------------------------
(* P1 and P2.  The enricher may fail or find nothing in the thoughts missed.*)

\* Mutant of ResolveSpeaker: "me" is used without having been given.
ResolveAnyway(text, fill, me) ==
    IF text \in FirstPerson /\ fill \in Unnamed THEN me ELSE fill

ResolveSpeaker(text, fill, me) ==
    IF me # NoMe /\ text \in FirstPerson /\ fill \in Unnamed THEN me ELSE fill

Refill(t, me, missed) ==
    LET u == IF t.fill = NoFill /\ t \notin missed THEN Enriched[t.content]
             ELSE t.fill
    IN  IF t.content \in Questions THEN t
        ELSE [t EXCEPT !.fill = ResolveSpeaker(t.content, u, me)]

(* P3.  Thoughts are compared pair by pair in the order they were read, by  *)
(* the uuid's number for created_at: the older of two alike ones is retired.*)
Candidates(sp) ==
    {t \in Snapshot(sp) : t.key = NoKey /\ t.content \notin Questions}

AlikeTexts ==
    {p \in Texts \X Texts :
       Norm[p[1]] = Norm[p[2]] \/ NearDuplicate(WordsOf[p[1]], WordsOf[p[2]])}

Alike(a, b) == <<a.content, b.content>> \in AlikeTexts

\* Mutant of Older: the newer of two alike thoughts is retired.
Younger(a, b) == a.thought_id[2] > b.thought_id[2]

Older(a, b) == a.thought_id[2] <= b.thought_id[2]

\* Mutant of Losers: the pass stops at the first match, whoever loses.
FirstLoser(order, i, gone) ==
    LET a == order[i]
        rivals == {j \in i + 1 .. Len(order) :
                     order[j].thought_id \notin gone /\ Alike(a, order[j])}
    IN  IF a.thought_id \in gone \/ rivals = {} THEN {}
        ELSE LET b == order[Min(rivals)]
             IN  {IF Older(a, b) THEN a.thought_id ELSE b.thought_id}

(* Those whom the comparison of the i-th thought with the later ones         *)
(* retires: older rivals one by one, until a newer one retires it.          *)
Losers(order, i, gone) ==
    LET a == order[i]
        rivals == {j \in i + 1 .. Len(order) :
                     order[j].thought_id \notin gone /\ Alike(a, order[j])}
        newer == {j \in rivals : Older(a, order[j])}
        met == {j \in rivals : \A n \in newer : j < n}
    IN  IF a.thought_id \in gone THEN {}
        ELSE {order[j].thought_id : j \in met}
               \cup {x \in {a.thought_id} : newer # {}}

Retired(order) ==
    LET gone[i \in 0 .. Len(order)] ==
          IF i = 0 THEN {} ELSE gone[i - 1] \cup Losers(order, i, gone[i - 1])
    IN  gone[Len(order)]

-----------------------------------------------------------------------------
\* What P3 retires, for every order in which the rows may be read.
Retirements(sp) ==
    {Retired(order) \cap RowIds(sp) : order \in SetToSeqs(Candidates(sp))}

Slotless(sp) == {t \in Snapshot(sp) : t.fill = NoFill /\ t.content \notin Questions}

\* What P1 and P2 change among the thoughts that stay.
Refills(sp, me, missed, retired) ==
    {t \in {Refill(x, me, missed) : x \in Snapshot(sp)} :
       t \notin Snapshot(sp) /\ t.thought_id \notin retired}

\* The reading and, without an await in between, the three passes.
ConsolidateRead(c, sp, me) ==
    /\ "consolidate" \in Handlers
    /\ \E retired \in Retirements(sp), missed \in SUBSET Slotless(sp) :
          LET pending == Refills(sp, me, missed, retired)
          IN  /\ pending # {} \/ retired # {}
              /\ Begin(c, [pc |-> "consolidate", space |-> sp,
                           pending |-> pending, retired |-> retired])
    /\ UNCHANGED <<tables, faults>>

\* The write-back, one thought at a time in the order they were read.
ConsolidateSave(c) ==
    /\ calls[c].pc = "consolidate"
    /\ \E t \in calls[c].pending :
          /\ save_thought(t)
          /\ Resume(c, [calls[c] EXCEPT !.pending = @ \ {t}])
    /\ UNCHANGED faults

ConsolidateArchive(c) ==
    /\ calls[c].pc = "consolidate" /\ calls[c].pending = {}
    /\ archive_rows(calls[c].retired)
    /\ Resume(c, Reload(calls[c].space))
    /\ UNCHANGED faults

-----------------------------------------------------------------------------
\* Mutant of Mentions: superseded facts keep the old name.
CurrentMentions(sp, e) == {s \in SlotsOf(sp) : s.entity = e /\ s.is_current}

\* The slot rows of a space that name an entity, superseded ones included.
Mentions(sp, e) == {s \in SlotsOf(sp) : s.entity = e}

MergeRead(c, sp, source, target) ==
    LET ids == SlotIds(Mentions(sp, source))
    IN  /\ "merge" \in Handlers
        /\ source # target /\ ids # {}
        /\ Begin(c, [pc |-> "merge", space |-> sp, ids |-> ids,
                     source |-> source, target |-> target])
        /\ UNCHANGED <<tables, faults>>

(* The slot rows are selected again, the thoughts are those of the reading. *)
MergeCommit(c) ==
    LET call == calls[c]
        renamed(r) == r.thought.thought_id \in call.ids /\ r.thought.fill = call.source
        repointed(s) == s.space_id = call.space /\ s.entity = call.source
    IN  /\ call.pc = "merge"
        /\ ada_thoughts' =
             {IF renamed(r) THEN [r EXCEPT !.thought.fill = call.target] ELSE r :
                r \in ada_thoughts}
        /\ fact_slots' =
             {IF repointed(s) THEN [s EXCEPT !.entity = call.target] ELSE s :
                s \in fact_slots}
        /\ Resume(c, Reload(call.space))
        /\ UNCHANGED faults

JanitorFails(c) ==
    /\ calls[c].pc \in {"consolidate", "merge"}
    /\ Fault
    /\ Resume(c, Idle)
    /\ UNCHANGED tables

Janitor(c) ==
    /\ \/ \E sp \in Spaces, me \in Operators \cup {NoMe} : ConsolidateRead(c, sp, me)
       \/ ConsolidateSave(c)
       \/ ConsolidateArchive(c)
       \/ \E sp \in Spaces, source, target \in Entities :
             MergeRead(c, sp, source, target)
       \/ MergeCommit(c)
       \/ JanitorFails(c)
    /\ UNCHANGED <<clock, tells>>

JanitorNext == Next \/ \E c \in Clients : Janitor(c)

JanitorSpec == Init /\ [][JanitorNext]_vars

-----------------------------------------------------------------------------
JanitorTypeOK ==
    /\ TablesTypeOK
    /\ calls \in [Clients -> Call \cup ConsolidateCall \cup MergeCall]
    /\ faults \in Nat /\ clock \in Nat /\ tells \in Nat

JanitorStep(c) ==
    calls[c].pc \in {"consolidate", "merge"} /\ calls'[c] # calls[c]

\* No row comes or goes, and a row changes its slots or gets archived.
Refilled ==
    /\ \A q \in ada_thoughts : \E r \in ada_thoughts' :
          r.thought.thought_id = q.thought.thought_id
    /\ \A r \in ada_thoughts' : \E q \in ada_thoughts :
          /\ r.thought = [q.thought EXCEPT !.fill = r.thought.fill]
          /\ q.archived => r.archived

(* "Only the structured slot fill (and the archived flag) changes": what     *)
(* consolidation and merging write back loses no fact, brings none back,    *)
(* rewrites no content and takes no fact out of the archive.                *)
OnlyRefills == [][\A c \in Clients : JanitorStep(c) => Refilled]_vars

TwinTexts ==
    {p \in Texts \X Texts :
       Norm[p[1]] = Norm[p[2]] \/ OneMisspelling(WordsOf[p[1]], WordsOf[p[2]])}

Twins(a, b) == <<a.content, b.content>> \in TwinTexts

Archiving(c) ==
    calls[c].pc = "consolidate" /\ calls'[c].pc = "reload"

(* After a consolidation no two of the facts it compares are the same up to *)
(* one misspelt word, in whatever order the database listed them.           *)
NoTwinsLeft ==
    [][\A c \in Clients : Archiving(c) =>
         LET left == Candidates(calls[c].space)'
         IN  \A a, b \in left : a # b => ~Twins(a, b)]_vars

(* A fact is retired only in favour of a newer live one it is a misspelling *)
(* of; as time only rises along such a chain, a spelling of it survives.    *)
NewerWins ==
    [][\A c \in Clients : Archiving(c) =>
         \A a \in Candidates(calls[c].space) \ Candidates(calls[c].space)' :
             \E b \in Candidates(calls[c].space) :
                 Twins(a, b) /\ b.thought_id[2] > a.thought_id[2]]_vars
=============================================================================
