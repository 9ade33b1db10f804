------------------------------- MODULE Enricher -------------------------------
(***************************************************************************)
(* What maps a sentence to slots: the model when there is an API key, the  *)
(* fixed patterns when there is none.  The model may fail, and may answer  *)
(* differently when it is asked again, so each text is asked once and the  *)
(* answer, or the failure, is kept.                                        *)
(*                                                                         *)
(* A thought gets two halves from one text: the slots (sanitised, and with *)
(* the speaker put for "I") and a structural parse, projected from the     *)
(* answer as it came.  They answer different reads.                        *)
(*                                                                         *)
(* Offline, a sentence is its pattern and the words that fill it: [form,   *)
(* subject, about, object], where about is the word that names the         *)
(* attribute in the patterns that have one.  A question has no object.     *)
(* Values are taken without their outer blanks, which both halves drop.    *)
(***************************************************************************)
EXTENDS Naturals, Sequences, FiniteSets

CONSTANTS
    Told,         \* the texts that the model is asked about
    Mappings,     \* what it may answer: sets of [layer, role, value]
    Subjects,     \* the names in the sentences
    Words,        \* how many words a name has
    Objects,      \* the values in the sentences
    Attributes,   \* the words that name an attribute
    Colour,       \* the word "color", one of the attributes
    LowerCase,    \* the lower-case spelling of the values that have capitals
    Blanks,       \* the values "none", "null" and "n/a"
    SpeakerWords, \* the values "i", "me", "my", ..., "user" and "speaker"
    FirstPerson,  \* the texts and sentences that use a first-person word
    Speakers,     \* who a session may have said it is
    Nil           \* a role that is not filled, or what is not there

ASSUME EnricherAssumption ==
    /\ Nil \notin Mappings \cup {{}} /\ Nil \notin Speakers
    /\ Nil \notin DOMAIN LowerCase \cup Subjects

Lower(v) == IF v \in DOMAIN LowerCase THEN LowerCase[v] ELSE v

\* The spelling of a name does not change how many words it has.
ASSUME WordsAssumption ==
    \A a \in Subjects, b \in Subjects :
        Lower(a) # Nil /\ (Lower(a) = Lower(b) => Words[a] = Words[b])

VARIABLES
    online,     \* whether auto_enricher found an API key when the server started
    answers,    \* UniversalEnricher._cache: what is kept of each text asked
    filled,     \* meta["_universal"] of the last text this process absorbed
    parsed,     \* meta["_structured"] of the last text absorbed
    said        \* the last text absorbed and who said it, [text, me]

enricherVars == <<online, answers, filled, parsed, said>>

-----------------------------------------------------------------------------
\* _try_facts and _try_queries.  A pattern says how many words its subject
\* may have and what it makes of the sentence.
Pattern(words, predicate, topic) ==
    [words |-> words, predicate |-> predicate, topic |-> topic]

FactForms == {"favorite", "years_old", "lives_in", "works_as", "capital_is",
              "stands_for", "has", "uses", "runs_on_port"}

FactTable(about) ==
    [favorite     |-> Pattern({1}, <<"favorite", about>>, "person.preference"),
     years_old    |-> Pattern({1}, <<"age">>, "person.age"),
     lives_in     |-> Pattern({1}, <<"residence">>, "person.location"),
     works_as     |-> Pattern({1}, <<"job">>, "person.job"),
     capital_is   |-> Pattern(Nat, <<"capital">>, "geography.capital"),
     stands_for   |-> Pattern({1}, <<"abbreviation_of">>, "knowledge.definition"),
     has          |-> Pattern({1, 2}, <<"quantity_of", about>>, "knowledge.quantity"),
     uses         |-> Pattern({1}, <<"dimension">>, "ada.architecture"),
     runs_on_port |-> Pattern({1}, <<"port">>, "ada.architecture")]

QuestionForms == {"how_old", "where_live", "what_job", "what_favorite", "what_color",
                  "what_capital", "what_stand_for", "what_dimension", "what_port"}

\* Mutant of ColourAsked: a question about the colour names it directly.
ColourByWord == <<"color">>
ColourAsked == <<"favorite", Colour>>

QuestionTable(about) ==
    [how_old        |-> Pattern({1}, <<"age">>, "person.age"),
     where_live     |-> Pattern({1}, <<"residence">>, "person.location"),
     what_job       |-> Pattern({1}, <<"job">>, "person.job"),
     what_favorite  |-> Pattern({1}, <<"favorite", about>>, "person.preference"),
     what_color     |-> Pattern({1}, ColourAsked, "person.preference"),
     what_capital   |-> Pattern({1}, <<"capital">>, "geography.capital"),
     what_stand_for |-> Pattern({1}, <<"abbreviation_of">>, "knowledge.definition"),
     what_dimension |-> Pattern({1}, <<"dimension">>, "ada.architecture"),
     what_port      |-> Pattern({1}, <<"port">>, "ada.architecture")]

Assertions ==
    [form : FactForms, subject : Subjects, about : Attributes, object : Objects]
Queries ==
    [form : QuestionForms, subject : Subjects, about : Attributes, object : {Nil}]
Phrasings == Assertions \cup Queries

\* Every pattern names a predicate.
ASSUME PredicatesAssumption ==
    \A about \in Attributes :
        /\ \A form \in FactForms : FactTable(Lower(about))[form].predicate # Nil
        /\ \A form \in QuestionForms : QuestionTable(Lower(about))[form].predicate # Nil

Row(s) == IF s.form \in FactForms THEN FactTable(Lower(s.about))[s.form]
          ELSE QuestionTable(Lower(s.about))[s.form]

\* HeuristicEnricher.enrich
Unstructured == [subject |-> Nil, predicate |-> Nil, object |-> Nil, topic |-> "general"]

Heuristic(s) ==
    IF Words[s.subject] \in Row(s).words
    THEN [subject |-> Lower(s.subject), predicate |-> Row(s).predicate,
          object |-> Lower(s.object), topic |-> Row(s).topic]
    ELSE Unstructured

Slot(layer, role, value) == [layer |-> layer, role |-> role, value |-> value]

\* HeuristicEnricher.universal: nothing for a question; an attribute slot for
\* the three predicates of _PRED_SLOT, a relation for the others.
ObjectSlot(predicate, value) ==
    CASE predicate = <<"age">> -> Slot("temporal", "age", value)
      [] predicate = <<"residence">> -> Slot("spatial", "location", value)
      [] predicate = <<"favorite", Colour>> -> Slot("perceptual", "color", value)
      [] OTHER -> Slot("relational", "object", value)

HeuristicMapping(s) ==
    LET fact == Heuristic(s) IN
    IF fact.object = Nil THEN {}
    ELSE {Slot("entity", "name", fact.subject),
          Slot("relational", "subject", fact.subject),
          Slot("relational", "predicate", fact.predicate),
          ObjectSlot(fact.predicate, fact.object)}

-----------------------------------------------------------------------------
\* The slots of a thought.

Schema ==
    ({"entity"} \X {"name", "kind", "subkind"})
      \cup ({"perceptual"} \X {"color", "size", "shape", "texture", "sound", "smell",
                              "taste", "temperature"})
      \cup ({"spatial"} \X {"location", "origin", "direction"})
      \cup ({"temporal"} \X {"time", "duration", "age", "era", "frequency"})
      \cup ({"relational"} \X {"subject", "predicate", "object", "possessor", "agent",
                              "patient", "instrument"})
      \cup ({"quantitative"} \X {"count", "magnitude", "unit", "ratio"})
      \cup ({"epistemic"} \X {"source", "certainty", "modality"})

\* _sanitize_universal
Sanitised(mapped) ==
    {m \in mapped : <<m.layer, m.role>> \in Schema /\ Lower(m.value) \notin Blanks}

PersonRoles == {<<"entity", "name">>, <<"relational", "subject">>,
                <<"relational", "possessor">>, <<"relational", "agent">>}

\* _resolve_speaker_entity: the speaker stands for "I", and for a name left out.
MeansSpeaker(m) == <<m.layer, m.role>> \in PersonRoles /\ Lower(m.value) \in SpeakerWords

Resolved(clean, me) ==
    {IF MeansSpeaker(m) THEN Slot(m.layer, m.role, me) ELSE m : m \in clean}
      \cup IF \E m \in clean : m.layer = "entity" /\ m.role = "name" THEN {}
           ELSE {Slot("entity", "name", me)}

SlotsFor(text, mapped, me) ==
    IF mapped = {} THEN {}
    ELSE IF me # Nil /\ text \in FirstPerson THEN Resolved(Sanitised(mapped), me)
    ELSE Sanitised(mapped)

-----------------------------------------------------------------------------
\* _project_to_structured, on the answer as it came.

\* A layer that is not a mapping is in the answer as a slot without a role; it
\* is no slot of the thought, and the projection raises on it.
Malformed(mapped) == \E m \in mapped : m.role = Nil

Get(mapped, layer, role) ==
    IF \E m \in mapped : m.layer = layer /\ m.role = role
    THEN (CHOOSE m \in mapped : m.layer = layer /\ m.role = role).value
    ELSE Nil

Or(v, w) == IF v # Nil THEN v ELSE w

Priority ==
    << <<"perceptual", "color">>, <<"perceptual", "size">>, <<"perceptual", "shape">>,
       <<"perceptual", "sound">>, <<"perceptual", "texture">>,
       <<"perceptual", "temperature">>, <<"temporal", "age">>, <<"temporal", "time">>,
       <<"temporal", "duration">>, <<"temporal", "frequency">>,
       <<"spatial", "location">>, <<"spatial", "origin">>,
       <<"quantitative", "magnitude">>, <<"quantitative", "count">>,
       <<"relational", "predicate">> >>

ValueOf(mapped, role) == IF role = Nil THEN Nil ELSE Get(mapped, role[1], role[2])

\* The first role of the list that is filled.
Leading(mapped) ==
    LET ranks == {i \in 1..15 : ValueOf(mapped, Priority[i]) # Nil}
    IN  IF ranks = {} THEN Nil
        ELSE Priority[CHOOSE i \in ranks : \A j \in ranks : i <= j]

\* The topic names the layer with the most filled roles; on a tie, the one
\* that the answer mentions first.
PrimaryLayers(mapped) ==
    LET layers == {m.layer : m \in mapped} \ {"relational"}
        Fills(l) == Cardinality({m \in mapped : m.layer = l})
    IN  IF layers = {} THEN {"entity"}
        ELSE {l \in layers : \A k \in layers : Fills(k) <= Fills(l)}

Projection(mapped, layer) ==
    [subject |-> Lower(Or(Or(Get(mapped, "relational", "subject"),
                             Get(mapped, "relational", "possessor")),
                          Get(mapped, "entity", "name"))),
     predicate |-> Leading(mapped),
     object |-> Lower(Or(Get(mapped, "relational", "object"),
                         ValueOf(mapped, Leading(mapped)))),
     topic |-> <<Lower(Get(mapped, "entity", "kind")), layer>>]

\* What meta["_structured"] becomes: nothing when the projection raised.
Parses(mapped) ==
    IF Malformed(mapped) THEN {Nil}
    ELSE {Projection(mapped, layer) : layer \in PrimaryLayers(mapped)}

-----------------------------------------------------------------------------
\* UniversalEnricher.enrich: the answer, given what the model would say, and
\* what is kept of it.  The call blocks; a failure is an empty mapping.
AnswerTo(kept, text, mapped) == IF kept[text] # Nil THEN kept[text] ELSE mapped

\* Mutant of Keep: a failure is not kept.
KeepMapped(kept, text, mapped) ==
    IF AnswerTo(kept, text, mapped) = {} THEN kept
    ELSE [kept EXCEPT ![text] = AnswerTo(kept, text, mapped)]
Keep(kept, text, mapped) == [kept EXCEPT ![text] = AnswerTo(kept, text, mapped)]

\* absorb asks twice: universal() for the slots, then enrich() for the parse.
AbsorbOnline(text, me) ==
    /\ online
    /\ \E first, second \in Mappings \cup {{}} :
         LET once == Keep(answers, text, first) IN
         /\ filled' = SlotsFor(text, AnswerTo(answers, text, first), me)
         /\ parsed' \in Parses(AnswerTo(once, text, second))
         /\ answers' = Keep(once, text, second)
    /\ said' = [text |-> text, me |-> me]
    /\ UNCHANGED online

\* Without a key nothing is kept: both are computed each time.
AbsorbOffline(s, me) ==
    /\ ~online
    /\ filled' = SlotsFor(s, HeuristicMapping(s), me)
    /\ parsed' = Heuristic(s)
    /\ said' = [text |-> s, me |-> me]
    /\ UNCHANGED <<online, answers>>

\* recall parses its query by the same model, which keeps that answer too.
RecallOnline(text) ==
    /\ online
    /\ \E mapped \in Mappings \cup {{}} : answers' = Keep(answers, text, mapped)
    /\ UNCHANGED <<online, filled, parsed, said>>

\* The parse is not written to the database: a thought that is loaded again
\* has its slots only.
LoadThought ==
    /\ parsed' = Nil
    /\ UNCHANGED <<online, answers, filled, said>>

\* A new process chooses its enricher again, and has absorbed and asked nothing.
EnricherRestart ==
    /\ online' \in BOOLEAN
    /\ answers' = [t \in Told |-> Nil]
    /\ filled' = {}
    /\ parsed' = Nil
    /\ said' = Nil

EnricherInit ==
    /\ online \in BOOLEAN
    /\ answers = [t \in Told |-> Nil]
    /\ filled = {}
    /\ parsed = Nil
    /\ said = Nil

EnricherNext ==
    \/ \E t \in Told, me \in Speakers \cup {Nil} : AbsorbOnline(t, me)
    \/ \E s \in Phrasings, me \in Speakers \cup {Nil} : AbsorbOffline(s, me)
    \/ \E t \in Told : RecallOnline(t)
    \/ LoadThought
    \/ EnricherRestart

EnricherSpec == EnricherInit /\ [][EnricherNext]_enricherVars

-----------------------------------------------------------------------------
\* A word of the parse stands in the slots, or was left out of them as a
\* blank, or means the speaker, who is in the slots.
Backed(v) ==
    \/ v = Nil \/ v \in Blanks
    \/ \E m \in filled : Lower(m.value) = v
    \/ v \in SpeakerWords /\ said.me # Nil /\ \E m \in filled : m.value = said.me

(* The two halves of a thought tell one story: whom the parse is about and  *)
(* what it says are in the very slots the thought was given, and the role   *)
(* it matches on is one of theirs, even when the model fails or changes its *)
(* mind between the two calls, up to what sanitising and the speaker change.*)
EnrichmentsAgree ==
    online /\ parsed # Nil =>
        /\ Backed(parsed.subject) /\ Backed(parsed.object)
        /\ \/ parsed.predicate = Nil
           \/ \E m \in filled : <<m.layer, m.role>> = parsed.predicate
           \/ \E m \in answers[said.text] :
                 <<m.layer, m.role>> = parsed.predicate /\ Lower(m.value) \in Blanks

\* What a reader of English takes for an answer.
AnswersTo(q, s) ==
    /\ Lower(q.subject) = Lower(s.subject)
    /\ <<q.form, s.form>> \in
         {<<"how_old", "years_old">>, <<"where_live", "lives_in">>, <<"what_job", "works_as">>,
          <<"what_favorite", "favorite">>, <<"what_color", "favorite">>,
          <<"what_capital", "capital_is">>, <<"what_stand_for", "stands_for">>,
          <<"what_dimension", "uses">>, <<"what_port", "runs_on_port">>}
    /\ q.form = "what_favorite" => Lower(q.about) = Lower(s.about)
    /\ q.form = "what_color" => Lower(s.about) = Colour

\* score_thought gives the whole bonus for the structural parse.
Meets(q, fact) ==
    /\ q.predicate # Nil /\ q.predicate = fact.predicate
    /\ q.subject # Nil /\ q.subject = fact.subject
    /\ q.topic = fact.topic

(* Offline, a question is parsed to the structural key of the facts that    *)
(* answer it and of no others: the two tables of patterns, written apart,   *)
(* agree on subject, predicate and topic.  It is so only for subjects of    *)
(* one word: a fact of a longer one may be parsed, but no question of it is.*)
QuestionsMeetFacts ==
    ~online /\ parsed # Nil /\ said.text \in Assertions =>
        \A q \in Queries :
            Meets(Heuristic(q), parsed)
                <=> AnswersTo(q, said.text) /\ Words[q.subject] = 1
=============================================================================
