----------------------------- MODULE Conversation -----------------------------
(***************************************************************************)
(* The turns of a Conversation, the part of the prompt that carries what   *)
(* was said before: the newest max_turns of them, and never two in a row   *)
(* with the same answer.  answered is history: no action reads it.         *)
(***************************************************************************)
EXTENDS Naturals, FiniteSets, Sequences, SequencesExt

CONSTANTS
    Messages,   \* what a user says
    Answers,    \* what Ada answers
    max_turns,  \* the turns kept
    MaxTurns    \* bound: the turns recorded

ASSUME TurnsAssumption == max_turns \in Nat \ {0} /\ MaxTurns \in Nat

VARIABLES
    turns,      \* _turns: pairs of a message and its answer
    answered    \* every turn recorded since the last clear

conversationVars == <<turns, answered>>

-----------------------------------------------------------------------------
\* The last n of a sequence, turns[-n:].
Newest(n, ts) == SubSeq(ts, (IF Len(ts) > n THEN Len(ts) - n ELSE 0) + 1, Len(ts))

\* Mutant of WithTurn: the older of two turns with one answer stays.
OlderKept(ts, turn) ==
    IF ts # << >> /\ Last(ts)[2] = turn[2] THEN ts
    ELSE Newest(max_turns, Append(ts, turn))

WithTurn(ts, turn) ==
    IF ts # << >> /\ Last(ts)[2] = turn[2] THEN [ts EXCEPT ![Len(ts)] = turn]
    ELSE Newest(max_turns, Append(ts, turn))

AddTurn(turn) ==
    /\ Len(answered) < MaxTurns
    /\ turns' = WithTurn(turns, turn)
    /\ answered' = Append(answered, turn)

ClearTurns ==
    /\ turns # << >>
    /\ turns' = << >> /\ answered' = << >>

ConversationInit == turns = << >> /\ answered = << >>

ConversationNext ==
    \/ \E turn \in Messages \X Answers : AddTurn(turn)
    \/ ClearTurns

ConversationSpec == ConversationInit /\ [][ConversationNext]_conversationVars

-----------------------------------------------------------------------------
\* Where a run of turns with one answer ends, and how many runs end later.
RunEnds(ts) == {i \in DOMAIN ts : i < Len(ts) => ts[i][2] # ts[i + 1][2]}
RunsAfter(i, ts) == Cardinality({j \in RunEnds(ts) : j > i})

(* The model is shown the newest turns, a run of turns with one answer      *)
(* counted once and by its latest message, however often answers recur, the *)
(* window slides or the conversation is cleared in between: as many as the  *)
(* window holds, each in the place that the runs after it leave.            *)
NewestTurnsShown ==
    LET runs == Cardinality(RunEnds(answered))
    IN  /\ Len(turns) = IF runs < max_turns THEN runs ELSE max_turns
        /\ \A i \in RunEnds(answered) :
              RunsAfter(i, answered) < max_turns =>
                 turns[Len(turns) - RunsAfter(i, answered)] = answered[i]
=============================================================================
