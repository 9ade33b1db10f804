---------------------------- MODULE ConsolidateMC ----------------------------
(* Values for the constants of Consolidate. *)
EXTENDS Consolidate

CONSTANTS t1, t2, t3, p2, q1, ada, bob, k1

\* A misspelling, its correction, a misspelling of that only, and a question.
MCWordsOf ==
    t1 :> <<<<"n","a","m","e">>, <<"b","r","a","n","i","d">>>>
    @@ t2 :> <<<<"n","a","m","e">>, <<"b","r","a","n","d","i">>>>
    @@ t3 :> <<<<"n","a","m","e">>, <<"b","r","a","d","o","i">>>>
    @@ p2 :> <<<<"n","a","m","e">>, <<"b","r","a","n","d","i">>>>
    @@ q1 :> <<<<"n","a","m","e">>, <<"b","r","a","n","d","y">>>>

MCFacts == {[content |-> t1, fill |-> NoFill], [content |-> t2, fill |-> bob],
            [content |-> t3, fill |-> NoEntity], [content |-> p2, fill |-> NoFill],
            [content |-> q1, fill |-> NoFill]}
MCAmendments == {[text |-> t1, facts |-> Keep]}
MCLowerKey == [k \in Keys |-> k]

\* p2 is t2 with outer blanks.
MCNorm == [t \in Texts |-> IF t = p2 THEN t2 ELSE t]
MCSqlLower == [t \in Texts |-> t]
MCEnriched == [t \in Texts |-> NoEntity]
=============================================================================
