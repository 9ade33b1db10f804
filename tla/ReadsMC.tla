------------------------------- MODULE ReadsMC -------------------------------
(* Values for the constants of Reads. *)
EXTENDS Reads, TLC

CONSTANTS
    ann, Ann,       \* a name and its spelling with a capital
    bo,
    boston, Boston,
    denver,
    said1, spaced,  \* a text, and the same with a space before it
    said2, said3, said4,
    k1

MCNorm ==
    [v \in {ann, Ann, bo, boston, Boston, denver, said1, spaced, said2, said3, said4} |->
        CASE v = Ann -> ann [] v = Boston -> boston [] v = spaced -> said1 [] OTHER -> v]
MCSqlLower == [t \in {said1, spaced, said2, said3, said4} |-> t]

Fill(name, place) == "entity.name" :> name @@ "spatial.location" :> place

\* Two facts put ann in boston; one has bo for its subject only, and one
\* names nobody.
InBoston == [text |-> said1, fill |-> Fill(Ann, Boston)]
InDenver == [text |-> said2, fill |-> Fill(bo, denver)]

MCFactsTold ==
    {InBoston, InDenver,
     [text |-> spaced,
      fill |-> Fill(ann, boston) @@ "relational.subject" :> bo],
     [text |-> said3,
      fill |-> "relational.subject" :> bo @@ "spatial.location" :> denver],
     [text |-> said4, fill |-> "spatial.location" :> denver]}

\* Two versions of a key, told before there were slot rows.
OldRow(i, f, archived) ==
    [id |-> i, text |-> f.text, fill |-> f.fill, key |-> k1, version |-> i + 1,
     archived |-> archived, slotted |-> FALSE, is_current |-> FALSE]

MCOldTables ==
    {{}} \cup {{OldRow(0, InBoston, a), OldRow(1, InDenver, b)} : a, b \in BOOLEAN}
=============================================================================
