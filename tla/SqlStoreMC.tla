----------------------------- MODULE SqlStoreMC -----------------------------
(* Values for the constants of SqlStore. *)
EXTENDS SqlStore, TLC

CONSTANTS t1, t2, t3, p2, ada, k1

MCFacts == {[content |-> t1, fill |-> ada], [content |-> t2, fill |-> NoFill],
            [content |-> t3, fill |-> ada], [content |-> p2, fill |-> ada]}
MCAmendments == {[text |-> t2, facts |-> NoEntity]}
MCLowerKey == [k \in Keys |-> k]

\* p2 is t2 with outer blanks.
MCNorm == [t \in Texts |-> IF t = p2 THEN t2 ELSE t]
MCSqlLower == [t \in Texts |-> t]

\* t1 and t3 are told with the same slots and no amendment mentions them.
Symmetry == Permutations(Clients) \cup Permutations({t1, t3}) \cup Permutations(Keys)
=============================================================================
