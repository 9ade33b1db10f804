--------------------------- MODULE VersionedMemory ---------------------------
(***************************************************************************)
(* What one space of the fact store promises a client that waits for each  *)
(* reply, said without tables, caches or ids: a key has a chain of         *)
(* contents, the last one told is the current belief until it is retired,  *)
(* a telling that repeats a content it holds adds nothing, an amendment    *)
(* keeps its place in the chain, and a forgotten key is gone as a whole.   *)
(*                                                                         *)
(* A telling repeats a held content when, trimmed and in lower case, it is *)
(* that content in lower case.  So a content with outer blanks repeats no  *)
(* copy of itself: it is held as it was told, and may be held twice.       *)
(*                                                                         *)
(* SqlStore is shown to implement it.                                      *)
(***************************************************************************)
EXTENDS Sequences, Integers

CONSTANTS
    Keys, Texts, LooseIds, NoBelief,
    Repeats     \* the pairs <<x, y>>: a telling of y repeats the held content x

VARIABLES
    chain,      \* the contents told under each key, oldest first
    belief,     \* the content that answers for each key, or NoBelief
    loose       \* <<id, content>> of the facts told without a key

memory == <<chain, belief, loose>>

-----------------------------------------------------------------------------
Contents == (UNION {{chain[k][i] : i \in DOMAIN chain[k]} : k \in Keys})
              \cup {n[2] : n \in loose}

Repeated(y) == \E x \in Contents : <<x, y>> \in Repeats

Init ==
    /\ chain = [k \in Keys |-> << >>]
    /\ belief = [k \in Keys |-> NoBelief]
    /\ loose = {}

Learn(k, x) ==
    /\ ~Repeated(x)
    /\ chain' = [chain EXCEPT ![k] = Append(@, x)]
    /\ belief' = [belief EXCEPT ![k] = x]
    /\ UNCHANGED loose

Note(id, x) ==
    /\ ~Repeated(x)
    /\ \A n \in loose : n[1] # id
    /\ loose' = loose \cup {<<id, x>>}
    /\ UNCHANGED <<chain, belief>>

\* Retired keys lose their current belief and keep their chain.
Retire(K) ==
    /\ belief' = [k \in Keys |-> IF k \in K THEN NoBelief ELSE belief[k]]
    /\ UNCHANGED <<chain, loose>>

Forget(K, L) ==
    /\ chain' = [k \in Keys |-> IF k \in K THEN << >> ELSE chain[k]]
    /\ belief' = [k \in Keys |-> IF k \in K THEN NoBelief ELSE belief[k]]
    /\ loose' = {n \in loose : n[1] \notin L}

Correct(k, i, x) ==
    /\ i \in DOMAIN chain[k]
    /\ chain' = [chain EXCEPT ![k][i] = x]
    /\ belief' = [belief EXCEPT ![k] =
                    IF i = Len(chain[k]) /\ @ # NoBelief THEN x ELSE @]
    /\ UNCHANGED loose

CorrectLoose(n, x) ==
    /\ loose' = (loose \ {n}) \cup {<<n[1], x>>}
    /\ UNCHANGED <<chain, belief>>

Next ==
    \/ \E k \in Keys, x \in Texts : Learn(k, x)
    \/ \E id \in LooseIds, x \in Texts : Note(id, x)
    \/ \E K \in SUBSET Keys : Retire(K)
    \/ \E K \in SUBSET Keys, L \in SUBSET LooseIds : Forget(K, L)
    \/ \E k \in Keys, x \in Texts : \E i \in DOMAIN chain[k] : Correct(k, i, x)
    \/ \E n \in loose, x \in Texts : CorrectLoose(n, x)

Spec == Init /\ [][Next]_memory
=============================================================================
