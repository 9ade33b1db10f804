---------------------------- MODULE NearDuplicates ----------------------------
(***************************************************************************)
(* When consolidation takes one content for a misspelling of another:      *)
(* both have as many words, they differ in exactly one, and that word of   *)
(* the one is at most two edits away from that word of the other.          *)
(*                                                                         *)
(* EditDistance is the code's table, one row per letter, with its early    *)
(* exits.  Misspelt says the same by what an edit is; Consolidate's        *)
(* properties use it, so that the runs compare the two.                    *)
(***************************************************************************)
EXTENDS Integers, Sequences, SequencesExt

MinTokenLen == 4
MaxEdit == 2

-----------------------------------------------------------------------------
Least(x, y) == IF x <= y THEN x ELSE y

(* The row of the table for the letter x of a, i-th of its letters, from    *)
(* the row before it.  Position j + 1 is the distance to b's first j letters.*)
EditRow(prev, x, i, b) ==
    LET cur[j \in 0 .. Len(b)] ==
          IF j = 0 THEN <<i>>
          ELSE LET before == cur[j - 1]
                   change == prev[j] + IF x # b[j] THEN 1 ELSE 0
               IN  Append(before,
                          Least(Least(prev[j + 1] + 1, before[j] + 1), change))
    IN  cur[Len(b)]

FirstRow(b) == [j \in 1 .. Len(b) + 1 |-> j - 1]

GiveUp == << >>

\* The next row, unless every distance in it is beyond the cap already.
NextRow(prev, a, i, b) ==
    LET cur == EditRow(prev, a[i], i, b)
    IN  IF prev = GiveUp \/ \A d \in Range(cur) : d > MaxEdit THEN GiveUp ELSE cur

EditDistance(a, b) ==
    LET row[i \in 0 .. Len(a)] ==
          IF i = 0 THEN FirstRow(b) ELSE NextRow(row[i - 1], a, i, b)
        last == row[Len(a)]
    IN  IF Len(a) - Len(b) \notin -MaxEdit .. MaxEdit \/ last = GiveUp
        THEN MaxEdit + 1
        ELSE last[Len(b) + 1]

NearDuplicate(tokens_a, tokens_b) ==
    LET diffs == {i \in DOMAIN tokens_a : tokens_a[i] # tokens_b[i]}
    IN  /\ Len(tokens_a) = Len(tokens_b) /\ tokens_a # << >>
        /\ Cardinality(diffs) = 1
        /\ \A i \in diffs :
              /\ Least(Len(tokens_a[i]), Len(tokens_b[i])) >= MinTokenLen
              /\ EditDistance(tokens_a[i], tokens_b[i]) <= MaxEdit

-----------------------------------------------------------------------------
(* What an edit makes of a word: a letter more, a letter less, or another.  *)
Edited(word, letters) ==
    {RemoveAt(word, i) : i \in DOMAIN word}
      \cup {InsertAt(word, i, x) : i \in 1 .. Len(word) + 1, x \in letters}
      \cup {ReplaceAt(word, i, x) : i \in DOMAIN word, x \in letters}

Misspelt(a, b) ==
    LET letters == Range(b)
    IN  \/ a = b
        \/ b \in Edited(a, letters)
        \/ \E w \in Edited(a, letters) : b \in Edited(w, letters)

OneMisspelling(tokens_a, tokens_b) ==
    /\ Len(tokens_a) = Len(tokens_b)
    /\ \E i \in DOMAIN tokens_a :
          /\ tokens_a[i] # tokens_b[i]
          /\ \A j \in DOMAIN tokens_a \ {i} : tokens_a[j] = tokens_b[j]
          /\ Len(tokens_a[i]) >= MinTokenLen /\ Len(tokens_b[i]) >= MinTokenLen
          /\ Misspelt(tokens_a[i], tokens_b[i])
=============================================================================
