---------------------------- MODULE Promise_proofs ----------------------------
(***************************************************************************)
(* SqlStore implements VersionedMemory for a client that waits for each    *)
(* reply, alone on its space.                                              *)
(*                                                                         *)
(* The rows and slot rows are seen through three state functions: what was *)
(* told as which version of a key (Told), whether a key has a current      *)
(* version (Answered), and the facts without a key (LooseOf).  Each        *)
(* transaction is a change of these three, and each change of these three  *)
(* a step of VersionedMemory.                                              *)
(***************************************************************************)
EXTENDS Belief_proofs, FiniteSetTheorems, SequenceTheorems

Told(k, v, x) ==
    \E r \in ada_thoughts : /\ r.thought.key = k
                            /\ r.thought.version = v
                            /\ r.thought.content = x

Answered(k) == \E s \in fact_slots : s.key = k /\ s.is_current

-----------------------------------------------------------------------------
\* A key has one row per version, its versions have no gap, and only the last
\* one may be current.
OneRowEach ==
    \A r, q \in ada_thoughts :
        /\ r.thought.key # NoKey
        /\ r.thought.key = q.thought.key /\ r.thought.version = q.thought.version
        => r = q

Gapless == \A k \in Keys : \E n \in Nat : Versions(Main, k) = 1 .. n

LastAnswers ==
    \A s \in fact_slots : s.key # NoKey /\ s.is_current =>
        \A v \in Versions(Main, s.key) : v <= s.version

ChainInv == OneRowEach /\ Gapless /\ LastAnswers

LEMMA InMain ==
    ASSUME OneSpace, StoreInv
    PROVE  /\ \A r \in ada_thoughts : r \in Row /\ r.thought \in Thought
                                      /\ r.thought.space_id = Main
           /\ \A s \in fact_slots : s \in Slot /\ s.space_id = Main
BY DEF OneSpace, StoreInv, TablesInv, TablesTypeOK, Row, Thought, Slot

LEMMA VersionsTold ==
    ASSUME OneSpace, StoreInv, NEW k, NEW v
    PROVE  v \in Versions(Main, k) <=> \E x : Told(k, v, x)
BY InMain DEF Versions, Told

LEMMA ChainAt ==
    ASSUME OneSpace, StoreInv, ChainInv, NEW k \in Keys, NEW v, NEW x
    PROVE  Told(k, v, x) <=> v \in Versions(Main, k) /\ ChainOf(Main, k)[v] = x
<1>1. k # NoKey
  BY KeyAssumption
<1>2. Told(k, v, x) => v \in Versions(Main, k)
  BY VersionsTold
<1>3. ASSUME v \in Versions(Main, k)
      PROVE  Told(k, v, x) <=> ChainOf(Main, k)[v] = x
  <2>1. PICK r \in ada_thoughts :
           r.thought.space_id = Main /\ r.thought.key = k /\ r.thought.version = v
    BY <1>3 DEF Versions
  <2>2. \A q \in ada_thoughts : q.thought.key = k /\ q.thought.version = v => q = r
    BY <1>1, <2>1 DEF ChainInv, OneRowEach
  <2>3. (CHOOSE q \in ada_thoughts : q.thought.space_id = Main /\ q.thought.key = k
                                     /\ q.thought.version = v) = r
    BY <2>1, <2>2
  <2>4. ChainOf(Main, k)[v] = r.thought.content
    BY <1>3, <2>3 DEF ChainOf
  <2> QED
    BY <2>1, <2>2, <2>4 DEF Told
<1> QED
  BY <1>2, <1>3

LEMMA ChainIsSeq ==
    ASSUME OneSpace, StoreInv, ChainInv, NEW k \in Keys
    PROVE  /\ ChainOf(Main, k) \in Seq(Texts)
           /\ Len(ChainOf(Main, k)) \in Nat
           /\ Versions(Main, k) = 1 .. Len(ChainOf(Main, k))
           /\ DOMAIN ChainOf(Main, k) = 1 .. Len(ChainOf(Main, k))
<1>1. PICK n \in Nat : Versions(Main, k) = 1 .. n
  BY DEF ChainInv, Gapless
<1>2. \A v \in 1 .. n : ChainOf(Main, k)[v] \in Texts
  <2>1. SUFFICES ASSUME NEW v \in 1 .. n PROVE ChainOf(Main, k)[v] \in Texts
    OBVIOUS
  <2>2. Told(k, v, ChainOf(Main, k)[v])
    BY <1>1, ChainAt
  <2> QED
    BY <2>2, InMain DEF Told, Thought
<1>3. ChainOf(Main, k) = [v \in 1 .. n |-> ChainOf(Main, k)[v]]
  BY <1>1 DEF ChainOf
<1>4. ChainOf(Main, k) \in [1 .. n -> Texts]
  BY <1>2, <1>3
<1>5. ChainOf(Main, k) \in Seq(Texts) /\ DOMAIN ChainOf(Main, k) = 1 .. n
  BY <1>4
<1> QED
  BY <1>1, <1>5

\* The current version of a key, if any, is its last.
LEMMA BeliefIs ==
    ASSUME OneSpace, StoreInv, ChainInv, NEW k \in Keys
    PROVE  /\ BeliefOf(Main, k) = IF Answered(k)
                                  THEN ChainOf(Main, k)[Len(ChainOf(Main, k))]
                                  ELSE NoFill
           /\ Answered(k) => Len(ChainOf(Main, k)) >= 1
<1>1. PICK n \in Nat : n = Len(ChainOf(Main, k)) /\ Versions(Main, k) = 1 .. n
  BY ChainIsSeq
<1>2. CurrentVersions(Main, k) = {} <=> ~Answered(k)
  BY InMain DEF CurrentVersions, Answered
<1>3. ASSUME NEW v \in CurrentVersions(Main, k) PROVE v = n /\ n >= 1
  <2>1. PICK s \in fact_slots : s.key = k /\ s.is_current /\ s.version = v
    BY <1>3 DEF CurrentVersions
  <2>2. k # NoKey
    BY KeyAssumption
  <2>3. v \in Versions(Main, k)
    BY <2>1, RowOfSlot, InMain DEF Versions
  <2>4. \A w \in Versions(Main, k) : w <= v
    BY <2>1, <2>2 DEF ChainInv, LastAnswers
  <2> QED
    BY <1>1, <2>3, <2>4
<1>4. CASE CurrentVersions(Main, k) = {}
  BY <1>2, <1>4 DEF BeliefOf
<1>5. CASE CurrentVersions(Main, k) # {}
  <2>1. CurrentVersions(Main, k) = {n} /\ n >= 1
    BY <1>3, <1>5
  <2>2. Max({n}) = n
    BY DEF Max
  <2> QED
    BY <1>1, <1>2, <2>1, <2>2 DEF BeliefOf
<1> QED
  BY <1>4, <1>5

-----------------------------------------------------------------------------
\* Sequences told apart by their elements.

At(a, v, x) == v \in 1 .. Len(a) /\ a[v] = x
SameAs(b, a) == \A v, x : At(b, v, x) <=> At(a, v, x)
LongerBy(b, a, x) == \A v, y : At(b, v, y) <=> At(a, v, y) \/ (v = Len(a) + 1 /\ y = x)
EditedAt(b, a, i, x) ==
    \A v, y : At(b, v, y) <=> v \in 1 .. Len(a) /\ IF v = i THEN y = x ELSE a[v] = y

LEMMA SameChain ==
    ASSUME NEW S, NEW a \in Seq(S), NEW b \in Seq(S), SameAs(b, a)
    PROVE  b = a
<1>1. Len(a) \in Nat /\ Len(b) \in Nat
  OBVIOUS
<1>2. \A v : v \in 1 .. Len(b) <=> v \in 1 .. Len(a)
  BY DEF SameAs, At
<1>3. Len(a) = Len(b)
  <2>1. Len(a) \in 1 .. Len(a) => Len(a) <= Len(b)
    BY <1>1, <1>2
  <2>2. Len(b) \in 1 .. Len(b) => Len(b) <= Len(a)
    BY <1>1, <1>2
  <2> QED
    BY <1>1, <2>1, <2>2
<1>4. \A i \in 1 .. Len(a) : a[i] = b[i]
  BY <1>3 DEF SameAs, At
<1> QED
  BY <1>3, <1>4, SeqEqual

LEMMA NoChain ==
    ASSUME NEW S, NEW b \in Seq(S), \A v : v \notin 1 .. Len(b)
    PROVE  b = << >>
<1>1. Len(b) = 0
  <2>1. Len(b) \in Nat /\ 1 \notin 1 .. Len(b)
    OBVIOUS
  <2> QED
    BY <2>1
<1> QED
  BY <1>1, EmptySeq

LEMMA LongerChain ==
    ASSUME NEW S, NEW a \in Seq(S), NEW b \in Seq(S), NEW x \in S,
           LongerBy(b, a, x)
    PROVE  b = Append(a, x)
<1>1. PICK c \in Seq(S) : c = Append(a, x)
  BY AppendProperties
<1>2. /\ Len(c) = Len(a) + 1 /\ Len(a) \in Nat
      /\ \A i \in 1 .. Len(a) : c[i] = a[i]
      /\ c[Len(a) + 1] = x
  BY <1>1, AppendProperties
<1>3. LongerBy(c, a, x)
  <2>1. Len(a) + 1 \notin 1 .. Len(a)
    BY <1>2
  <2>2. \A v : v \in 1 .. Len(c) <=> v \in 1 .. Len(a) \/ v = Len(a) + 1
    BY <1>2
  <2>3. ASSUME NEW v, NEW y
        PROVE  At(c, v, y) <=> At(a, v, y) \/ (v = Len(a) + 1 /\ y = x)
    BY <1>2, <2>1, <2>2 DEF At
  <2> QED
    BY <2>3 DEF LongerBy
<1>4. SameAs(b, c)
  BY <1>3 DEF SameAs, LongerBy
<1> QED
  BY <1>1, <1>4, SameChain

LEMMA EditedChain ==
    ASSUME NEW S, NEW a \in Seq(S), NEW b \in Seq(S), NEW x \in S,
           NEW i \in 1 .. Len(a), EditedAt(b, a, i, x)
    PROVE  b = [a EXCEPT ![i] = x]
<1>1. PICK c : c = [a EXCEPT ![i] = x]
  OBVIOUS
<1>2. /\ c \in Seq(S) /\ Len(c) = Len(a)
      /\ \A j \in 1 .. Len(a) : c[j] = IF j = i THEN x ELSE a[j]
  BY <1>1, ExceptSeq
<1>3. SameAs(b, c)
  BY <1>2 DEF SameAs, EditedAt, At
<1> QED
  BY <1>1, <1>2, <1>3, SameChain

-----------------------------------------------------------------------------
(* What the refinement mapping shows of a state that Good describes.        *)
Good == OneSpace /\ StoreInv /\ ChainInv

Seen ==
    \A k \in Keys :
        /\ ChainOf(Main, k) \in Seq(Texts)
        /\ Versions(Main, k) = 1 .. Len(ChainOf(Main, k))
        /\ \A v, x : Told(k, v, x) <=> At(ChainOf(Main, k), v, x)
        /\ BeliefOf(Main, k) = IF Answered(k)
                               THEN ChainOf(Main, k)[Len(ChainOf(Main, k))]
                               ELSE NoFill
        /\ Answered(k) => Len(ChainOf(Main, k)) >= 1

LEMMA GoodIsSeen == Good => Seen
<1>1. SUFFICES ASSUME Good, NEW k \in Keys
               PROVE  /\ ChainOf(Main, k) \in Seq(Texts)
                      /\ Versions(Main, k) = 1 .. Len(ChainOf(Main, k))
                      /\ \A v, x : Told(k, v, x) <=> At(ChainOf(Main, k), v, x)
                      /\ BeliefOf(Main, k) = IF Answered(k)
                                             THEN ChainOf(Main, k)[Len(ChainOf(Main, k))]
                                             ELSE NoFill
                      /\ Answered(k) => Len(ChainOf(Main, k)) >= 1
  BY DEF Seen
<1>2. /\ ChainOf(Main, k) \in Seq(Texts)
      /\ Versions(Main, k) = 1 .. Len(ChainOf(Main, k))
  BY <1>1, ChainIsSeq DEF Good
<1>3. ASSUME NEW v, NEW x
      PROVE  Told(k, v, x) <=> At(ChainOf(Main, k), v, x)
  BY <1>1, <1>2, ChainAt DEF Good, At
<1>4. /\ BeliefOf(Main, k) = IF Answered(k)
                             THEN ChainOf(Main, k)[Len(ChainOf(Main, k))]
                             ELSE NoFill
      /\ Answered(k) => Len(ChainOf(Main, k)) >= 1
  BY <1>1, BeliefIs DEF Good
<1> QED
  BY <1>2, <1>3, <1>4

LEMMA GoodIsSeenNext == Good' => Seen'
BY GoodIsSeen, PTL

-----------------------------------------------------------------------------
\* The steps of VersionedMemory, by what they change of what is told.

SameTold == \A q \in Keys : \A v, y : Told(q, v, y)' <=> Told(q, v, y)
SameAnswers == \A q \in Keys : Answered(q)' <=> Answered(q)

LEMMA Unseen ==
    ASSUME Good, UNCHANGED tables
    PROVE  UNCHANGED Promise!memory
BY DEF Promise!memory, ChainOf, Versions, BeliefOf, CurrentVersions, LooseOf, tables

LEMMA ContentsStored ==
    ASSUME Good, NEW x \in Promise!Contents
    PROVE  \E r \in ada_thoughts : r.thought.content = x
<1> DEFINE chains == [q \in Keys |-> ChainOf(Main, q)]
           told == UNION {{chains[k][i] : i \in DOMAIN chains[k]} : k \in Keys}
           noted == {n[2] : n \in LooseOf(Main)}
<1>1. Seen
  BY GoodIsSeen
<1>2. x \in told \/ x \in noted
  <2>1. Promise!Contents = told \cup noted
    BY DEF Promise!Contents
  <2> HIDE DEF told, noted
  <2> QED
    BY <2>1
<1>3. ASSUME NEW k \in Keys, NEW i \in DOMAIN ChainOf(Main, k),
             x = ChainOf(Main, k)[i]
      PROVE  \E r \in ada_thoughts : r.thought.content = x
  <2>1. i \in 1 .. Len(ChainOf(Main, k))
    BY <1>3, ChainIsSeq DEF Good
  <2>2. Told(k, i, x)
    BY <1>1, <1>3, <2>1 DEF Seen, At
  <2> QED
    BY <2>2 DEF Told
<1>4. CASE x \in told
  <2>1. PICK k \in Keys : x \in {chains[k][i] : i \in DOMAIN chains[k]}
    BY <1>4
  <2>2. \E i \in DOMAIN ChainOf(Main, k) : x = ChainOf(Main, k)[i]
    BY <2>1
  <2> QED
    BY <1>3, <2>2
<1>5. CASE x \in noted
  BY <1>5 DEF LooseOf
<1> HIDE DEF told, noted
<1> QED
  BY <1>2, <1>4, <1>5

\* A content that repeats no row repeats nothing the memory holds.
LEMMA NothingRepeated ==
    ASSUME Good, NEW x,
           \A r \in ada_thoughts : r.thought.content \notin RepeatedBy(x)
    PROVE  ~Promise!Repeated(x)
<1>1. SUFFICES ASSUME NEW y \in Promise!Contents, y \in RepeatedBy(x)
               PROVE  FALSE
  BY DEF Promise!Repeated
<1> QED
  BY <1>1, ContentsStored

\* A chain that no row of the step belongs to.
LEMMA SameChainSeen ==
    ASSUME Seen, Seen', NEW q \in Keys, \A v, y : Told(q, v, y)' <=> Told(q, v, y)
    PROVE  ChainOf(Main, q)' = ChainOf(Main, q)
<1>1. PICK a \in Seq(Texts) : a = ChainOf(Main, q)
  BY DEF Seen
<1>2. PICK b \in Seq(Texts) : b = ChainOf(Main, q)'
  BY DEF Seen
<1>3. \A v, y : Told(q, v, y) <=> At(a, v, y)
  BY <1>1 DEF Seen
<1>4. \A v, y : Told(q, v, y)' <=> At(b, v, y)
  BY <1>2 DEF Seen, At
<1>5. SameAs(b, a)
  BY <1>3, <1>4 DEF SameAs
<1> QED
  BY <1>1, <1>2, <1>5, SameChain

LEMMA SameBeliefSeen ==
    ASSUME Seen, Seen', NEW q \in Keys, ChainOf(Main, q)' = ChainOf(Main, q),
           Answered(q)' <=> Answered(q)
    PROVE  BeliefOf(Main, q)' = BeliefOf(Main, q)
BY DEF Seen

LEMMA Learned ==
    ASSUME Good, Good', NEW k \in Keys, NEW x \in Texts,
           \A r \in ada_thoughts : r.thought.content \notin RepeatedBy(x),
           \A q \in Keys : \A v, y : Told(q, v, y)' <=>
              \/ Told(q, v, y)
              \/ q = k /\ v = Len(ChainOf(Main, k)) + 1 /\ y = x,
           Answered(k)', \A q \in Keys \ {k} : Answered(q)' <=> Answered(q),
           LooseOf(Main)' = LooseOf(Main)
    PROVE  Promise!Learn(k, x)
<1>1. Seen /\ Seen'
  BY GoodIsSeen, GoodIsSeenNext
<1>2. ASSUME NEW q \in Keys \ {k}
      PROVE  /\ ChainOf(Main, q)' = ChainOf(Main, q)
             /\ BeliefOf(Main, q)' = BeliefOf(Main, q)
  BY <1>1, SameChainSeen, SameBeliefSeen
<1>3. PICK a \in Seq(Texts) : a = ChainOf(Main, k)
  BY <1>1 DEF Seen
<1>4. PICK b \in Seq(Texts) : b = ChainOf(Main, k)'
  BY <1>1 DEF Seen
<1>5. b = Append(a, x)
  <2>1. \A v, y : Told(k, v, y) <=> At(a, v, y)
    BY <1>1, <1>3 DEF Seen
  <2>2. \A v, y : Told(k, v, y)' <=> At(b, v, y)
    BY <1>1, <1>4 DEF Seen, At
  <2>3. LongerBy(b, a, x)
    BY <1>3, <2>1, <2>2 DEF LongerBy
  <2> QED
    BY <2>3, LongerChain
<1>6. BeliefOf(Main, k)' = x
  <2>1. BeliefOf(Main, k)' = b[Len(b)]
    BY <1>1, <1>4 DEF Seen
  <2> QED
    BY <1>5, <2>1, AppendProperties
<1>7. ~Promise!Repeated(x)
  BY NothingRepeated
<1>8. [q \in Keys |-> ChainOf(Main, q)]'
        = [[q \in Keys |-> ChainOf(Main, q)] EXCEPT ![k] = Append(@, x)]
  BY <1>2, <1>3, <1>4, <1>5
<1>9. [q \in Keys |-> BeliefOf(Main, q)]'
        = [[q \in Keys |-> BeliefOf(Main, q)] EXCEPT ![k] = x]
  BY <1>2, <1>6
<1> QED
  BY <1>7, <1>8, <1>9 DEF Promise!Learn

LEMMA Noted ==
    ASSUME Good, Good', NEW id, NEW x \in Texts,
           \A r \in ada_thoughts : /\ r.thought.content \notin RepeatedBy(x)
                                   /\ r.thought.thought_id # id,
           SameTold, SameAnswers, LooseOf(Main)' = LooseOf(Main) \cup {<<id, x>>}
    PROVE  Promise!Note(id, x)
<1>1. Seen /\ Seen'
  BY GoodIsSeen, GoodIsSeenNext
<1>2. ASSUME NEW q \in Keys
      PROVE  /\ ChainOf(Main, q)' = ChainOf(Main, q)
             /\ BeliefOf(Main, q)' = BeliefOf(Main, q)
  BY <1>1, SameChainSeen, SameBeliefSeen DEF SameTold, SameAnswers
<1>3. ~Promise!Repeated(x)
  BY NothingRepeated
<1>4. \A n \in LooseOf(Main) : n[1] # id
  BY DEF LooseOf
<1> QED
  BY <1>2, <1>3, <1>4 DEF Promise!Note

LEMMA RetiredKeys ==
    ASSUME Good, Good', SameTold, \A q \in Keys : Answered(q)' => Answered(q),
           LooseOf(Main)' = LooseOf(Main)
    PROVE  \E K \in SUBSET Keys : Promise!Retire(K)
<1>1. Seen /\ Seen'
  BY GoodIsSeen, GoodIsSeenNext
<1>2. PICK K : K = {q \in Keys : ~Answered(q)'}
  OBVIOUS
<1>3. \A q \in Keys : ChainOf(Main, q)' = ChainOf(Main, q)
  BY <1>1, SameChainSeen DEF SameTold
<1>4. ASSUME NEW q \in Keys
      PROVE  BeliefOf(Main, q)' = IF q \in K THEN NoFill ELSE BeliefOf(Main, q)
  BY <1>1, <1>2, <1>3 DEF Seen
<1>5. Promise!Retire(K)
  BY <1>3, <1>4 DEF Promise!Retire
<1> QED
  BY <1>2, <1>5

LEMMA Forgotten ==
    ASSUME Good, Good', NEW K \in SUBSET Keys, NEW L,
           \A q \in Keys : \A v, y : Told(q, v, y)' <=> q \notin K /\ Told(q, v, y),
           \A q \in Keys \ K : Answered(q)' <=> Answered(q),
           LooseOf(Main)' = {n \in LooseOf(Main) : n[1] \notin L}
    PROVE  Promise!Forget(K, L)
<1>1. Seen /\ Seen'
  BY GoodIsSeen, GoodIsSeenNext
<1>2. ASSUME NEW q \in Keys \ K
      PROVE  /\ ChainOf(Main, q)' = ChainOf(Main, q)
             /\ BeliefOf(Main, q)' = BeliefOf(Main, q)
  BY <1>1, SameChainSeen, SameBeliefSeen
<1>3. ASSUME NEW q \in K
      PROVE  ChainOf(Main, q)' = << >> /\ BeliefOf(Main, q)' = NoFill
  <2>1. PICK b \in Seq(Texts) : b = ChainOf(Main, q)'
    BY <1>1 DEF Seen
  <2>2. \A v : v \notin 1 .. Len(b)
    <3>1. \A v, y : Told(q, v, y)' <=> v \in 1 .. Len(b) /\ b[v] = y
      BY <1>1, <2>1 DEF Seen, At
    <3> QED
      BY <3>1
  <2>3. b = << >>
    BY <2>2, NoChain
  <2>4. ~Answered(q)'
    <3>1. Len(b) = 0
      BY <2>3
    <3>2. Answered(q)' => Len(b) >= 1
      BY <1>1, <2>1 DEF Seen
    <3> QED
      BY <3>1, <3>2
  <2> QED
    BY <1>1, <2>1, <2>3, <2>4 DEF Seen
<1> QED
  BY <1>2, <1>3 DEF Promise!Forget

LEMMA Corrected ==
    ASSUME Good, Good', NoFill \notin Texts, NEW k \in Keys, NEW x \in Texts,
           NEW i \in Versions(Main, k),
           \A q \in Keys : \A v, y : Told(q, v, y)' <=>
              IF q = k /\ v = i THEN y = x ELSE Told(q, v, y),
           SameAnswers, LooseOf(Main)' = LooseOf(Main)
    PROVE  i \in DOMAIN ChainOf(Main, k) /\ Promise!Correct(k, i, x)
<1>1. Seen /\ Seen'
  BY GoodIsSeen, GoodIsSeenNext
<1>2. ASSUME NEW q \in Keys \ {k}
      PROVE  /\ ChainOf(Main, q)' = ChainOf(Main, q)
             /\ BeliefOf(Main, q)' = BeliefOf(Main, q)
  BY <1>1, SameChainSeen, SameBeliefSeen DEF SameAnswers
<1>3. PICK a \in Seq(Texts) : a = ChainOf(Main, k)
  BY <1>1 DEF Seen
<1>4. PICK b \in Seq(Texts) : b = ChainOf(Main, k)'
  BY <1>1 DEF Seen
<1>5. i \in 1 .. Len(a) /\ Len(a) \in Nat /\ DOMAIN a = 1 .. Len(a)
  BY <1>1, <1>3 DEF Seen
<1>6. b = [a EXCEPT ![i] = x]
  <2>1. \A v, y : Told(k, v, y) <=> At(a, v, y)
    BY <1>1, <1>3 DEF Seen
  <2>2. \A v, y : Told(k, v, y)' <=> At(b, v, y)
    BY <1>1, <1>4 DEF Seen, At
  <2>3. EditedAt(b, a, i, x)
    <3>1. ASSUME NEW v, NEW y
          PROVE  At(b, v, y) <=>
                   v \in 1 .. Len(a) /\ IF v = i THEN y = x ELSE a[v] = y
      BY <1>5, <2>1, <2>2 DEF At
    <3> QED
      BY <3>1 DEF EditedAt
  <2> QED
    BY <1>5, <2>3, EditedChain
<1>7. /\ Len(b) = Len(a)
      /\ \A j \in 1 .. Len(a) : b[j] = IF j = i THEN x ELSE a[j]
  BY <1>5, <1>6, ExceptSeq
<1>8. BeliefOf(Main, k)' =
        IF i = Len(a) /\ BeliefOf(Main, k) # NoFill THEN x ELSE BeliefOf(Main, k)
  <2>1. CASE Answered(k)
    <3>1. Len(a) >= 1 /\ BeliefOf(Main, k) = a[Len(a)]
      BY <1>1, <1>3, <2>1 DEF Seen
    <3>2. Len(a) \in 1 .. Len(a) /\ a[Len(a)] # NoFill
      BY <1>5, <3>1, ElementOfSeq
    <3>3. BeliefOf(Main, k)' = b[Len(b)]
      BY <1>1, <1>4, <2>1 DEF Seen, SameAnswers
    <3> QED
      BY <1>7, <3>1, <3>2, <3>3
  <2>2. CASE ~Answered(k)
    BY <1>1, <2>2 DEF Seen, SameAnswers
  <2> QED
    BY <2>1, <2>2
<1>9. [q \in Keys |-> ChainOf(Main, q)]'
        = [[q \in Keys |-> ChainOf(Main, q)] EXCEPT ![k][i] = x]
  BY <1>2, <1>3, <1>4, <1>6
<1>10. [q \in Keys |-> BeliefOf(Main, q)]'
         = [[q \in Keys |-> BeliefOf(Main, q)] EXCEPT ![k] =
              IF i = Len([q \in Keys |-> ChainOf(Main, q)][k]) /\ @ # NoFill
              THEN x ELSE @]
  BY <1>2, <1>3, <1>8
<1> QED
  BY <1>3, <1>5, <1>9, <1>10 DEF Promise!Correct

LEMMA CorrectedLoose ==
    ASSUME Good, Good', SameTold, SameAnswers, NEW n, NEW x,
           LooseOf(Main)' = (LooseOf(Main) \ {n}) \cup {<<n[1], x>>}
    PROVE  Promise!CorrectLoose(n, x)
<1>1. Seen /\ Seen'
  BY GoodIsSeen, GoodIsSeenNext
<1>2. ASSUME NEW q \in Keys
      PROVE  /\ ChainOf(Main, q)' = ChainOf(Main, q)
             /\ BeliefOf(Main, q)' = BeliefOf(Main, q)
  BY <1>1, SameChainSeen, SameBeliefSeen DEF SameTold, SameAnswers
<1> QED
  BY <1>2 DEF Promise!CorrectLoose

-----------------------------------------------------------------------------
\* What each transaction changes of what is told.

Fresh(t) == \A r \in ada_thoughts : r.thought.thought_id # t.thought_id

LEMMA SavedRows ==
    ASSUME StoreInv, NEW t \in Thought, Fresh(t), save_thought(t)
    PROVE  \E new : new.thought = t /\ ada_thoughts' = ada_thoughts \cup {new}
<1>1. RowsExcept({t.thought_id}) = ada_thoughts
  BY DEF RowsExcept, Fresh
<1>2. [thought |-> t, archived |-> FALSE].thought = t
  OBVIOUS
<1> QED
  BY <1>1, <1>2 DEF save_thought

LEMMA SavedSlotRows ==
    ASSUME StoreInv, NEW t \in Thought, Fresh(t), save_thought(t)
    PROVE  /\ \A s \in fact_slots' :
                \/ s \in slot_rows(t, TRUE)
                \/ s \in fact_slots /\ ~Supersedes(t, s)
                \/ \E x \in fact_slots : Supersedes(t, x) /\ s = Demote(x)
           /\ slot_rows(t, TRUE) \subseteq fact_slots'
           /\ \A s \in fact_slots : ~Supersedes(t, s) => s \in fact_slots'
<1>1. SlotsExcept({t.thought_id}) = fact_slots
  BY RowOfSlot DEF SlotsExcept, Fresh
<1>2. fact_slots' = slot_rows(t, TRUE)
        \cup {s \in fact_slots : ~Supersedes(t, s)}
        \cup {Demote(s) : s \in {x \in fact_slots : Supersedes(t, x)}}
  BY <1>1 DEF save_thought
<1> QED
  BY <1>2

LEMMA SavedTold ==
    ASSUME StoreInv, NEW t \in Thought, Fresh(t), save_thought(t),
           NEW q, NEW v, NEW y
    PROVE  Told(q, v, y)' <=>
              \/ Told(q, v, y)
              \/ q = t.key /\ v = t.version /\ y = t.content
<1>1. PICK new : new.thought = t /\ ada_thoughts' = ada_thoughts \cup {new}
  BY SavedRows
<1> QED
  BY <1>1 DEF Told

\* The slot rows of the other keys stay as they are.
LEMMA SavedSlots ==
    ASSUME StoreInv, NEW t \in Thought, Fresh(t), save_thought(t)
    PROVE  /\ \A s \in fact_slots' : s.key # t.key => s \in fact_slots
           /\ \A s \in fact_slots : s.key # t.key => s \in fact_slots'
<1>1. \A s \in slot_rows(t, TRUE) : s.key = t.key
  BY SlotRowsFields
<1>2. \A s \in fact_slots : Demote(s).key = s.key
  BY DEF Demote, StoreInv, TablesInv, TablesTypeOK, Slot
<1>3. \A s \in fact_slots : Supersedes(t, s) => s.key = t.key
  BY DEF Supersedes
<1>4. ASSUME NEW s \in fact_slots', s.key # t.key PROVE s \in fact_slots
  <2>1. s \notin slot_rows(t, TRUE)
    BY <1>1, <1>4
  <2>2. ~\E x \in fact_slots : Supersedes(t, x) /\ s = Demote(x)
    BY <1>2, <1>3, <1>4
  <2> QED
    BY <2>1, <2>2, SavedSlotRows
<1>5. ASSUME NEW s \in fact_slots, s.key # t.key PROVE s \in fact_slots'
  BY <1>3, <1>5, SavedSlotRows
<1> QED
  BY <1>4, <1>5

LEMMA SavedVersion ==
    ASSUME OneSpace, StoreInv, StoreInv', ChainInv, NEW t \in Thought, t.key \in Keys,
           Fresh(t), Versions(Main, t.key) = 1 .. (t.version - 1), save_thought(t)
    PROVE  /\ ChainInv'
           /\ Answered(t.key)'
           /\ \A q \in Keys \ {t.key} : Answered(q)' <=> Answered(q)
           /\ LooseOf(Main)' = LooseOf(Main)
<1>1. t.key # NoKey /\ t.version \in Nat \ {0} /\ t.space_id = Main
  BY KeyAssumption DEF Thought, OneSpace
<1>2. PICK new : new.thought = t /\ ada_thoughts' = ada_thoughts \cup {new}
  BY SavedRows
<1>3. \A r \in ada_thoughts : ~(r.thought.key = t.key /\ r.thought.version = t.version)
  BY <1>1, InMain DEF Versions
<1>4. OneRowEach'
  <2>1. SUFFICES ASSUME NEW r \in ada_thoughts', NEW q \in ada_thoughts',
                        r.thought.key # NoKey, r.thought.key = q.thought.key,
                        r.thought.version = q.thought.version
                 PROVE  r = q
    BY DEF OneRowEach
  <2>2. CASE r \in ada_thoughts /\ q \in ada_thoughts
    BY <2>1, <2>2 DEF ChainInv, OneRowEach
  <2> QED
    BY <1>2, <1>3, <2>1, <2>2
<1>5. Gapless'
  <2>1. SUFFICES ASSUME NEW k \in Keys PROVE \E n \in Nat : Versions(Main, k)' = 1 .. n
    BY DEF Gapless
  <2>2. CASE k = t.key
    <3>1. Versions(Main, k)' = Versions(Main, k) \cup {t.version}
      BY <1>1, <1>2, <2>2 DEF Versions
    <3>2. Versions(Main, k)' = 1 .. t.version
      BY <1>1, <2>2, <3>1
    <3> QED
      BY <1>1, <3>2
  <2>3. CASE k # t.key
    <3>1. Versions(Main, k)' = Versions(Main, k)
      BY <1>2, <2>3 DEF Versions
    <3> QED
      BY <3>1 DEF ChainInv, Gapless
  <2> QED
    BY <2>2, <2>3
<1>6. ASSUME NEW s \in fact_slots', s.key = t.key, s.is_current
      PROVE  s \in slot_rows(t, TRUE)
  <2>1. \A x \in fact_slots : x.key = t.key => Supersedes(t, x)
    <3>1. SUFFICES ASSUME NEW x \in fact_slots, x.key = t.key PROVE x.version < t.version
      BY <1>1, InMain DEF Supersedes
    <3>2. x.version \in Versions(Main, t.key)
      BY <3>1, RowOfSlot, InMain DEF Versions
    <3> QED
      BY <1>1, <3>2
  <2>2. \A x \in fact_slots : ~Demote(x).is_current
    BY DEF Demote, StoreInv, TablesInv, TablesTypeOK, Slot
  <2> QED
    BY <1>6, <2>1, <2>2, SavedSlotRows
<1>7. LastAnswers'
  <2>1. SUFFICES ASSUME NEW s \in fact_slots', s.key # NoKey, s.is_current,
                        NEW v \in Versions(Main, s.key)'
                 PROVE  v <= s.version
    BY DEF LastAnswers
  <2>2. CASE s.key = t.key
    <3>1. s.version = t.version
      BY <1>6, <2>1, <2>2, SlotRowsFields
    <3>2. v \in 1 .. (t.version - 1) \/ v = t.version
      BY <1>2, <2>2 DEF Versions
    <3> QED
      BY <1>1, <3>1, <3>2
  <2>3. CASE s.key # t.key
    <3>1. s \in fact_slots
      BY <2>3, SavedSlots
    <3>2. v \in Versions(Main, s.key)
      BY <1>2, <2>3 DEF Versions
    <3> QED
      BY <2>1, <3>1, <3>2 DEF ChainInv, LastAnswers
  <2> QED
    BY <2>2, <2>3
<1>8. Answered(t.key)'
  <2>1. PICK s \in slot_rows(t, TRUE) : s.is_current = TRUE /\ s.key = t.key
    BY <1>1, KeyedSlot
  <2> QED
    BY <2>1, SavedSlotRows DEF Answered
<1>9. \A q \in Keys \ {t.key} : Answered(q)' <=> Answered(q)
  BY SavedSlots DEF Answered
<1>10. LooseOf(Main)' = LooseOf(Main)
  BY <1>1, <1>2 DEF LooseOf
<1> QED
  BY <1>4, <1>5, <1>7, <1>8, <1>9, <1>10 DEF ChainInv

LEMMA SavedLoose ==
    ASSUME OneSpace, StoreInv, ChainInv, NEW t \in Thought, t.key = NoKey,
           Fresh(t), save_thought(t)
    PROVE  /\ ChainInv'
           /\ SameTold /\ SameAnswers
           /\ LooseOf(Main)' = LooseOf(Main) \cup {<<t.thought_id, t.content>>}
<1>1. NoKey \notin Keys /\ t.space_id = Main
  BY KeyAssumption DEF Thought, OneSpace
<1>2. PICK new : new.thought = t /\ ada_thoughts' = ada_thoughts \cup {new}
  BY SavedRows
<1>3. OneRowEach'
  BY <1>2 DEF ChainInv, OneRowEach
<1>4. \A k : k # NoKey => Versions(Main, k)' = Versions(Main, k)
  BY <1>2 DEF Versions
<1>5. Gapless'
  BY <1>1, <1>4 DEF ChainInv, Gapless
<1>6. LastAnswers'
  <2>1. SUFFICES ASSUME NEW s \in fact_slots', s.key # NoKey, s.is_current,
                        NEW v \in Versions(Main, s.key)'
                 PROVE  v <= s.version
    BY DEF LastAnswers
  <2>2. s \in fact_slots
    BY <2>1, SavedSlots
  <2>3. v \in Versions(Main, s.key)
    BY <1>4, <2>1
  <2> QED
    BY <2>1, <2>2, <2>3 DEF ChainInv, LastAnswers
<1>7. SameTold
  BY <1>1, SavedTold DEF SameTold
<1>8. SameAnswers
  BY <1>1, SavedSlots DEF SameAnswers, Answered
<1>9. LooseOf(Main)' = LooseOf(Main) \cup {<<t.thought_id, t.content>>}
  BY <1>1, <1>2 DEF LooseOf
<1> QED
  BY <1>3, <1>5, <1>6, <1>7, <1>8, <1>9 DEF ChainInv

LEMMA ArchivedTold ==
    ASSUME OneSpace, StoreInv, StoreInv', ChainInv, NEW ids, archive_rows(ids)
    PROVE  /\ ChainInv'
           /\ SameTold /\ \A q \in Keys : Answered(q)' => Answered(q)
           /\ LooseOf(Main)' = LooseOf(Main)
<1>1. /\ \A q \in ada_thoughts' : \E r \in ada_thoughts : q.thought = r.thought
      /\ \A r \in ada_thoughts : \E q \in ada_thoughts' : q.thought = r.thought
  BY ArchivedRows
<1>2. \A s \in fact_slots' : s.is_current => s \in fact_slots
  <2>1. \A x \in fact_slots : ~Demote(x).is_current
    BY DEF Demote, StoreInv, TablesInv, TablesTypeOK, Slot
  <2> QED
    BY <2>1 DEF archive_rows, SlotsExcept
<1>3. \A k : Versions(Main, k)' = Versions(Main, k)
  BY <1>1 DEF Versions
<1>4. OneRowEach'
  <2>1. SUFFICES ASSUME NEW r \in ada_thoughts', NEW q \in ada_thoughts',
                        r.thought.key # NoKey, r.thought.key = q.thought.key,
                        r.thought.version = q.thought.version
                 PROVE  r = q
    BY DEF OneRowEach
  <2>2. r.thought = q.thought
    BY <1>1, <2>1 DEF ChainInv, OneRowEach
  <2> QED
    BY <2>2 DEF StoreInv, TablesInv, PrimaryKey
<1>5. Gapless' /\ LastAnswers'
  BY <1>2, <1>3 DEF ChainInv, Gapless, LastAnswers
<1>6. SameTold
  BY <1>1 DEF SameTold, Told
<1>7. \A q \in Keys : Answered(q)' => Answered(q)
  BY <1>2 DEF Answered
<1>8. LooseOf(Main)' = LooseOf(Main)
  BY <1>1 DEF LooseOf
<1> QED
  BY <1>4, <1>5, <1>6, <1>7, <1>8 DEF ChainInv

\* A keyed row has a slot row.
LEMMA KeyedRow ==
    ASSUME StoreInv, NEW r \in ada_thoughts, r.thought.key # NoKey
    PROVE  \E s \in fact_slots : s.thought_id = r.thought.thought_id
                                 /\ s.key = r.thought.key
                                 /\ s.version = r.thought.version
<1>1. PICK current \in BOOLEAN : slot_rows(r.thought, current) \subseteq fact_slots
  BY DEF StoreInv, TablesInv, SlotsDecomposeThoughts
<1>2. PICK s : s \in slot_rows(r.thought, current)
  BY DEF slot_rows
<1> QED
  BY <1>1, <1>2, SlotRowsFields

LEMMA ForgottenKey ==
    ASSUME OneSpace, StoreInv, ChainInv, NEW k \in Keys,
           delete_rows(SlotIds({s \in SlotsOf(Main) : s.key = k}))
    PROVE  /\ ChainInv'
           /\ \A q \in Keys : \A v, y : Told(q, v, y)' <=> q # k /\ Told(q, v, y)
           /\ \A q \in Keys \ {k} : Answered(q)' <=> Answered(q)
           /\ LooseOf(Main)' = LooseOf(Main)
<1>1. PICK ids : ids = SlotIds({s \in SlotsOf(Main) : s.key = k})
  OBVIOUS
<1>2. k # NoKey
  BY KeyAssumption
<1>3. ASSUME NEW s \in fact_slots PROVE s.thought_id \in ids <=> s.key = k
  BY <1>1, <1>3, InMain DEF SlotIds, SlotsOf, StoreInv, TablesInv, PrimaryKey
<1>4. ASSUME NEW r \in ada_thoughts PROVE r.thought.thought_id \in ids <=> r.thought.key = k
  <2>1. CASE r.thought.key = k
    BY <1>2, <1>3, <2>1, KeyedRow
  <2>2. ASSUME r.thought.thought_id \in ids PROVE r.thought.key = k
    <3>1. PICK s \in fact_slots : s.thought_id = r.thought.thought_id /\ s.key = k
      BY <1>1, <2>2 DEF SlotIds, SlotsOf
    <3> QED
      BY <3>1, SlotOfRow
  <2> QED
    BY <2>1, <2>2
<1>5. \A r : r \in ada_thoughts' <=> r \in ada_thoughts /\ r.thought.key # k
  BY <1>1, <1>4 DEF delete_rows, RowsExcept
<1>6. \A s : s \in fact_slots' <=> s \in fact_slots /\ s.key # k
  BY <1>1, <1>3 DEF delete_rows, SlotsExcept
<1>7. \A q : Versions(Main, q)' = IF q = k THEN {} ELSE Versions(Main, q)
  BY <1>5 DEF Versions
<1>8. OneRowEach'
  BY <1>5 DEF ChainInv, OneRowEach
<1>9. Gapless'
  <2>1. {} = 1 .. 0 /\ 0 \in Nat
    OBVIOUS
  <2> QED
    BY <1>7, <2>1 DEF ChainInv, Gapless
<1>10. LastAnswers'
  BY <1>6, <1>7 DEF ChainInv, LastAnswers
<1>11. \A q \in Keys : \A v, y : Told(q, v, y)' <=> q # k /\ Told(q, v, y)
  BY <1>5 DEF Told
<1>12. \A q \in Keys \ {k} : Answered(q)' <=> Answered(q)
  BY <1>6 DEF Answered
<1>13. LooseOf(Main)' = LooseOf(Main)
  BY <1>2, <1>5 DEF LooseOf
<1> QED
  BY <1>8, <1>9, <1>10, <1>11, <1>12, <1>13 DEF ChainInv

LEMMA WipedTold ==
    ASSUME OneSpace, StoreInv, delete_space(Main)
    PROVE  /\ ChainInv'
           /\ \A q \in Keys : \A v, y : ~Told(q, v, y)'
           /\ LooseOf(Main)' = {}
<1>1. ada_thoughts' = {} /\ fact_slots' = {}
  BY InMain DEF delete_space
<1>2. \A k : Versions(Main, k)' = {}
  BY <1>1 DEF Versions
<1>3. Gapless'
  <2>1. {} = 1 .. 0 /\ 0 \in Nat
    OBVIOUS
  <2> QED
    BY <1>2, <2>1 DEF Gapless
<1> QED
  BY <1>1, <1>3 DEF ChainInv, OneRowEach, LastAnswers, Told, LooseOf

\* The row and the slot row that an amendment leaves.
LEMMA AmendedRow ==
    ASSUME OneSpace, StoreInv, NEW r \in ada_thoughts,
           NEW text \in Texts \cup {Keep}, NEW facts, amend_thought(r, text, facts)
    PROVE  \E new : /\ new.thought.thought_id = r.thought.thought_id
                    /\ new.thought.space_id = Main
                    /\ new.thought.key = r.thought.key
                    /\ new.thought.version = r.thought.version
                    /\ new.thought.content \in Texts
                    /\ \A q : q \in ada_thoughts' <=>
                                 q = new \/ (q \in ada_thoughts /\ q # r)
<1>1. r \in Row /\ r.thought \in Thought /\ r.thought.space_id = Main
  BY InMain
<1>2. PICK t : t = Amended(r.thought, text, facts)
  OBVIOUS
<1>3. /\ t.thought_id = r.thought.thought_id /\ t.space_id = Main
      /\ t.key = r.thought.key /\ t.version = r.thought.version
  BY <1>1, <1>2, AmendedFields
<1>4. t.content \in Texts
  BY <1>1, <1>2 DEF Amended, Thought
<1>5. PICK new : new = [r EXCEPT !.thought = t]
  OBVIOUS
<1>6. new.thought = t
  BY <1>1, <1>5
<1>7. ada_thoughts' = RowsExcept({r.thought.thought_id}) \cup {new}
  BY <1>2, <1>5 DEF amend_thought
<1>8. \A q \in ada_thoughts : q.thought.thought_id = r.thought.thought_id <=> q = r
  BY DEF StoreInv, TablesInv, PrimaryKey
<1>9. \A q : q \in ada_thoughts' <=> q = new \/ (q \in ada_thoughts /\ q # r)
  BY <1>7, <1>8 DEF RowsExcept
<1> QED
  BY <1>3, <1>4, <1>6, <1>9

\* An amendment keeps which versions of which keys are current.
LEMMA AmendedSlots ==
    ASSUME OneSpace, StoreInv, NEW r \in ada_thoughts, NEW text, NEW facts,
           amend_thought(r, text, facts), NEW k, NEW v, k # NoKey
    PROVE  (\E s \in fact_slots' : s.key = k /\ s.version = v /\ s.is_current)
             <=> \E s \in fact_slots : s.key = k /\ s.version = v /\ s.is_current
<1>1. PICK id : id = r.thought.thought_id
  OBVIOUS
<1>2. PICK t : t = Amended(r.thought, text, facts)
  OBVIOUS
<1>3. /\ t.thought_id = id /\ t.key = r.thought.key /\ t.version = r.thought.version
  BY <1>1, <1>2, InMain, AmendedFields
<1>4. fact_slots' = SlotsExcept({id}) \cup slot_rows(t, PlaceInChain(id))
  BY <1>1, <1>2 DEF amend_thought
<1>5. ASSUME NEW s \in fact_slots', s.key = k, s.version = v, s.is_current
      PROVE  \E x \in fact_slots : x.key = k /\ x.version = v /\ x.is_current
  <2>1. CASE s \in SlotsExcept({id})
    BY <1>5, <2>1 DEF SlotsExcept
  <2>2. CASE s \in slot_rows(t, PlaceInChain(id))
    <3>1. r.thought.key = k /\ r.thought.version = v /\ PlaceInChain(id)
      BY <1>3, <1>5, <2>2, SlotRowsFields
    <3>2. PICK x \in fact_slots : x.thought_id = id /\ x.key = k /\ x.version = v
      BY <1>1, <3>1, KeyedRow
    <3> QED
      BY <3>1, <3>2 DEF PlaceInChain
  <2> QED
    BY <1>4, <2>1, <2>2
<1>6. ASSUME NEW x \in fact_slots, x.key = k, x.version = v, x.is_current
      PROVE  \E s \in fact_slots' : s.key = k /\ s.version = v /\ s.is_current
  <2>1. CASE x.thought_id # id
    BY <1>4, <1>6, <2>1 DEF SlotsExcept
  <2>2. CASE x.thought_id = id
    <3>1. PlaceInChain(id) = TRUE
      BY <1>6, <2>2 DEF PlaceInChain, StoreInv, TablesInv, PrimaryKey
    <3>2. t.key = k /\ t.version = v
      BY <1>1, <1>3, <1>6, <2>2, SlotOfRow
    <3>3. PICK s \in slot_rows(t, TRUE) : s.is_current /\ s.key = k /\ s.version = v
      BY <3>2, KeyedSlot
    <3> QED
      BY <1>4, <3>1, <3>3
  <2> QED
    BY <2>1, <2>2
<1> QED
  BY <1>5, <1>6

LEMMA AmendedTold ==
    ASSUME OneSpace, StoreInv, ChainInv, NEW r \in ada_thoughts,
           NEW text \in Texts \cup {Keep}, NEW facts, amend_thought(r, text, facts)
    PROVE  /\ ChainInv' /\ SameAnswers
           /\ \E x \in Texts :
                IF r.thought.key = NoKey
                THEN /\ SameTold
                     /\ LooseOf(Main)' =
                          (LooseOf(Main) \ {<<r.thought.thought_id, r.thought.content>>})
                            \cup {<<r.thought.thought_id, x>>}
                ELSE /\ \A q \in Keys : \A v, y : Told(q, v, y)' <=>
                          IF q = r.thought.key /\ v = r.thought.version
                          THEN y = x ELSE Told(q, v, y)
                     /\ LooseOf(Main)' = LooseOf(Main)
<1>1. PICK new : /\ new.thought.thought_id = r.thought.thought_id
                 /\ new.thought.space_id = Main
                 /\ new.thought.key = r.thought.key
                 /\ new.thought.version = r.thought.version
                 /\ new.thought.content \in Texts
                 /\ \A q : q \in ada_thoughts' <=>
                              q = new \/ (q \in ada_thoughts /\ q # r)
  BY AmendedRow
<1>2. NoKey \notin Keys /\ \A q \in ada_thoughts : q.thought.space_id = Main
  BY KeyAssumption, InMain
<1>3. \A k : Versions(Main, k)' = Versions(Main, k)
  BY <1>1, <1>2 DEF Versions
<1>4. OneRowEach'
  BY <1>1 DEF ChainInv, OneRowEach
<1>5. Gapless'
  BY <1>3 DEF ChainInv, Gapless
<1>6. LastAnswers'
  <2>1. SUFFICES ASSUME NEW s \in fact_slots', s.key # NoKey, s.is_current,
                        NEW v \in Versions(Main, s.key)'
                 PROVE  v <= s.version
    BY DEF LastAnswers
  <2>2. PICK x \in fact_slots : x.key = s.key /\ x.version = s.version /\ x.is_current
    BY <2>1, AmendedSlots
  <2>3. v \in Versions(Main, x.key)
    BY <1>3, <2>1, <2>2
  <2> QED
    BY <2>1, <2>2, <2>3 DEF ChainInv, LastAnswers
<1>7. SameAnswers
  BY <1>2, AmendedSlots DEF SameAnswers, Answered
<1>8. CASE r.thought.key = NoKey
  <2>1. SameTold
    BY <1>1, <1>2, <1>8 DEF SameTold, Told
  <2>2. \A q \in ada_thoughts : q.thought.thought_id = r.thought.thought_id <=> q = r
    BY DEF StoreInv, TablesInv, PrimaryKey
  <2>3. LooseOf(Main)' =
          (LooseOf(Main) \ {<<r.thought.thought_id, r.thought.content>>})
            \cup {<<r.thought.thought_id, new.thought.content>>}
    BY <1>1, <1>2, <1>8, <2>2 DEF LooseOf
  <2> QED
    BY <1>1, <1>4, <1>5, <1>6, <1>7, <1>8, <2>1, <2>3 DEF ChainInv
<1>9. CASE r.thought.key # NoKey
  <2>1. ASSUME NEW q \in Keys, NEW v, NEW y
        PROVE  Told(q, v, y)' <=>
                 IF q = r.thought.key /\ v = r.thought.version
                 THEN y = new.thought.content ELSE Told(q, v, y)
    <3>1. \A p \in ada_thoughts :
             p.thought.key = r.thought.key /\ p.thought.version = r.thought.version
             => p = r
      BY <1>9 DEF ChainInv, OneRowEach
    <3> QED
      BY <1>1, <3>1 DEF Told
  <2>2. LooseOf(Main)' = LooseOf(Main)
    BY <1>1, <1>9 DEF LooseOf
  <2> QED
    BY <1>1, <1>4, <1>5, <1>6, <1>7, <1>9, <2>1, <2>2 DEF ChainInv
<1> QED
  BY <1>8, <1>9

-----------------------------------------------------------------------------
(* The thoughts without a key are numbered, and what a call has read stays  *)
(* true until it uses it, as no other call runs: the content it checked is  *)
(* not stored, the version it read is the last one, the ids it selected are *)
(* those of a key.                                                          *)
Numbered(t) == \E m \in Nat : m < tells /\ t.thought_id = <<NoKey, m, 1>>

LooseNumbered == \A r \in ada_thoughts : r.thought.key = NoKey => Numbered(r.thought)

SaveReady(t) ==
    /\ ~IsDuplicate(Main, t.content) /\ Fresh(t)
    /\ t.key # NoKey => Versions(Main, t.key) = 1 .. (t.version - 1)
    /\ t.key = NoKey => Numbered(t)

Ready(call) ==
    /\ call.pc \in {"check", "version"} => tells < MaxTells
    /\ call.pc = "version" => ~IsDuplicate(Main, call.fact.content)
    /\ call.pc = "save" => SaveReady(call.thought)
    /\ call.pc = "forget" =>
          \E k \in Keys : call.ids = SlotIds({s \in SlotsOf(Main) : s.key = k})

Kept == ChainInv /\ LooseNumbered

PromiseInv ==
    /\ NamesInv(Call)
    /\ Kept
    /\ tells <= MaxTells
    /\ \A c \in Clients : Ready(calls[c])

-----------------------------------------------------------------------------
\* Each transaction keeps the chains and is a step of VersionedMemory.

LEMMA SaveKeeps ==
    ASSUME OneSpace, StoreInv, StoreInv', RowsNamed, Kept, tells \in Nat,
           tells <= MaxTells, NEW t \in Thought, SaveReady(t),
           save_thought(t), UNCHANGED tells
    PROVE  Kept' /\ Promise!Next
<1>1. PICK new : new.thought = t /\ ada_thoughts' = ada_thoughts \cup {new}
  BY SavedRows DEF SaveReady
<1>2. LooseNumbered'
  BY <1>1 DEF Kept, LooseNumbered, SaveReady, Numbered
<1>3. \A r \in ada_thoughts : /\ r.thought.content \notin RepeatedBy(t.content)
                               /\ r.thought.thought_id # t.thought_id
  BY InMain DEF SaveReady, IsDuplicate, Fresh
<1>4. t.content \in Texts /\ t.key \in Keys \cup {NoKey} /\ NoKey \notin Keys
  BY KeyAssumption DEF Thought, MaybeKeys
<1>5. CASE t.key = NoKey
  <2>1. /\ ChainInv' /\ SameTold /\ SameAnswers
        /\ LooseOf(Main)' = LooseOf(Main) \cup {<<t.thought_id, t.content>>}
    BY <1>5, SavedLoose DEF SaveReady, Kept
  <2>2. Promise!Note(t.thought_id, t.content)
    BY <1>3, <1>4, <2>1, Noted DEF Good, Kept
  <2>3. t.thought_id \in {<<NoKey, n, 1>> : n \in 0 .. MaxTells}
    BY <1>5, SqlAssumption DEF SaveReady, Numbered
  <2> QED
    BY <1>2, <1>4, <2>1, <2>2, <2>3 DEF Kept, Promise!Next
<1>6. CASE t.key \in Keys
  <2>1. Versions(Main, t.key) = 1 .. (t.version - 1)
    BY <1>4, <1>6 DEF SaveReady
  <2>2. /\ ChainInv' /\ Answered(t.key)'
        /\ \A q \in Keys \ {t.key} : Answered(q)' <=> Answered(q)
        /\ LooseOf(Main)' = LooseOf(Main)
    BY <1>6, <2>1, SavedVersion DEF SaveReady, Kept
  <2>3. t.version = Len(ChainOf(Main, t.key)) + 1
    <3>1. /\ Len(ChainOf(Main, t.key)) \in Nat
          /\ 1 .. Len(ChainOf(Main, t.key)) = 1 .. (t.version - 1)
      BY <1>6, <2>1, ChainIsSeq DEF Kept
    <3>2. t.version \in Nat /\ t.version >= 1
      BY DEF Thought
    <3> QED
      BY <3>1, <3>2
  <2>4. \A q \in Keys : \A v, y : Told(q, v, y)' <=>
           \/ Told(q, v, y)
           \/ q = t.key /\ v = Len(ChainOf(Main, t.key)) + 1 /\ y = t.content
    BY <2>3, SavedTold DEF SaveReady
  <2>5. Promise!Learn(t.key, t.content)
    BY <1>3, <1>4, <1>6, <2>2, <2>4, Learned DEF Good, Kept
  <2> QED
    BY <1>2, <1>4, <1>6, <2>2, <2>5 DEF Kept, Promise!Next
<1> QED
  BY <1>4, <1>5, <1>6

LEMMA ArchiveKeeps ==
    ASSUME OneSpace, StoreInv, StoreInv', Kept, NEW ids, archive_rows(ids),
           UNCHANGED tells
    PROVE  Kept' /\ Promise!Next
<1>1. /\ ChainInv' /\ SameTold /\ \A q \in Keys : Answered(q)' => Answered(q)
      /\ LooseOf(Main)' = LooseOf(Main)
  BY ArchivedTold DEF Kept
<1>2. \A q \in ada_thoughts' : \E r \in ada_thoughts : q.thought = r.thought
  BY ArchivedRows
<1>3. LooseNumbered'
  BY <1>2 DEF Kept, LooseNumbered, Numbered
<1>4. \E K \in SUBSET Keys : Promise!Retire(K)
  BY <1>1, RetiredKeys DEF Good, Kept
<1> QED
  BY <1>1, <1>3, <1>4 DEF Kept, Promise!Next

LEMMA ForgetKeeps ==
    ASSUME OneSpace, StoreInv, StoreInv', Kept, NEW k \in Keys, UNCHANGED tells,
           delete_rows(SlotIds({s \in SlotsOf(Main) : s.key = k}))
    PROVE  Kept' /\ Promise!Next
<1>1. /\ ChainInv'
      /\ \A q \in Keys : \A v, y : Told(q, v, y)' <=> q \notin {k} /\ Told(q, v, y)
      /\ \A q \in Keys \ {k} : Answered(q)' <=> Answered(q)
      /\ LooseOf(Main)' = LooseOf(Main)
  BY ForgottenKey DEF Kept
<1>2. LooseNumbered'
  BY DEF Kept, LooseNumbered, Numbered, delete_rows, RowsExcept
<1>3. LooseOf(Main)' = {n \in LooseOf(Main) : n[1] \notin {}}
  BY <1>1
<1>4. Promise!Forget({k}, {})
  BY <1>1, <1>3, Forgotten DEF Good, Kept
<1>5. {k} \in SUBSET Keys /\ {} \in SUBSET {<<NoKey, n, 1>> : n \in 0 .. MaxTells}
  OBVIOUS
<1> QED
  BY <1>1, <1>2, <1>4, <1>5 DEF Kept, Promise!Next

LEMMA WipeKeeps ==
    ASSUME OneSpace, StoreInv, StoreInv', Kept, tells <= MaxTells, tells \in Nat,
           delete_space(Main), UNCHANGED tells
    PROVE  Kept' /\ Promise!Next
<1> DEFINE uuids == {<<NoKey, n, 1>> : n \in 0 .. MaxTells}
<1>1. /\ ChainInv' /\ LooseOf(Main)' = {}
      /\ \A q \in Keys : \A v, y : ~Told(q, v, y)'
  BY WipedTold
<1>2. LooseNumbered'
  BY DEF Kept, LooseNumbered, Numbered, delete_space
<1>3. \A n \in LooseOf(Main) : n[1] \in uuids
  <2>1. SUFFICES ASSUME NEW r \in ada_thoughts, r.thought.key = NoKey
                 PROVE  r.thought.thought_id \in uuids
    BY DEF LooseOf
  <2>2. PICK m \in Nat : m < tells /\ r.thought.thought_id = <<NoKey, m, 1>>
    BY <2>1 DEF Kept, LooseNumbered, Numbered
  <2>3. m \in 0 .. MaxTells
    BY <2>2, SqlAssumption
  <2> QED
    BY <2>2, <2>3
<1> HIDE DEF uuids
<1>4. LooseOf(Main)' = {n \in LooseOf(Main) : n[1] \notin uuids}
  BY <1>1, <1>3
<1>5. Promise!Forget(Keys, uuids)
  BY <1>1, <1>4, Forgotten DEF Good, Kept
<1> QED
  BY <1>1, <1>2, <1>5 DEF Kept, Promise!Next, uuids

LEMMA AmendKeeps ==
    ASSUME OneSpace, NoFill \notin Texts, StoreInv, StoreInv', Kept, UNCHANGED tells,
           NEW r \in ada_thoughts, NEW text \in Texts \cup {Keep}, NEW facts,
           amend_thought(r, text, facts)
    PROVE  Kept' /\ Promise!Next
<1>1. PICK x \in Texts :
        IF r.thought.key = NoKey
        THEN /\ SameTold
             /\ LooseOf(Main)' =
                  (LooseOf(Main) \ {<<r.thought.thought_id, r.thought.content>>})
                    \cup {<<r.thought.thought_id, x>>}
        ELSE /\ \A q \in Keys : \A v, y : Told(q, v, y)' <=>
                  IF q = r.thought.key /\ v = r.thought.version
                  THEN y = x ELSE Told(q, v, y)
             /\ LooseOf(Main)' = LooseOf(Main)
  BY AmendedTold DEF Kept
<1>2. ChainInv' /\ SameAnswers
  BY AmendedTold DEF Kept
<1>3. LooseNumbered'
  <2>1. \A q \in ada_thoughts' : \E p \in ada_thoughts :
           p.thought.thought_id = q.thought.thought_id /\ p.thought.key = q.thought.key
    BY AmendedRows
  <2> QED
    BY <2>1 DEF Kept, LooseNumbered, Numbered
<1>4. r.thought.key \in Keys \cup {NoKey} /\ r.thought.space_id = Main
  BY InMain DEF Thought, MaybeKeys
<1>5. CASE r.thought.key = NoKey
  <2>1. PICK n : n = <<r.thought.thought_id, r.thought.content>>
    OBVIOUS
  <2>2. n \in LooseOf(Main)
    BY <1>4, <1>5, <2>1 DEF LooseOf
  <2>3. LooseOf(Main)' = (LooseOf(Main) \ {n}) \cup {<<n[1], x>>}
    BY <1>1, <1>5, <2>1
  <2>4. Promise!CorrectLoose(n, x)
    BY <1>1, <1>2, <1>5, <2>3, CorrectedLoose DEF Good, Kept
  <2> QED
    BY <1>2, <1>3, <2>2, <2>4 DEF Kept, Promise!Next
<1>6. CASE r.thought.key # NoKey
  <2>1. r.thought.key \in Keys /\ r.thought.version \in Versions(Main, r.thought.key)
    BY <1>4, <1>6 DEF Versions
  <2>2. PICK k \in Keys, i \in Versions(Main, r.thought.key) :
           k = r.thought.key /\ i = r.thought.version
    BY <2>1
  <2>3. i \in DOMAIN ChainOf(Main, k) /\ Promise!Correct(k, i, x)
    BY <1>1, <1>2, <1>6, <2>2, Corrected DEF Good, Kept
  <2>4. i \in DOMAIN [q \in Keys |-> ChainOf(Main, q)][k]
    BY <2>3
  <2> QED
    BY <1>2, <1>3, <2>3, <2>4 DEF Kept, Promise!Next
<1> QED
  BY <1>5, <1>6

-----------------------------------------------------------------------------
\* What the calls know stays true.

LEMMA QuietReady ==
    ASSUME NEW call, call.pc \notin {"check", "version", "save", "forget"}
    PROVE  Ready(call)
BY DEF Ready

LEMMA UnchangedKept ==
    ASSUME Kept, UNCHANGED <<tables, tells>>
    PROVE  /\ Kept'
           /\ \A call : Ready(call)' <=> Ready(call)
BY DEF Kept, ChainInv, OneRowEach, Gapless, LastAnswers, LooseNumbered, Numbered,
       Ready, SaveReady, IsDuplicate, Fresh, SlotsOf, Versions, tables

LEMMA OnlyCall ==
    ASSUME NEW c, Clients = {c}, NEW d \in Clients, NEW call,
           calls \in [Clients -> Call], Begin(d, call) \/ Resume(d, call),
           Ready(call)'
    PROVE  (\A e \in Clients : Ready(calls[e]))'
<1>1. d = c /\ calls'[c] = call
  BY DEF Begin, Resume
<1> QED
  BY <1>1

LEMMA BuildReady ==
    ASSUME OneSpace, StoreInv, RowsNamed, Kept, tells \in Nat, clock \in Nat,
           NEW call \in TellCall, call.pc \in {"check", "version"},
           ~IsDuplicate(Main, call.fact.content),
           UNCHANGED tables, tells' = tells + 1,
           NEW version, call.key = NoKey => version = 1,
           call.key # NoKey => version \in Nat /\ Versions(Main, call.key) = 1 .. (version - 1),
           NEW t, t = NewThought(call, version)
    PROVE  SaveReady(t)'
<1>1. /\ t.content = call.fact.content /\ t.key = call.key /\ t.version = version
      /\ t.thought_id = IF call.key = NoKey THEN <<NoKey, tells, 1>>
                        ELSE <<call.key, clock, version>>
  BY DEF NewThought
<1>2. Fresh(t)
  <2>1. SUFFICES ASSUME NEW r \in ada_thoughts, r.thought.thought_id = t.thought_id
                 PROVE  FALSE
    BY DEF Fresh
  <2>2. CASE call.key = NoKey
    <3>1. r.thought.key = NoKey
      BY <1>1, <2>1, <2>2 DEF RowsNamed, Named
    <3>2. PICK m \in Nat : m < tells /\ r.thought.thought_id = <<NoKey, m, 1>>
      BY <3>1 DEF Kept, LooseNumbered, Numbered
    <3> QED
      BY <1>1, <2>1, <2>2, <3>2
  <2>3. CASE call.key # NoKey
    <3>1. r.thought.key = call.key /\ r.thought.version = version
      BY <1>1, <2>1, <2>3 DEF RowsNamed, Named
    <3>2. version \in Versions(Main, call.key)
      BY <3>1, InMain DEF Versions
    <3> QED
      BY <2>3, <3>2
  <2> QED
    BY <2>2, <2>3
<1>3. t.key = NoKey => Numbered(t)'
  BY <1>1 DEF Numbered
<1> QED
  BY <1>1, <1>2, <1>3 DEF SaveReady, IsDuplicate, Fresh, Versions, tables

LEMMA LastVersionIs ==
    ASSUME NEW sp, NEW k, NEW n \in Nat, Versions(sp, k) = 1 .. n
    PROVE  LastVersion(sp, k) = n
<1>1. {0} \cup Versions(sp, k) = 0 .. n
  OBVIOUS
<1>2. Max(0 .. n) = n
  BY DEF Max
<1> QED
  BY <1>1, <1>2 DEF LastVersion

-----------------------------------------------------------------------------
\* Every step of the store is a step of VersionedMemory, or leaves it alone.

NoSingleForget == Handlers \cap {"forget_id", "forget_entity"} = {}

LEMMA StepKeeps ==
    ASSUME OneSpace, NoSingleForget, NoFill \notin Texts, NEW c, Clients = {c},
           PromiseInv, [Next]_vars
    PROVE  PromiseInv' /\ [Promise!Next]_(Promise!memory)
<1> DEFINE Known == \A d \in Clients : Ready(calls[d])
           Step == Promise!Next \/ UNCHANGED Promise!memory
           Goal == Kept' /\ Known' /\ (tells <= MaxTells)' /\ Step
<1>1. /\ NamesInv(Call)' /\ StoreInv /\ StoreInv' /\ RowsNamed
      /\ calls \in [Clients -> Call] /\ tells \in Nat /\ clock \in Nat
      /\ Kept /\ tells <= MaxTells /\ Known
      /\ \A d \in Clients : CallNamed(calls[d])
  BY SqlCalls, SqlNames DEF PromiseInv, NamesInv, InvWith
<1>2. SUFFICES Goal
  BY <1>1 DEF PromiseInv
<1>3. Good
  BY <1>1 DEF Good, Kept
<1>4. ASSUME NEW d \in Clients, NEW call, Begin(d, call) \/ Resume(d, call),
             Ready(call), UNCHANGED <<tables, tells>>
      PROVE  Goal
  BY <1>1, <1>3, <1>4, UnchangedKept, OnlyCall, Unseen
<1>5. ASSUME NEW d \in Clients, NEW call, Begin(d, call) \/ Resume(d, call),
             call.pc \notin {"check", "version", "save", "forget"}
      PROVE  Known'
  <2>1. Ready(call)'
    BY <1>5 DEF Ready
  <2> QED
    BY <1>1, <1>5, <2>1, OnlyCall
<1>6. ASSUME NEW d \in Clients, Resume(d, Idle), UNCHANGED <<tables, tells>> PROVE Goal
  BY <1>4, <1>6, QuietReady DEF Idle
<1>7. ASSUME NEW d \in Clients, Resume(d, Idle) PROVE Known'
  BY <1>5, <1>7 DEF Idle
<1>8. ASSUME NEW d \in Clients, NEW sp, Begin(d, Reload(sp)) \/ Resume(d, Reload(sp))
      PROVE  Known'
  BY <1>5, <1>8 DEF Reload
<1>9. ASSUME NEW d \in Clients, NEW version, Build(d, version), UNCHANGED tables,
             tells < MaxTells,
             NEW t, t = NewThought(calls[d], version), SaveReady(t)'
      PROVE  Goal
  <2>1. PICK call : call = Saving(t)
    OBVIOUS
  <2>2. Resume(d, call) /\ tells' = tells + 1
    BY <1>9, <2>1 DEF Build
  <2>3. Known'
    <3>1. call.pc = "save" /\ call.thought = t
      BY <2>1 DEF Saving
    <3>2. Ready(call)'
      BY <1>9, <3>1 DEF Ready
    <3> QED
      BY <1>1, <2>2, <3>2, OnlyCall
  <2>4. Kept'
    BY <1>1, <1>9, <2>2 DEF Kept, ChainInv, OneRowEach, Gapless, LastAnswers,
                            LooseNumbered, Numbered, Versions, tables
  <2>5. UNCHANGED Promise!memory
    BY <1>3, <1>9, Unseen
  <2> QED
    BY <1>1, <1>9, <2>2, <2>3, <2>4, <2>5, SqlAssumption
<1>10. ASSUME NEW d \in Clients, Tell(d) PROVE Goal
  <2>1. ASSUME NEW sp \in Spaces, NEW f \in Facts, NEW k \in MaybeKeys,
               TellStart(d, sp, f, k)
        PROVE  Goal
    <3>1. Undecided = {}
      BY <2>1 DEF TellStart, Begin, Undecided, Idle
    <3>2. tells < MaxTells
      BY <1>1, <2>1, <3>1, FS_EmptySet DEF TellStart
    <3>3. PICK call : call = [pc |-> "check", space |-> sp, fact |-> f, key |-> k]
      OBVIOUS
    <3>4. Ready(call)
      BY <3>2, <3>3 DEF Ready
    <3> QED
      BY <1>4, <2>1, <3>3, <3>4 DEF TellStart
  <2>2. CASE CheckDuplicate(d)
    <3>1. calls[d] \in TellCall /\ calls[d].pc = "check" /\ tells < MaxTells
      BY <1>1, <2>2, SqlCalls DEF CheckDuplicate, HasSqlCalls, Ready
    <3>2. calls[d].space = Main
      BY <3>1, TellFields DEF OneSpace
    <3>3. CASE Resume(d, Idle) /\ UNCHANGED tells
      BY <1>6, <2>2, <3>3 DEF CheckDuplicate
    <3>4. CASE /\ ~IsDuplicate(calls[d].space, calls[d].fact.content)
               /\ calls[d].key = NoKey /\ Build(d, 1)
      <4>1. PICK t : t = NewThought(calls[d], 1)
        OBVIOUS
      <4>2. SaveReady(t)'
        BY <1>1, <2>2, <3>1, <3>2, <3>4, <4>1, BuildReady DEF CheckDuplicate, Build
      <4> QED
        BY <1>9, <2>2, <3>1, <3>4, <4>1, <4>2 DEF CheckDuplicate
    <3>5. CASE /\ ~IsDuplicate(calls[d].space, calls[d].fact.content)
               /\ Resume(d, [calls[d] EXCEPT !.pc = "version"]) /\ UNCHANGED tells
      <4>1. PICK call : call = [calls[d] EXCEPT !.pc = "version"]
        OBVIOUS
      <4>2. call.pc = "version" /\ call.fact = calls[d].fact
        BY <3>1, <4>1 DEF TellCall
      <4>3. Ready(call)
        BY <3>1, <3>2, <3>5, <4>2 DEF Ready
      <4> QED
        BY <1>4, <2>2, <3>5, <4>1, <4>3 DEF CheckDuplicate
    <3> QED
      BY <2>2, <3>3, <3>4, <3>5 DEF CheckDuplicate
  <2>3. CASE ReadVersion(d)
    <3>1. calls[d] \in TellCall /\ calls[d].pc = "version" /\ tells < MaxTells
      BY <1>1, <2>3, SqlCalls DEF ReadVersion, HasSqlCalls, Ready
    <3>2. /\ calls[d].space = Main /\ calls[d].key \in Keys
          /\ ~IsDuplicate(Main, calls[d].fact.content)
      BY <1>1, <3>1, TellFields DEF OneSpace, CallNamed, MaybeKeys, Ready
    <3>3. PICK n \in Nat : Versions(Main, calls[d].key) = 1 .. n
      BY <1>1, <3>2 DEF Kept, ChainInv, Gapless
    <3>4. LastVersion(calls[d].space, calls[d].key) = n
      BY <3>2, <3>3, LastVersionIs
    <3>5. PICK version : version = n + 1
      OBVIOUS
    <3>6. Build(d, version) /\ UNCHANGED tables
      BY <2>3, <3>4, <3>5 DEF ReadVersion
    <3>7. /\ calls[d].key # NoKey
          /\ version \in Nat /\ Versions(Main, calls[d].key) = 1 .. (version - 1)
      BY <3>2, <3>3, <3>5, KeyAssumption
    <3>8. PICK t : t = NewThought(calls[d], version)
      OBVIOUS
    <3>9. SaveReady(t)'
      BY <1>1, <3>1, <3>2, <3>6, <3>7, <3>8, BuildReady DEF Build
    <3> QED
      BY <1>9, <3>1, <3>6, <3>8, <3>9
  <2>4. CASE Save(d)
    <3>1. calls[d].thought \in Thought /\ SaveReady(calls[d].thought)
      BY <1>1, <2>4, SqlCalls, TellFields DEF Save, HasSqlCalls, Ready
    <3>2. Kept' /\ Promise!Next
      BY <1>1, <2>4, <3>1, SaveKeeps DEF Save
    <3> QED
      BY <1>1, <1>7, <2>4, <3>2 DEF Save
  <2>5. CASE TellFails(d)
    BY <1>6, <2>5 DEF TellFails
  <2> QED
    BY <1>10, <2>1, <2>2, <2>3, <2>4, <2>5 DEF Tell
<1>11. ASSUME NEW d \in Clients, Maintain(d), UNCHANGED tells PROVE Goal
  <2>1. CASE ArchiveCommit(d)
    <3>1. Kept' /\ Promise!Next
      BY <1>1, <1>11, <2>1, ArchiveKeeps DEF ArchiveCommit
    <3> QED
      BY <1>1, <1>8, <1>11, <2>1, <3>1 DEF ArchiveCommit
  <2>2. CASE ForgetCommit(d)
    <3>1. PICK k \in Keys : calls[d].ids = SlotIds({s \in SlotsOf(Main) : s.key = k})
      BY <1>1, <2>2 DEF ForgetCommit, Ready
    <3>2. Kept' /\ Promise!Next
      BY <1>1, <1>11, <2>2, <3>1, ForgetKeeps DEF ForgetCommit
    <3> QED
      BY <1>1, <1>8, <1>11, <2>2, <3>2 DEF ForgetCommit
  <2>3. CASE AmendCommit(d)
    <3>1. calls[d] \in MaintenanceCall /\ calls[d].pc = "amend"
      BY <1>1, <2>3, SqlCalls DEF AmendCommit, HasSqlCalls, HasMaintenance, MaintenancePc
    <3>2. CASE Resume(d, Idle) /\ UNCHANGED tables
      BY <1>6, <1>11, <3>2
    <3>3. ASSUME NEW r \in ada_thoughts,
                 amend_thought(r, calls[d].change.text, calls[d].change.facts),
                 Resume(d, Reload(calls[d].space))
          PROVE  Goal
      <4>1. calls[d].change.text \in Texts \cup {Keep}
        BY <3>1, AmendCall
      <4>2. Kept' /\ Promise!Next
        BY <1>1, <1>11, <3>3, <4>1, AmendKeeps
      <4> QED
        BY <1>1, <1>8, <1>11, <3>3, <4>2
    <3> QED
      BY <2>3, <3>2, <3>3 DEF AmendCommit
  <2>4. ASSUME NEW sp \in Spaces, ForgetAll(d, sp) PROVE Goal
    <3>1. sp = Main
      BY <2>4 DEF OneSpace
    <3>2. Kept' /\ Promise!Next
      BY <1>1, <1>11, <2>4, <3>1, WipeKeeps DEF ForgetAll
    <3> QED
      BY <1>1, <1>8, <1>11, <2>4, <3>2 DEF ForgetAll
  <2>5. ASSUME NEW sp \in Spaces, NEW k \in Keys, ForgetByKey(d, sp, k) PROVE Goal
    <3>1. sp = Main /\ LowerKey[k] \in Keys
      BY <2>5, CallAssumption DEF OneSpace
    <3>2. PICK call : call = [pc |-> "forget", space |-> sp,
                              ids |-> SlotIds({s \in SlotsOf(sp) : s.key = LowerKey[k]})]
      OBVIOUS
    <3>3. Ready(call)
      BY <3>1, <3>2 DEF Ready
    <3> QED
      BY <1>4, <1>11, <2>5, <3>2, <3>3 DEF ForgetByKey, ForgetSelect
  <2> QED
    BY <1>11, <2>1, <2>2, <2>3, <2>4, <2>5
       DEF Maintain, ForgetById, ForgetByEntity, NoSingleForget
<1>12. ASSUME NEW d \in Clients, SqlMaintain(d) PROVE Goal
  <2>1. CASE MaintenanceFails(d)
    BY <1>6, <1>12, <2>1 DEF MaintenanceFails, SqlMaintain
  <2>2. ASSUME NEW sp \in Spaces, NEW names, ArchiveSelect(d, sp, names), UNCHANGED tells
        PROVE  Goal
    <3>1. PICK call : call.pc = "archive" /\ Begin(d, call) /\ UNCHANGED tables
      BY <2>2 DEF ArchiveSelect
    <3> QED
      BY <1>4, <2>2, <3>1, QuietReady
  <2>3. ASSUME NEW sp \in Spaces, NEW id, NEW change, AmendStart(d, sp, id, change),
               UNCHANGED tells
        PROVE  Goal
    <3>1. PICK call : call.pc = "amend" /\ Begin(d, call) /\ UNCHANGED tables
      BY <2>3 DEF AmendStart
    <3> QED
      BY <1>4, <2>3, <3>1, QuietReady
  <2> QED
    BY <1>11, <1>12, <2>1, <2>2, <2>3 DEF SqlMaintain
<1>13. ASSUME NEW d \in Clients, Reloaded(d) PROVE Goal
  BY <1>6, <1>13 DEF Reloaded
<1>14. CASE Tick \/ UNCHANGED vars
  <2>1. UNCHANGED <<tables, tells>> /\ UNCHANGED calls
    BY <1>14 DEF Tick, vars, tables
  <2> QED
    BY <1>1, <1>3, <2>1, UnchangedKept, Unseen
<1>15. CASE Restart
  <2>1. UNCHANGED <<tables, tells>> /\ calls' = [d \in Clients |-> Idle]
    BY <1>15 DEF Restart
  <2>2. Ready(Idle)
    BY QuietReady DEF Idle
  <2> QED
    BY <1>1, <1>3, <2>1, <2>2, UnchangedKept, Unseen
<1> QED
  BY <1>10, <1>12, <1>13, <1>14, <1>15 DEF Next

LEMMA InitKeeps ==
    ASSUME Init
    PROVE  PromiseInv /\ Promise!Init
<1>1. NamesInv(Call)
  BY SqlCalls, InitBelief DEF NewestInv
<1>2. ada_thoughts = {} /\ fact_slots = {} /\ tells = 0
  BY DEF Init
<1>3. \A k : Versions(Main, k) = {} /\ CurrentVersions(Main, k) = {}
  BY <1>2 DEF Versions, CurrentVersions
<1>4. Kept
  <2>1. {} = 1 .. 0 /\ 0 \in Nat
    OBVIOUS
  <2> QED
    BY <1>2, <1>3, <2>1 DEF Kept, ChainInv, OneRowEach, Gapless, LastAnswers,
                            LooseNumbered
<1>5. \A c \in Clients : Ready(calls[c])
  BY QuietReady DEF Init, Idle
<1>6. \A k : ChainOf(Main, k) = << >>
  BY <1>3 DEF ChainOf
<1>7. \A k : BeliefOf(Main, k) = NoFill
  BY <1>3 DEF BeliefOf
<1>8. LooseOf(Main) = {}
  BY <1>2 DEF LooseOf
<1> QED
  BY <1>1, <1>2, <1>4, <1>5, <1>6, <1>7, <1>8, SqlAssumption
     DEF PromiseInv, Promise!Init

(* A client that waits for each reply, alone on its space, gets the         *)
(* versioned memory of VersionedMemory from the tables, whatever fails and  *)
(* restarts in between.  It does not forget single versions by id or by     *)
(* entity: that leaves a gap in a chain.                                    *)
THEOREM StoreKeepsPromise ==
    ASSUME OneSpace, NoSingleForget, NoFill \notin Texts, NEW c, Clients = {c}
    PROVE  Spec => KeepsPromise
<1>1. Init => PromiseInv /\ Promise!Init
  BY InitKeeps
<1>2. PromiseInv /\ [Next]_vars => PromiseInv' /\ [Promise!Next]_(Promise!memory)
  BY StepKeeps
<1> QED
  BY <1>1, <1>2, PTL DEF Spec, KeepsPromise, Promise!Spec
=============================================================================
