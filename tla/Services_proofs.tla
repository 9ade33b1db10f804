--------------------------- MODULE Services_proofs ---------------------------
(***************************************************************************)
(* The components that stand beside the fact tables, each on its own and   *)
(* for all values of its constants: the circuit breaker, the vault, the    *)
(* enrichers, the chat pipeline, the conversation and the read surface.    *)
(***************************************************************************)
EXTENDS Breaker, Vault, Enricher, Chat, Conversation, Reads,
        FiniteSetTheorems, WellFoundedInduction, TLAPS

-----------------------------------------------------------------------------
(* The circuit breaker.  The counters it keeps never run ahead of the       *)
(* results recorded in a row, however many callers report, and how late.    *)

States == {"closed", "open", "half_open"}

CountersTypeOK ==
    /\ state \in States
    /\ failure_count \in Nat /\ success_count \in Nat
    /\ failed \in Nat /\ worked \in Nat

\* While closed, every failure counted is one of the last results.
FailuresInARow == state = "closed" => failure_count <= failed

\* While half-open, so is every success counted, and there are not enough.
SuccessesInARow ==
    state = "half_open" => success_count <= worked /\ success_count < success_threshold

CountersInv == CountersTypeOK /\ FailuresInARow /\ SuccessesInARow

Opens == state = "closed" /\ state' = "open" => failed' >= failure_threshold
Closed ==
    state # "closed" /\ state' = "closed" => worked' >= success_threshold \/ age' = None

(* A new breaker has counted nothing.                                       *)
LEMMA InitCounters == BreakerInit => CountersInv
BY BreakerAssumption
   DEF BreakerInit, CountersInv, CountersTypeOK, FailuresInARow, SuccessesInARow, States

(* Reading the state may begin a trial, with no success counted yet.        *)
LEMMA ReadKeepsCounters ==
    ASSUME CountersInv,
           state' = StateRead, success_count' = SuccessesRead,
           UNCHANGED <<failure_count, failed, worked>>
    PROVE  CountersInv' /\ Opens /\ Closed
<1>1. CASE Recovered
  BY <1>1, BreakerAssumption
     DEF CountersInv, CountersTypeOK, FailuresInARow, SuccessesInARow, States,
         StateRead, SuccessesRead, Opens, Closed
<1>2. CASE ~Recovered
  BY <1>2
     DEF CountersInv, CountersTypeOK, FailuresInARow, SuccessesInARow, States,
         StateRead, SuccessesRead, Opens, Closed
<1> QED BY <1>1, <1>2

(* A success that closes the breaker is the last of enough in a row; any    *)
(* other is counted on both sides.                                          *)
LEMMA SuccessKeepsCounters ==
    ASSUME CountersInv, NEW c \in Wrapped, RecordSuccess(c)
    PROVE  CountersInv' /\ Opens /\ Closed
<1> USE DEF CountersInv, CountersTypeOK, States
<1>1. /\ worked' \in Nat
      /\ worked + 1 >= success_threshold => worked' = success_threshold
      /\ worked + 1 < success_threshold => worked' = worked + 1
      /\ failed' = 0
  BY BreakerAssumption DEF RecordSuccess, UpTo
<1>2. /\ failure_count' = FailuresAfterSuccess
      /\ success_count' = IF state = "half_open" THEN success_count + 1 ELSE success_count
      /\ state' = IF Closes THEN "closed" ELSE state
  BY DEF RecordSuccess
<1>3. failure_count' \in Nat /\ success_count' \in Nat /\ state' \in States
  BY <1>2 DEF FailuresAfterSuccess
<1>4. CASE Closes
  <2>1. state = "half_open" /\ success_count + 1 >= success_threshold
    BY <1>4 DEF Closes
  <2>2. state' = "closed" /\ failure_count' = 0
    BY <1>2, <1>4 DEF FailuresAfterSuccess
  <2>3. worked' >= success_threshold
    BY <1>1, <2>1, BreakerAssumption DEF SuccessesInARow
  <2> QED
    BY <1>1, <1>3, <2>1, <2>2, <2>3 DEF FailuresInARow, SuccessesInARow, Opens, Closed
<1>5. CASE ~Closes
  <2>1. state' = state
    BY <1>2, <1>5
  <2>2. FailuresInARow'
    BY <1>1, <1>2, <1>5, <2>1 DEF FailuresInARow, FailuresAfterSuccess
  <2>3. SuccessesInARow'
    <3> SUFFICES ASSUME state = "half_open"
                 PROVE  success_count' <= worked' /\ success_count' < success_threshold
      BY <2>1 DEF SuccessesInARow
    <3>1. success_count' = success_count + 1 /\ success_count + 1 < success_threshold
      BY <1>2, <1>5, BreakerAssumption DEF Closes
    <3> QED
      BY <1>1, <3>1, BreakerAssumption DEF SuccessesInARow
  <2> QED
    BY <1>1, <1>3, <2>1, <2>2, <2>3 DEF Opens, Closed
<1> QED BY <1>4, <1>5

(* A failure that opens a closed breaker is the last of enough in a row.    *)
LEMMA FailureKeepsCounters ==
    ASSUME CountersInv, NEW c \in Wrapped, RecordFailure(c)
    PROVE  CountersInv' /\ Opens /\ Closed
<1> USE DEF CountersInv, CountersTypeOK, States
<1>1. /\ failed' \in Nat /\ failure_count' \in Nat
      /\ failed + 1 >= failure_threshold => failed' = failure_threshold
      /\ failed + 1 < failure_threshold => failed' = failed + 1
      /\ failure_count + 1 >= failure_threshold => failure_count' = failure_threshold
      /\ failure_count + 1 < failure_threshold => failure_count' = failure_count + 1
  BY BreakerAssumption DEF RecordFailure, UpTo
<1>2. /\ worked' = 0 /\ success_count' = success_count
      /\ state' = IF \/ state = "half_open"
                     \/ state = "closed" /\ failure_count + 1 >= failure_threshold
                  THEN "open" ELSE state
  BY DEF RecordFailure
<1>3. CASE state = "closed"
  <2>1. failure_count <= failed
    BY <1>3 DEF FailuresInARow
  <2>2. CASE failure_count + 1 >= failure_threshold
    <3>1. state' = "open" /\ failed' = failure_threshold
      BY <1>1, <1>2, <1>3, <2>1, <2>2, BreakerAssumption
    <3> QED
      BY <1>1, <1>2, <3>1, BreakerAssumption
         DEF FailuresInARow, SuccessesInARow, Opens, Closed
  <2>3. CASE ~(failure_count + 1 >= failure_threshold)
    <3>1. state' = "closed" /\ failure_count' <= failed'
      BY <1>1, <1>2, <1>3, <2>1, <2>3, BreakerAssumption
    <3> QED
      BY <1>1, <1>2, <1>3, <3>1 DEF FailuresInARow, SuccessesInARow, Opens, Closed
  <2> QED BY <2>2, <2>3
<1>4. CASE state # "closed"
  <2>1. state' = "open"
    BY <1>2, <1>4
  <2> QED
    BY <1>1, <1>2, <1>4, <2>1 DEF FailuresInARow, SuccessesInARow, Opens, Closed
<1> QED BY <1>3, <1>4

(* Every step keeps the counters honest and respects both thresholds.       *)
LEMMA StepKeepsCounters ==
    ASSUME CountersInv, [BreakerNext]_breakerVars
    PROVE  CountersInv' /\ Opens /\ Closed
<1>1. CASE UNCHANGED <<state, failure_count, success_count, failed, worked>>
  BY <1>1
     DEF CountersInv, CountersTypeOK, FailuresInARow, SuccessesInARow, Opens, Closed
<1>2. CASE Reset
  BY <1>2, BreakerAssumption
     DEF Reset, CountersInv, CountersTypeOK, FailuresInARow, SuccessesInARow, States,
         Opens, Closed
<1>3. CASE GetStats
  BY <1>3, ReadKeepsCounters DEF GetStats
<1>4. CASE \E c \in Wrapped : AllowRequest(c)
  BY <1>4, ReadKeepsCounters DEF AllowRequest
<1>5. CASE \E c \in Wrapped : RecordSuccess(c)
  BY <1>5, SuccessKeepsCounters
<1>6. CASE \E c \in Wrapped : RecordFailure(c)
  BY <1>6, FailureKeepsCounters
<1>7. CASE \E c \in Wrapped : StartCall(c) \/ WakeUp(c) \/ RejectRequest(c)
  BY <1>1, <1>7 DEF StartCall, WakeUp, RejectRequest
<1>8. CASE BreakerTick
  BY <1>1, <1>8 DEF BreakerTick
<1>9. CASE UNCHANGED breakerVars
  BY <1>1, <1>9 DEF breakerVars
<1> QED
  BY <1>2, <1>3, <1>4, <1>5, <1>6, <1>7, <1>8, <1>9 DEF BreakerNext

-----------------------------------------------------------------------------
(* The counters of the breaker never run ahead of what was recorded.        *)
THEOREM CountersHonest == BreakerSpec => []CountersInv
<1>1. BreakerInit => CountersInv
  BY InitCounters
<1>2. CountersInv /\ [BreakerNext]_breakerVars => CountersInv'
  BY StepKeepsCounters
<1> QED BY <1>1, <1>2, PTL DEF BreakerSpec

(* CLOSED -> OPEN takes failure_threshold failures in a row, however late   *)
(* and in whatever state the callers report.                                *)
THEOREM FailureThresholdHolds == BreakerSpec => OpensAfterARow
<1>1. CountersInv /\ [BreakerNext]_breakerVars => [Opens]_breakerVars
  BY StepKeepsCounters
<1>2. OpensAfterARow <=> [][Opens]_breakerVars
  BY DEF OpensAfterARow, Opens
<1> QED BY <1>1, <1>2, CountersHonest, PTL DEF BreakerSpec

(* HALF_OPEN -> CLOSED takes success_threshold successes in a row, none of  *)
(* them from an earlier trial, unless the breaker is reset.                 *)
THEOREM SuccessThresholdHolds == BreakerSpec => ClosesAfterARow
<1>1. CountersInv /\ [BreakerNext]_breakerVars => [Closed]_breakerVars
  BY StepKeepsCounters
<1>2. ClosesAfterARow <=> [][Closed]_breakerVars
  BY DEF ClosesAfterARow, Closed
<1> QED BY <1>1, <1>2, CountersHonest, PTL DEF BreakerSpec

-----------------------------------------------------------------------------
(* The vault.  While nothing has gone wrong at most one command is at work, *)
(* and what it holds in memory is what was promised, but for the secret it  *)
(* is about to save.                                                        *)

Dictionary == [SecretNames -> SecretValues \cup {Nothing}]

Command ==
    {Off} \cup [doing : {"ready"}, data : Dictionary]
          \cup [doing : {"saving"}, data : Dictionary, name : SecretNames]

VaultFile == [kind : {"missing", "unreadable"}] \cup [kind : {"readable"}, data : Dictionary]

VaultTypes ==
    /\ file \in VaultFile
    /\ procs \in [Processes -> Command]
    /\ promised \in Dictionary

Alone == \A p, q \in Processes : procs[p] # Off /\ procs[q] # Off => p = q

\* What each command knows, and what is in the file when nobody writes it.
Faithful ==
    /\ \A p \in Processes :
          /\ procs[p].doing = "ready" => procs[p].data = promised
          /\ procs[p].doing = "saving" =>
                LET d == procs[p] IN d.data = [promised EXCEPT ![d.name] = d.data[d.name]]
    /\ (\A p \in Processes : procs[p].doing # "saving") => Loaded = promised

VaultInv == VaultTypes /\ (~mishap => Alone /\ Faithful)

LEMMA CommandsTyped ==
    ASSUME VaultTypes, NEW p \in Processes
    PROVE  /\ procs[p] \in Command
           /\ procs[p] = Off <=> procs[p].doing = "off"
           /\ procs[p].doing \in {"off", "ready", "saving"}
           /\ procs[p].doing # "off" => procs[p].data \in Dictionary
           /\ procs[p].doing = "saving" => procs[p].name \in SecretNames
<1>1. procs[p] \in Command
  BY DEF VaultTypes
<1> QED
  BY <1>1 DEF Command, Off

LEMMA LoadedTyped ==
    ASSUME VaultTypes
    PROVE  Loaded \in Dictionary
BY DEF VaultTypes, VaultFile, Loaded, Readable, Empty, Dictionary

LEMMA GetVaultKeeps ==
    ASSUME VaultInv, NEW p \in Processes, GetVault(p)
    PROVE  VaultInv'
<1>1. PICK fresh : fresh = [doing |-> "ready", data |-> Loaded]
  OBVIOUS
<1>2. fresh \in Command /\ fresh.doing = "ready" /\ fresh.data = Loaded /\ fresh # Off
  BY <1>1, LoadedTyped DEF VaultInv, Command, Off
<1>3. /\ procs[p] = Off /\ procs' = [procs EXCEPT ![p] = fresh]
      /\ UNCHANGED <<file, promised>>
  BY <1>1 DEF GetVault
<1>4. VaultTypes'
  BY <1>2, <1>3 DEF VaultInv, VaultTypes
<1>5. ASSUME ~mishap' PROVE Alone' /\ Faithful'
  <2>1. ~mishap /\ \A q \in Processes : procs[q] = Off
    BY <1>5 DEF GetVault
  <2>2. \A q \in Processes : procs[q].doing = "off"
    BY <2>1, CommandsTyped DEF VaultInv
  <2>3. Loaded = promised
    BY <2>1, <2>2 DEF VaultInv, Faithful
  <2>4. Loaded' = promised'
    BY <1>3, <2>3 DEF Loaded, Readable, Empty
  <2>5. \A q \in Processes : procs'[q] = IF q = p THEN fresh ELSE procs[q]
    BY <1>3 DEF VaultInv, VaultTypes
  <2> QED
    BY <1>2, <1>3, <2>1, <2>2, <2>3, <2>4, <2>5 DEF Alone, Faithful
<1> QED
  BY <1>4, <1>5 DEF VaultInv

LEMMA BeginSaveKeeps ==
    ASSUME VaultInv, NEW p \in Processes, NEW n \in SecretNames,
           NEW v \in SecretValues \cup {Nothing}, BeginSave(p, n, v)
    PROVE  VaultInv'
<1>1. PICK busy : busy = [doing |-> "saving", data |-> [procs[p].data EXCEPT ![n] = v],
                          name |-> n]
  OBVIOUS
<1>2. /\ procs[p].doing = "ready" /\ procs' = [procs EXCEPT ![p] = busy]
      /\ file' = [kind |-> "unreadable"] /\ UNCHANGED <<promised, mishap>>
  BY <1>1 DEF BeginSave, Changed, VaultInv, VaultTypes
<1>3. procs[p].data \in Dictionary
  BY <1>2, CommandsTyped DEF VaultInv
<1>4. /\ busy \in Command /\ busy.doing = "saving" /\ busy.name = n
      /\ busy.data = [procs[p].data EXCEPT ![n] = v] /\ busy.data[n] = v
  BY <1>1, <1>3 DEF Command, Dictionary
<1>5. VaultTypes'
  BY <1>2, <1>4 DEF VaultInv, VaultTypes, VaultFile
<1>6. \A q \in Processes : procs'[q] = IF q = p THEN busy ELSE procs[q]
  BY <1>2 DEF VaultInv, VaultTypes
<1>7. ASSUME ~mishap' PROVE Alone' /\ Faithful'
  <2>1. procs[p] # Off /\ Alone /\ Faithful
    BY <1>2, <1>7, CommandsTyped DEF VaultInv
  <2>2. \A q \in Processes : q # p => procs'[q].doing = "off" /\ procs'[q] = Off
    BY <1>5, <1>6, <2>1, CommandsTyped DEF Alone, VaultInv
  <2>3. busy.data = [promised EXCEPT ![busy.name] = busy.data[busy.name]]
    BY <1>2, <1>4, <2>1 DEF Faithful
  <2>4. Alone'
    BY <1>6, <2>2 DEF Alone
  <2> QED
    BY <1>2, <1>4, <1>6, <2>2, <2>3, <2>4 DEF Faithful
<1> QED
  BY <1>5, <1>7 DEF VaultInv

LEMMA FinishSaveKeeps ==
    ASSUME VaultInv, NEW p \in Processes, FinishSave(p)
    PROVE  VaultInv'
<1> DEFINE d == procs[p]
<1>1. PICK done : done = [doing |-> "ready", data |-> d.data]
  OBVIOUS
<1>2. /\ d.doing = "saving" /\ procs' = [procs EXCEPT ![p] = done]
      /\ file' = [kind |-> "readable", data |-> d.data] /\ UNCHANGED mishap
      /\ promised' = [promised EXCEPT ![d.name] = d.data[d.name]]
  BY <1>1 DEF FinishSave
<1>3. d.data \in Dictionary /\ d.name \in SecretNames
  BY <1>2, CommandsTyped DEF VaultInv
<1>4. done \in Command /\ done.doing = "ready" /\ done.data = d.data
  BY <1>1, <1>3 DEF Command
<1>5. file' \in VaultFile /\ promised' \in Dictionary
  BY <1>2, <1>3 DEF VaultFile, VaultInv, VaultTypes, Dictionary
<1>6. VaultTypes'
  BY <1>2, <1>4, <1>5 DEF VaultInv, VaultTypes
<1>7. \A q \in Processes : procs'[q] = IF q = p THEN done ELSE procs[q]
  BY <1>2 DEF VaultInv, VaultTypes
<1>8. ASSUME ~mishap' PROVE Alone' /\ Faithful'
  <2>1. procs[p] # Off /\ Alone /\ Faithful
    BY <1>2, <1>8, CommandsTyped DEF VaultInv
  <2>2. \A q \in Processes : q # p => procs'[q].doing = "off" /\ procs'[q] = Off
    BY <1>7, <2>1, CommandsTyped DEF Alone, VaultInv
  <2>3. d.data = promised'
    BY <1>2, <2>1 DEF Faithful
  <2>4. Loaded' = promised'
    BY <1>2, <2>3 DEF Loaded, Readable
  <2> QED
    BY <1>4, <1>7, <2>2, <2>3, <2>4 DEF Alone, Faithful
<1> QED
  BY <1>6, <1>8 DEF VaultInv

LEMMA VaultStep ==
    ASSUME VaultInv, [VaultNext]_vaultVars
    PROVE  VaultInv'
<1>1. ASSUME NEW p \in Processes, Exit(p) PROVE VaultInv'
  <2>1. VaultTypes'
    BY <1>1 DEF Exit, VaultInv, VaultTypes, Command
  <2>2. \A q \in Processes : procs'[q] = IF q = p THEN Off ELSE procs[q]
    BY <1>1 DEF Exit, VaultInv, VaultTypes
  <2>3. ASSUME ~mishap' PROVE Alone' /\ Faithful'
    <3>1. /\ procs[p].doing = "ready" /\ Alone /\ Faithful /\ UNCHANGED <<file, promised>>
      BY <1>1, <2>3, CommandsTyped DEF Exit, VaultInv
    <3>2. \A q \in Processes : procs[q].doing # "saving"
      BY <1>1, <3>1, CommandsTyped DEF Exit, Alone, VaultInv
    <3>3. Loaded' = promised'
      BY <3>1, <3>2 DEF Faithful, Loaded, Readable, Empty
    <3>4. Off.doing = "off"
      BY DEF Off
    <3> QED
      BY <2>2, <3>1, <3>2, <3>3, <3>4 DEF Alone, Faithful
  <2> QED
    BY <2>1, <2>3 DEF VaultInv
<1>2. CASE NewFingerprint
  BY <1>2 DEF NewFingerprint, VaultInv, VaultTypes, VaultFile
<1>3. CASE UNCHANGED vaultVars
  BY <1>3 DEF vaultVars, VaultInv, VaultTypes, Alone, Faithful, Loaded, Readable, Empty
<1> QED
  BY <1>1, <1>2, <1>3, GetVaultKeeps, BeginSaveKeeps, FinishSaveKeeps DEF VaultNext

(* While commands run one at a time, no write is cut short and the machine  *)
(* stays the same, the file holds every secret that was set last, for any   *)
(* number of commands and secrets.                                          *)
THEOREM VaultKeepsSecrets == VaultSpec => []SecretsKept
<1>1. VaultInit => VaultInv
  <2> SUFFICES ASSUME VaultInit PROVE VaultInv
    OBVIOUS
  <2>1. Empty \in Dictionary /\ Off \in Command /\ Off.doing = "off"
    BY DEF Empty, Dictionary, Command, Off
  <2>2. VaultTypes
    BY <2>1 DEF VaultInit, VaultTypes, VaultFile
  <2>3. Alone /\ Faithful
    BY <2>1 DEF VaultInit, Alone, Faithful, Loaded, Readable
  <2> QED
    BY <2>2, <2>3 DEF VaultInv
<1>2. VaultInv /\ [VaultNext]_vaultVars => VaultInv'
  BY VaultStep
<1>3. VaultInv => SecretsKept
  BY CommandsTyped DEF VaultInv, Faithful, SecretsKept
<1> QED
  BY <1>1, <1>2, <1>3, PTL DEF VaultSpec

-----------------------------------------------------------------------------
(* The enrichers.  Online, the text asked once is answered twice from what  *)
(* was kept, so that the slots and the parse are two views of one answer;   *)
(* offline, the parse of a sentence is a function of the sentence.          *)

EnricherInv ==
    /\ answers = [t \in Told |-> answers[t]]
    /\ online /\ parsed # Nil =>
          /\ filled = SlotsFor(said.text, answers[said.text], said.me)
          /\ parsed \in Parses(answers[said.text])
          /\ said.text \in Told /\ answers[said.text] # Nil
    /\ ~online /\ parsed # Nil => parsed = Heuristic(said.text)

\* What is kept of a text answers it from then on.
LEMMA KeptAnswers ==
    ASSUME NEW kept, kept = [u \in Told |-> kept[u]],
           NEW t \in Told, NEW mapped \in Mappings \cup {{}},
           NEW once, once = Keep(kept, t, mapped)
    PROVE  /\ once = [u \in Told |-> once[u]]
           /\ once[t] = AnswerTo(kept, t, mapped) /\ once[t] # Nil
           /\ \A u \in Told : kept[u] # Nil => once[u] = kept[u]
BY EnricherAssumption DEF Keep, AnswerTo

LEMMA EnricherStep ==
    ASSUME EnricherInv, [EnricherNext]_enricherVars
    PROVE  EnricherInv'
<1>1. ASSUME NEW t \in Told, NEW me \in Speakers \cup {Nil}, AbsorbOnline(t, me)
      PROVE  EnricherInv'
  <2>1. PICK first \in Mappings \cup {{}}, second \in Mappings \cup {{}} :
          LET once == Keep(answers, t, first) IN
          /\ filled' = SlotsFor(t, AnswerTo(answers, t, first), me)
          /\ parsed' \in Parses(AnswerTo(once, t, second))
          /\ answers' = Keep(once, t, second)
    BY <1>1 DEF AbsorbOnline
  <2>2. PICK once : once = Keep(answers, t, first)
    OBVIOUS
  <2>3. /\ once = [u \in Told |-> once[u]]
        /\ once[t] = AnswerTo(answers, t, first) /\ once[t] # Nil
    BY <2>2, KeptAnswers DEF EnricherInv
  <2>4. PICK twice : twice = Keep(once, t, second)
    OBVIOUS
  <2>5. /\ twice = [u \in Told |-> twice[u]]
        /\ twice[t] = once[t] /\ AnswerTo(once, t, second) = once[t]
    BY <2>3, <2>4, KeptAnswers DEF AnswerTo
  <2>6. /\ answers' = twice /\ online' /\ said'.text = t /\ said'.me = me
        /\ filled' = SlotsFor(t, twice[t], me) /\ parsed' \in Parses(twice[t])
    BY <1>1, <2>1, <2>2, <2>3, <2>4, <2>5 DEF AbsorbOnline
  <2>7. /\ SlotsFor(said.text, answers[said.text], said.me)' = SlotsFor(t, twice[t], me)
        /\ Parses(answers[said.text])' = Parses(twice[t])
    BY <2>6
  <2> QED
    BY <2>3, <2>5, <2>6, <2>7 DEF EnricherInv
<1>2. ASSUME NEW s \in Phrasings, NEW me \in Speakers \cup {Nil}, AbsorbOffline(s, me)
      PROVE  EnricherInv'
  <2>1. /\ ~online' /\ said'.text = s /\ parsed' = Heuristic(s) /\ answers' = answers
    BY <1>2 DEF AbsorbOffline
  <2>2. Heuristic(said.text)' = Heuristic(s)
    BY <2>1
  <2> QED
    BY <2>1, <2>2 DEF EnricherInv
<1>3. ASSUME NEW t \in Told, RecallOnline(t) PROVE EnricherInv'
  <2>1. PICK mapped \in Mappings \cup {{}} : answers' = Keep(answers, t, mapped)
    BY <1>3 DEF RecallOnline
  <2>2. PICK once : once = Keep(answers, t, mapped)
    OBVIOUS
  <2>3. /\ once = [u \in Told |-> once[u]]
        /\ \A u \in Told : answers[u] # Nil => once[u] = answers[u]
    BY <2>2, KeptAnswers DEF EnricherInv
  <2>4. answers' = once /\ online /\ UNCHANGED <<online, filled, parsed, said>>
    BY <1>3, <2>1, <2>2 DEF RecallOnline
  <2>5. CASE parsed = Nil
    BY <2>3, <2>4, <2>5 DEF EnricherInv
  <2>6. CASE parsed # Nil
    <3>1. /\ said.text \in Told /\ answers[said.text] # Nil
          /\ once[said.text] = answers[said.text]
      BY <2>3, <2>4, <2>6 DEF EnricherInv
    <3>2. /\ SlotsFor(said.text, answers[said.text], said.me)'
               = SlotsFor(said.text, answers[said.text], said.me)
          /\ Parses(answers[said.text])' = Parses(answers[said.text])
      BY <2>4, <3>1
    <3> QED
      BY <2>3, <2>4, <3>1, <3>2 DEF EnricherInv
  <2> QED
    BY <2>5, <2>6
<1>4. CASE LoadThought
  BY <1>4 DEF LoadThought, EnricherInv
<1>5. CASE EnricherRestart
  BY <1>5 DEF EnricherRestart, EnricherInv
<1>6. CASE UNCHANGED enricherVars
  <2>1. /\ SlotsFor(said.text, answers[said.text], said.me)'
             = SlotsFor(said.text, answers[said.text], said.me)
        /\ Parses(answers[said.text])' = Parses(answers[said.text])
        /\ Heuristic(said.text)' = Heuristic(said.text)
    BY <1>6 DEF enricherVars
  <2> QED
    BY <1>6, <2>1 DEF enricherVars, EnricherInv
<1> QED
  BY <1>1, <1>2, <1>3, <1>4, <1>5, <1>6 DEF EnricherNext

LEMMA EnricherStart == EnricherInit => EnricherInv
BY DEF EnricherInit, EnricherInv

\* The roles that may lead a parse: all are in the schema, none is a person.
LEMMA PriorityRoles ==
    ASSUME NEW j \in 1..15
    PROVE  /\ Priority[j] \in Schema /\ Priority[j] \notin PersonRoles
           /\ Priority[j] = <<Priority[j][1], Priority[j][2]>>
<1>1. \/ j = 1 \/ j = 2 \/ j = 3 \/ j = 4 \/ j = 5 \/ j = 6 \/ j = 7 \/ j = 8 \/ j = 9
      \/ j = 10 \/ j = 11 \/ j = 12 \/ j = 13 \/ j = 14 \/ j = 15
  OBVIOUS
<1> QED
  BY <1>1 DEF Priority, Schema, PersonRoles

LEMMA LeadingRole ==
    ASSUME NEW mapped, Leading(mapped) # Nil
    PROVE  \E j \in 1..15 : Leading(mapped) = Priority[j]
                            /\ ValueOf(mapped, Priority[j]) # Nil
<1> DEFINE ranks == {j \in 1..15 : ValueOf(mapped, Priority[j]) # Nil}
<1>1. ranks \subseteq Nat /\ ranks # {}
  BY DEF Leading
<1> HIDE DEF ranks
<1>2. PICK x \in ranks : \A y \in ranks : ~(<<y, x>> \in OpToRel(<, Nat))
  BY <1>1, NatLessThanWellFounded, WFMin
<1>3. ASSUME NEW y \in ranks PROVE x <= y
  <2>1. x \in Nat /\ y \in Nat /\ ~(y < x)
    BY <1>1, <1>2, <1>3 DEF OpToRel
  <2> QED
    BY <2>1
<1>4. PICK w : w = CHOOSE k \in ranks : \A j \in ranks : k <= j
  OBVIOUS
<1>5. w \in ranks
  BY <1>3, <1>4
<1>6. Leading(mapped) = Priority[w]
  BY <1>1, <1>4 DEF Leading, ranks
<1> QED
  BY <1>5, <1>6 DEF ranks

\* A value that the projection reads is in the answer under that role.
LEMMA GetIs ==
    ASSUME NEW mapped, NEW layer, NEW role, Get(mapped, layer, role) # Nil
    PROVE  \E m \in mapped : /\ m.layer = layer /\ m.role = role
                             /\ m.value = Get(mapped, layer, role)
<1>1. \E m \in mapped : m.layer = layer /\ m.role = role
  BY DEF Get
<1>2. PICK n : n = CHOOSE m \in mapped : m.layer = layer /\ m.role = role
  OBVIOUS
<1>3. n \in mapped /\ n.layer = layer /\ n.role = role
  BY <1>1, <1>2
<1> QED
  BY <1>1, <1>2, <1>3 DEF Get

\* A sanitised slot stays, but for the speaker's name in place of a pronoun.
LEMMA SlotStays ==
    ASSUME NEW text, NEW mapped, NEW me, NEW m \in Sanitised(mapped)
    PROVE  \E n \in SlotsFor(text, mapped, me) :
              /\ n.layer = m.layer /\ n.role = m.role
              /\ n.value = m.value \/ (MeansSpeaker(m) /\ me # Nil /\ n.value = me)
<1>1. mapped # {}
  BY DEF Sanitised
<1>2. CASE me # Nil /\ text \in FirstPerson
  <2>1. (IF MeansSpeaker(m) THEN Slot(m.layer, m.role, me) ELSE m)
          \in SlotsFor(text, mapped, me)
    BY <1>1, <1>2 DEF SlotsFor, Resolved
  <2>2. CASE MeansSpeaker(m)
    BY <1>2, <2>1, <2>2 DEF Slot
  <2>3. CASE ~MeansSpeaker(m)
    BY <2>1, <2>3
  <2> QED
    BY <2>2, <2>3
<1>3. CASE ~(me # Nil /\ text \in FirstPerson)
  BY <1>1, <1>3 DEF SlotsFor
<1> QED
  BY <1>2, <1>3

\* What the projection reads of the answer is in the slots.
LEMMA ReadIsBacked ==
    ASSUME NEW mapped, NEW layer, NEW role, <<layer, role>> \in Schema,
           Get(mapped, layer, role) # Nil,
           filled = SlotsFor(said.text, mapped, said.me)
    PROVE  Backed(Lower(Get(mapped, layer, role)))
<1>1. PICK m \in mapped : /\ m.layer = layer /\ m.role = role
                          /\ m.value = Get(mapped, layer, role)
  BY GetIs
<1>2. CASE Lower(m.value) \in Blanks
  BY <1>1, <1>2 DEF Backed
<1>3. CASE Lower(m.value) \notin Blanks
  <2>1. m \in Sanitised(mapped)
    BY <1>1, <1>3 DEF Sanitised
  <2>2. PICK n \in filled :
           n.value = m.value \/ (MeansSpeaker(m) /\ said.me # Nil /\ n.value = said.me)
    BY <2>1, SlotStays
  <2>3. CASE n.value = m.value
    BY <1>1, <2>3 DEF Backed
  <2>4. CASE MeansSpeaker(m) /\ said.me # Nil /\ n.value = said.me
    BY <1>1, <2>4 DEF Backed, MeansSpeaker
  <2> QED
    BY <2>2, <2>3, <2>4
<1> QED
  BY <1>2, <1>3

\* The projection of an answer tells what its slots tell.
LEMMA ProjectionBacked ==
    ASSUME NEW mapped, mapped = answers[said.text],
           filled = SlotsFor(said.text, mapped, said.me),
           NEW l, NEW p, p = Projection(mapped, l)
    PROVE  /\ Backed(p.subject) /\ Backed(p.object)
           /\ \/ p.predicate = Nil
              \/ \E m \in filled : <<m.layer, m.role>> = p.predicate
              \/ \E m \in mapped :
                    <<m.layer, m.role>> = p.predicate /\ Lower(m.value) \in Blanks
<1>1. /\ <<"relational", "subject">> \in Schema /\ <<"relational", "possessor">> \in Schema
      /\ <<"relational", "object">> \in Schema /\ <<"entity", "name">> \in Schema
  BY DEF Schema
<1>2. Lower(Nil) = Nil /\ Backed(Nil)
  BY EnricherAssumption DEF Lower, Backed
<1>3. ASSUME NEW layer, NEW role, <<layer, role>> \in Schema
      PROVE  Backed(Lower(Get(mapped, layer, role)))
  BY <1>2, <1>3, ReadIsBacked
<1>4. Backed(p.subject)
  <2>1. p.subject = Lower(Or(Or(Get(mapped, "relational", "subject"),
                                Get(mapped, "relational", "possessor")),
                             Get(mapped, "entity", "name")))
    BY DEF Projection
  <2>2. \/ p.subject = Lower(Get(mapped, "relational", "subject"))
        \/ p.subject = Lower(Get(mapped, "relational", "possessor"))
        \/ p.subject = Lower(Get(mapped, "entity", "name"))
    BY <2>1 DEF Or
  <2> QED
    BY <1>1, <1>3, <2>2
<1>5. p.predicate = Leading(mapped)
  BY DEF Projection
<1>6. CASE Leading(mapped) = Nil
  <2>1. p.object = Lower(Or(Get(mapped, "relational", "object"), Nil))
    BY <1>6 DEF Projection, ValueOf
  <2>2. p.object = Lower(Get(mapped, "relational", "object")) \/ p.object = Nil
    BY <1>2, <2>1 DEF Or
  <2> QED
    BY <1>1, <1>2, <1>3, <1>4, <1>5, <1>6, <2>2
<1>7. CASE Leading(mapped) # Nil
  <2>1. PICK j \in 1..15 : Leading(mapped) = Priority[j]
                           /\ ValueOf(mapped, Priority[j]) # Nil
    BY <1>7, LeadingRole
  <2>2. PICK layer, role : layer = Priority[j][1] /\ role = Priority[j][2]
    OBVIOUS
  <2>3. /\ Leading(mapped) = <<layer, role>>
        /\ <<layer, role>> \in Schema /\ <<layer, role>> \notin PersonRoles
    BY <2>1, <2>2, PriorityRoles
  <2>4. ValueOf(mapped, Leading(mapped)) = Get(mapped, layer, role)
    BY <1>7, <2>1, <2>2 DEF ValueOf
  <2>5. p.object = Lower(Or(Get(mapped, "relational", "object"), Get(mapped, layer, role)))
    BY <2>4 DEF Projection
  <2>6. Backed(p.object)
    <3>1. \/ p.object = Lower(Get(mapped, "relational", "object"))
          \/ p.object = Lower(Get(mapped, layer, role))
      BY <2>5 DEF Or
    <3> QED
      BY <1>1, <1>3, <2>3, <3>1
  <2>7. PICK m \in mapped : m.layer = layer /\ m.role = role
    BY <2>1, <2>4, GetIs
  <2>8. CASE Lower(m.value) \in Blanks
    BY <1>4, <1>5, <2>3, <2>6, <2>7, <2>8
  <2>9. CASE Lower(m.value) \notin Blanks
    <3>1. m \in Sanitised(mapped)
      BY <2>3, <2>7, <2>9 DEF Sanitised
    <3>2. PICK n \in filled : n.layer = m.layer /\ n.role = m.role
      BY <3>1, SlotStays
    <3> QED
      BY <1>4, <1>5, <2>3, <2>6, <2>7, <3>2
  <2> QED
    BY <2>8, <2>9
<1> QED
  BY <1>6, <1>7

\* What a pattern makes of each form of sentence, from the two tables.
LEMMA FactRows ==
    ASSUME NEW s, NEW a, a = Lower(s.about), s.form \in FactForms
    PROVE  /\ s.form = "favorite" => Row(s) = Pattern({1}, <<"favorite", a>>, "person.preference")
           /\ s.form = "years_old" => Row(s) = Pattern({1}, <<"age">>, "person.age")
           /\ s.form = "lives_in" => Row(s) = Pattern({1}, <<"residence">>, "person.location")
           /\ s.form = "works_as" => Row(s) = Pattern({1}, <<"job">>, "person.job")
           /\ s.form = "capital_is" => Row(s) = Pattern(Nat, <<"capital">>, "geography.capital")
           /\ s.form = "stands_for" =>
                 Row(s) = Pattern({1}, <<"abbreviation_of">>, "knowledge.definition")
           /\ s.form = "has" => Row(s) = Pattern({1, 2}, <<"quantity_of", a>>, "knowledge.quantity")
           /\ s.form = "uses" => Row(s) = Pattern({1}, <<"dimension">>, "ada.architecture")
           /\ s.form = "runs_on_port" => Row(s) = Pattern({1}, <<"port">>, "ada.architecture")
BY DEF Row, FactTable

LEMMA QuestionRows ==
    ASSUME NEW q, NEW a, a = Lower(q.about), q.form \in QuestionForms
    PROVE  /\ q.form = "how_old" => Row(q) = Pattern({1}, <<"age">>, "person.age")
           /\ q.form = "where_live" => Row(q) = Pattern({1}, <<"residence">>, "person.location")
           /\ q.form = "what_job" => Row(q) = Pattern({1}, <<"job">>, "person.job")
           /\ q.form = "what_favorite" =>
                 Row(q) = Pattern({1}, <<"favorite", a>>, "person.preference")
           /\ q.form = "what_color" => Row(q) = Pattern({1}, ColourAsked, "person.preference")
           /\ q.form = "what_capital" => Row(q) = Pattern({1}, <<"capital">>, "geography.capital")
           /\ q.form = "what_stand_for" =>
                 Row(q) = Pattern({1}, <<"abbreviation_of">>, "knowledge.definition")
           /\ q.form = "what_dimension" => Row(q) = Pattern({1}, <<"dimension">>, "ada.architecture")
           /\ q.form = "what_port" => Row(q) = Pattern({1}, <<"port">>, "ada.architecture")
BY DEF Row, QuestionTable, FactForms, QuestionForms

(* What the parse says is in the slots the thought was given, whatever the  *)
(* model may answer, however often it fails or changes its mind, and        *)
(* whoever speaks.                                                          *)
THEOREM EnrichersAgree == EnricherSpec => []EnrichmentsAgree
<1>1. EnricherInv => EnrichmentsAgree
  <2>1. SUFFICES ASSUME EnricherInv, online, parsed # Nil
                 PROVE  /\ Backed(parsed.subject) /\ Backed(parsed.object)
                        /\ \/ parsed.predicate = Nil
                           \/ \E m \in filled : <<m.layer, m.role>> = parsed.predicate
                           \/ \E m \in answers[said.text] :
                                 /\ <<m.layer, m.role>> = parsed.predicate
                                 /\ Lower(m.value) \in Blanks
    BY DEF EnrichmentsAgree
  <2>2. PICK mapped : mapped = answers[said.text]
    OBVIOUS
  <2>3. filled = SlotsFor(said.text, mapped, said.me) /\ parsed \in Parses(mapped)
    BY <2>1, <2>2 DEF EnricherInv
  <2>4. PICK l : parsed = Projection(mapped, l)
    BY <2>1, <2>3 DEF Parses
  <2> QED
    BY <2>2, <2>3, <2>4, ProjectionBacked
<1> QED
  BY EnricherStart, EnricherStep, <1>1, PTL DEF EnricherSpec

\* Form by form: what a question is parsed to, and what it answers to.
LEMMA MeetsRow ==
    ASSUME NEW q \in Queries, NEW s \in Assertions
    PROVE  Meets(Heuristic(q), Heuristic(s)) <=>
             /\ Words[q.subject] \in Row(q).words /\ Words[s.subject] \in Row(s).words
             /\ Row(q).predicate = Row(s).predicate /\ Row(q).predicate # Nil
             /\ Row(q).topic = Row(s).topic /\ Lower(q.subject) = Lower(s.subject)
<1>1. q.subject \in Subjects /\ s.subject \in Subjects
  BY DEF Queries, Assertions
<1>2. Lower(q.subject) # Nil /\ Lower(s.subject) # Nil
  BY <1>1, WordsAssumption
<1>3. CASE Words[q.subject] \notin Row(q).words
  BY <1>3 DEF Heuristic, Unstructured, Meets
<1>4. CASE Words[s.subject] \notin Row(s).words
  BY <1>4 DEF Heuristic, Unstructured, Meets
<1>5. CASE Words[q.subject] \in Row(q).words /\ Words[s.subject] \in Row(s).words
  BY <1>2, <1>5 DEF Heuristic, Meets
<1> QED
  BY <1>3, <1>4, <1>5

\* What a reader asks and what the patterns make of it, for each question.
LEMMA AnswersRow ==
    ASSUME NEW q \in Queries, NEW s \in Assertions, Lower(q.subject) = Lower(s.subject)
    PROVE  AnswersTo(q, s) <=> Row(q).predicate = Row(s).predicate /\ Row(q).topic = Row(s).topic
<1>1. q.form \in QuestionForms /\ s.form \in FactForms
  BY DEF Queries, Assertions
<1>2. PICK a, b : a = Lower(s.about) /\ b = Lower(q.about)
  OBVIOUS
<1>3. AnswersTo(q, s) <=>
        \/ q.form = "how_old" /\ s.form = "years_old"
        \/ q.form = "where_live" /\ s.form = "lives_in"
        \/ q.form = "what_job" /\ s.form = "works_as"
        \/ q.form = "what_favorite" /\ s.form = "favorite" /\ b = a
        \/ q.form = "what_color" /\ s.form = "favorite" /\ a = Colour
        \/ q.form = "what_capital" /\ s.form = "capital_is"
        \/ q.form = "what_stand_for" /\ s.form = "stands_for"
        \/ q.form = "what_dimension" /\ s.form = "uses"
        \/ q.form = "what_port" /\ s.form = "runs_on_port"
  BY <1>2 DEF AnswersTo
<1>4. /\ <<"favorite", b>> = <<"favorite", a>> <=> b = a
      /\ <<"favorite", Colour>> = <<"favorite", a>> <=> a = Colour
      /\ <<"dimension">> # <<"port">>
  OBVIOUS
<1>5. CASE s.form = "favorite"
  BY <1>1, <1>2, <1>3, <1>4, <1>5, FactRows, QuestionRows DEF Pattern, ColourAsked, QuestionForms
<1>6. CASE s.form = "years_old"
  BY <1>1, <1>2, <1>3, <1>6, FactRows, QuestionRows DEF Pattern, QuestionForms
<1>7. CASE s.form = "lives_in"
  BY <1>1, <1>2, <1>3, <1>7, FactRows, QuestionRows DEF Pattern, QuestionForms
<1>8. CASE s.form = "works_as"
  BY <1>1, <1>2, <1>3, <1>8, FactRows, QuestionRows DEF Pattern, QuestionForms
<1>9. CASE s.form = "capital_is"
  BY <1>1, <1>2, <1>3, <1>9, FactRows, QuestionRows DEF Pattern, QuestionForms
<1>10. CASE s.form = "stands_for"
  BY <1>1, <1>2, <1>3, <1>10, FactRows, QuestionRows DEF Pattern, QuestionForms
<1>11. CASE s.form = "has"
  BY <1>1, <1>2, <1>3, <1>11, FactRows, QuestionRows DEF Pattern, QuestionForms
<1>12. CASE s.form = "uses"
  BY <1>1, <1>2, <1>3, <1>4, <1>12, FactRows, QuestionRows DEF Pattern, QuestionForms
<1>13. CASE s.form = "runs_on_port"
  BY <1>1, <1>2, <1>3, <1>4, <1>13, FactRows, QuestionRows DEF Pattern, QuestionForms
<1> QED
  BY <1>1, <1>5, <1>6, <1>7, <1>8, <1>9, <1>10, <1>11, <1>12, <1>13 DEF FactForms

\* Every pattern takes one word for its subject, and the questions no more.
LEMMA RowWords ==
    ASSUME NEW s \in Phrasings
    PROVE  /\ 1 \in Row(s).words
           /\ s \in Queries => Row(s).words = {1} /\ Row(s).predicate # Nil
<1>1. CASE s \in Queries
  <2>1. s.form \in QuestionForms /\ s.form \notin FactForms /\ s.about \in Attributes
    BY <1>1 DEF Queries, QuestionForms, FactForms
  <2>2. Row(s).words = {1}
    BY <2>1, QuestionRows DEF Pattern, QuestionForms
  <2>3. Row(s).predicate # Nil
    BY <2>1, PredicatesAssumption DEF Row
  <2> QED
    BY <2>2, <2>3
<1>2. CASE s \in Assertions
  <2>1. s.form \in FactForms /\ s \notin Queries
    BY <1>2 DEF Assertions, Queries, QuestionForms, FactForms
  <2> QED
    BY <2>1, FactRows DEF Pattern, FactForms
<1> QED
  BY <1>1, <1>2 DEF Phrasings

(* Offline, the two tables of patterns agree: a question meets the facts    *)
(* that answer it, and no others, as long as its subject is one word.       *)
THEOREM QuestionsFindFacts == EnricherSpec => []QuestionsMeetFacts
<1>1. EnricherInv => QuestionsMeetFacts
  <2>1. SUFFICES ASSUME EnricherInv, ~online, parsed # Nil,
                        NEW s \in Assertions, s = said.text, NEW q \in Queries
                 PROVE  Meets(Heuristic(q), Heuristic(s))
                          <=> AnswersTo(q, s) /\ Words[q.subject] = 1
    BY DEF QuestionsMeetFacts, EnricherInv
  <2>2. /\ Row(q).words = {1} /\ 1 \in Row(s).words /\ Row(q).predicate # Nil
        /\ q.subject \in Subjects /\ s.subject \in Subjects
    BY RowWords DEF Phrasings, Queries, Assertions
  <2>3. AnswersTo(q, s) => Lower(q.subject) = Lower(s.subject)
    BY DEF AnswersTo
  <2>4. Lower(q.subject) = Lower(s.subject) => Words[q.subject] = Words[s.subject]
    BY <2>2, WordsAssumption
  <2> QED
    BY <2>2, <2>3, <2>4, MeetsRow, AnswersRow
<1> QED
  BY EnricherStart, EnricherStep, <1>1, PTL DEF EnricherSpec

-----------------------------------------------------------------------------
(* The chat and the stores of main.  While changes at rest do not overlap,  *)
(* the one under way found the store that both the chat and the tools use.  *)

ReloadState ==
    [pc : {"idle"}] \cup [pc : {"commit", "load"}, store : Nat]
        \cup [pc : {"swap"}, store : Nat, fresh : Nat]

OneMemory ==
    /\ main \in Nat /\ chat \in Nat /\ Len(stores) \in Nat
    /\ overlapped \in BOOLEAN
    /\ reloads \in [Reloaders -> ReloadState]
    /\ ~overlapped =>
          /\ chat = main
          /\ \A c, d \in Reloaders :
                reloads[c].pc # "idle" /\ reloads[d].pc # "idle" => c = d
          /\ \A c \in Reloaders : reloads[c].pc # "idle" => reloads[c].store = main

LEMMA ReloadsTyped ==
    ASSUME NEW r \in ReloadState
    PROVE  /\ r.pc \in {"idle", "commit", "load", "swap"}
           /\ r.pc # "idle" => r.store \in Nat
           /\ r.pc = "swap" => r.fresh \in Nat
           /\ r.pc = "commit" =>
                 /\ [r EXCEPT !.pc = "load"] \in ReloadState
                 /\ [r EXCEPT !.pc = "load"].pc = "load"
                 /\ [r EXCEPT !.pc = "load"].store = r.store
BY DEF ReloadState

LEMMA OneMemoryStep ==
    ASSUME OneMemory, [ChatNext]_chatVars, Len(stores') \in Nat
    PROVE  OneMemory'
<1>1. ASSUME NEW c \in Reloaders, StartChange(c) PROVE OneMemory'
  <2>1. PICK new : new = [pc |-> "commit", store |-> main]
    OBVIOUS
  <2>2. new \in ReloadState /\ new.pc = "commit" /\ new.store = main
    BY <2>1 DEF OneMemory, ReloadState
  <2>3. /\ reloads[c].pc = "idle" /\ reloads' = [reloads EXCEPT ![c] = new]
        /\ overlapped' = (overlapped \/ \E d \in Reloaders : reloads[d].pc # "idle")
        /\ UNCHANGED <<stores, main, chat>>
    BY <1>1, <2>1 DEF StartChange
  <2>4. \A d \in Reloaders : reloads'[d] = IF d = c THEN new ELSE reloads[d]
    BY <2>3 DEF OneMemory
  <2>5. reloads' \in [Reloaders -> ReloadState]
    BY <2>2, <2>3 DEF OneMemory
  <2> QED
    BY <2>2, <2>3, <2>4, <2>5 DEF OneMemory
<1>2. ASSUME NEW c \in Reloaders, CommitChange(c) PROVE OneMemory'
  <2>1. PICK new : new = [reloads[c] EXCEPT !.pc = "load"]
    OBVIOUS
  <2>2. /\ reloads[c].pc = "commit" /\ reloads' = [reloads EXCEPT ![c] = new]
        /\ UNCHANGED <<stores, main, chat, overlapped>>
    BY <1>2, <2>1 DEF CommitChange, OneMemory
  <2>3. new \in ReloadState /\ new.pc = "load" /\ new.store = reloads[c].store
    BY <2>1, <2>2, ReloadsTyped DEF OneMemory
  <2>4. \A d \in Reloaders : reloads'[d] = IF d = c THEN new ELSE reloads[d]
    BY <2>2 DEF OneMemory
  <2>5. reloads' \in [Reloaders -> ReloadState]
    BY <2>2, <2>3 DEF OneMemory
  <2> QED
    BY <2>2, <2>3, <2>4, <2>5 DEF OneMemory
<1>3. ASSUME NEW c \in Reloaders, NoChange(c) PROVE OneMemory'
  <2>1. PICK new : new = [pc |-> "idle"]
    OBVIOUS
  <2>2. new \in ReloadState /\ new.pc = "idle"
    BY <2>1 DEF ReloadState
  <2>3. /\ reloads' = [reloads EXCEPT ![c] = new]
        /\ UNCHANGED <<stores, main, chat, overlapped>>
    BY <1>3, <2>1 DEF NoChange
  <2>4. \A d \in Reloaders : reloads'[d] = IF d = c THEN new ELSE reloads[d]
    BY <2>3 DEF OneMemory
  <2>5. reloads' \in [Reloaders -> ReloadState]
    BY <2>2, <2>3 DEF OneMemory
  <2> QED
    BY <2>2, <2>3, <2>4, <2>5 DEF OneMemory
<1>4. ASSUME NEW c \in Reloaders, LoadStore(c) PROVE OneMemory'
  <2>1. PICK new : new = [pc |-> "swap", store |-> reloads[c].store,
                          fresh |-> Len(stores) + 1]
    OBVIOUS
  <2>2. /\ reloads[c].pc = "load" /\ reloads' = [reloads EXCEPT ![c] = new]
        /\ UNCHANGED <<main, chat, overlapped>>
    BY <1>4, <2>1 DEF LoadStore, OneMemory
  <2>3. new \in ReloadState /\ new.pc = "swap" /\ new.store = reloads[c].store
    BY <2>1, <2>2, ReloadsTyped DEF OneMemory, ReloadState
  <2>4. \A d \in Reloaders : reloads'[d] = IF d = c THEN new ELSE reloads[d]
    BY <2>2 DEF OneMemory
  <2>5. reloads' \in [Reloaders -> ReloadState]
    BY <2>2, <2>3 DEF OneMemory
  <2> QED
    BY <2>2, <2>3, <2>4, <2>5 DEF OneMemory
<1>5. ASSUME NEW c \in Reloaders, SwapStore(c) PROVE OneMemory'
  <2>1. PICK new : new = [pc |-> "idle"]
    OBVIOUS
  <2>2. new \in ReloadState /\ new.pc = "idle"
    BY <2>1 DEF ReloadState
  <2>3. /\ reloads[c].pc = "swap" /\ reloads' = [reloads EXCEPT ![c] = new]
        /\ main' = reloads[c].fresh
        /\ chat' = IF chat = reloads[c].store THEN reloads[c].fresh ELSE chat
        /\ UNCHANGED overlapped
    BY <1>5, <2>1 DEF SwapStore, ChatAfterSwap
  <2>4. \A d \in Reloaders : reloads'[d] = IF d = c THEN new ELSE reloads[d]
    BY <2>3 DEF OneMemory
  <2>5. reloads' \in [Reloaders -> ReloadState]
    BY <2>2, <2>3 DEF OneMemory
  <2>6. main' \in Nat /\ chat' \in Nat
    BY <2>3, ReloadsTyped DEF OneMemory
  <2> QED
    BY <2>2, <2>3, <2>4, <2>5, <2>6 DEF OneMemory
<1>6. CASE Restart
  <2>1. [pc |-> "idle"] \in ReloadState
    BY DEF ReloadState
  <2> QED
    BY <1>6, <2>1 DEF Restart, OneMemory
<1>7. CASE UNCHANGED <<main, chat, reloads, overlapped>>
  BY <1>7 DEF OneMemory
<1>8. \/ \E c \in Reloaders : Change(c)
      \/ Restart
      \/ UNCHANGED <<main, chat, reloads, overlapped>>
  BY DEF ChatNext, chatVars, Perceive, Think, Respond, StartScan, EndScan, ScanFails, Flush,
         FlushTake, FlushSave, FlushFails, TellOverMcp
<1> QED
  BY <1>1, <1>2, <1>3, <1>4, <1>5, <1>6, <1>7, <1>8 DEF Change

-----------------------------------------------------------------------------
(* Who said what.  Wherever a thought is kept (a store, a queue, the disk,  *)
(* a scan under way) it is Ada's own or a sentence that a user has said,    *)
(* and what a user has said stays said.                                     *)

Texts == Statements \cup Questions \cup Replies \cup {GotIt, DontKnow}

Grounded ==
    {t \in [text : Texts, speaker : {"incoming", "ada"}] :
        t.speaker = "ada" \/ t.text \in heard}

\* The texts of the shell that are still to be queued.
Queueing(texts) ==
    /\ texts \in Seq(Seq(Texts)) /\ Len(texts) \in {1, 2}
    /\ Len(texts) = 2 => texts[1] \in Seq(heard)

ShellInv ==
    /\ shell.pc \in {"idle", "llm", "scan", "scanning"}
    /\ shell.pc = "llm" =>
          /\ shell.input \in Seq(heard)
          /\ shell.fact # Nobody => shell.fact.text \in heard
    /\ shell.pc \in {"scan", "scanning"} => Queueing(shell.texts)
    /\ shell.pc = "scanning" => shell.seen \subseteq Grounded

GroundInv ==
    /\ heard \subseteq Texts
    /\ stores \in Seq(SUBSET Grounded) /\ chat \in 1..Len(stores) /\ main \in 1..Len(stores)
    /\ disk \subseteq Grounded
    /\ pending \in Seq(Grounded) /\ saving \in Seq(Grounded)
    /\ ShellInv
    /\ \A c \in Reloaders : reloads[c].pc = "swap" => reloads[c].fresh \in 1..Len(stores)

\* A bounded set of naturals has a largest one.
LEMMA LargestExists ==
    ASSUME NEW B, B \subseteq Nat, B # {}, NEW n \in Nat, \A b \in B : b <= n
    PROVE  \E m \in B : \A b \in B : b <= m
<1> DEFINE T == {n - b : b \in B}
<1>1. \A b \in B : n - b \in Nat
  OBVIOUS
<1>2. T \subseteq Nat /\ T # {}
  BY <1>1
<1>3. PICK x \in T : \A y \in T : ~(<<y, x>> \in OpToRel(<, Nat))
  BY <1>2, NatLessThanWellFounded, WFMin
<1>4. PICK m \in B : x = n - m
  OBVIOUS
<1>5. ASSUME NEW b \in B PROVE b <= m
  <2>1. ~(n - b < n - m)
    BY <1>2, <1>3, <1>4 DEF OpToRel
  <2>2. b \in Nat /\ m \in Nat
    OBVIOUS
  <2> QED
    BY <2>1, <2>2
<1> QED
  BY <1>5

\* What is absorbed is the speaker's.
Speaks(text, speaker) ==
    \/ text \in Seq(heard) /\ speaker = "incoming"
    \/ text \in Seq(Texts) /\ speaker = "ada"

LEMMA SpokenGrounded ==
    ASSUME heard \subseteq Texts, NEW text, NEW speaker, Speaks(text, speaker),
           NEW i \in DOMAIN text
    PROVE  Said(text[i], speaker) \in Grounded
BY DEF Speaks, Grounded, Said

LEMMA AbsorbedGrounded ==
    ASSUME heard \subseteq Texts, NEW store, store \subseteq Grounded,
           NEW text, NEW speaker, Speaks(text, speaker)
    PROVE  Absorbed(store, text, speaker) \subseteq Grounded
BY SpokenGrounded DEF Absorbed, Sentences

LEMMA LastNewGrounded ==
    ASSUME heard \subseteq Texts, NEW store, NEW text, NEW speaker, Speaks(text, speaker)
    PROVE  LastNew(store, text, speaker) \in Grounded \cup {Nobody}
<1> DEFINE new == {i \in DOMAIN text : text[i] \notin TextsOf(store)}
<1>1. CASE new = {}
  BY <1>1 DEF LastNew
<1>2. CASE new # {}
  <2>1. new \subseteq Nat /\ Len(text) \in Nat /\ \A i \in new : i <= Len(text)
    BY DEF Speaks
  <2>2. \E i \in new : \A j \in new : j <= i
    BY <1>2, <2>1, LargestExists
  <2>3. PICK i \in new : i = CHOOSE k \in new : \A j \in new : j <= k
    BY <2>2
  <2>4. LastNew(store, text, speaker) = Said(text[i], speaker)
    BY <1>2, <2>3 DEF LastNew
  <2> QED
    BY <2>3, <2>4, SpokenGrounded
<1> QED
  BY <1>1, <1>2

\* Hearing more only adds to what is grounded.
LEMMA MoreIsHeard ==
    ASSUME GroundInv, heard \subseteq heard'
    PROVE  /\ Grounded \subseteq Grounded'
           /\ stores \in Seq(SUBSET Grounded)' /\ disk \in SUBSET Grounded'
           /\ pending \in Seq(Grounded)' /\ saving \in Seq(Grounded)'
<1>1. Grounded \subseteq Grounded'
  BY DEF Grounded
<1>2. SUBSET Grounded \subseteq (SUBSET Grounded)'
  BY <1>1
<1> HIDE DEF Grounded
<1>3. stores \in Seq(SUBSET Grounded)' /\ pending \in Seq(Grounded)'
      /\ saving \in Seq(Grounded)'
  BY <1>1, <1>2 DEF GroundInv
<1> QED
  BY <1>1, <1>3 DEF GroundInv

LEMMA PerceiveGrounded ==
    ASSUME GroundInv, NEW text \in Inputs, Perceive(text)
    PROVE  GroundInv'
<1>1. /\ heard' = heard \cup Sentences(text)
      /\ UNCHANGED <<stores, main, chat, disk, pending, saving, reloads>>
  BY DEF Perceive
<1>2. PICK fact \in Recallable(Memory) \cup {Nobody} :
        shell' = [pc |-> "llm", input |-> text, fact |-> fact]
  BY DEF Perceive
<1>3. text \in Seq(Statements \cup Questions)
  BY ChatAssumption
<1>4. heard' \subseteq Texts /\ text \in Seq(heard') /\ heard \subseteq heard'
  <2>1. \A i \in DOMAIN text : text[i] \in Texts /\ text[i] \in heard'
    BY <1>1, <1>3 DEF Texts, Sentences
  <2>2. Len(text) \in Nat /\ DOMAIN text = 1..Len(text) /\ text = [i \in 1..Len(text) |-> text[i]]
    BY <1>3
  <2>3. text \in Seq(heard')
    BY <2>1, <2>2
  <2> QED
    BY <1>1, <2>1, <2>3 DEF GroundInv, Sentences
<1>5. stores[chat] \subseteq Grounded
  BY DEF GroundInv
<1>6. fact # Nobody => fact.text \in heard
  BY <1>5 DEF Recallable, Memory, Grounded
<1>7. ShellInv'
  BY <1>2, <1>4, <1>6 DEF ShellInv
<1> QED
  BY <1>1, <1>4, <1>7, MoreIsHeard DEF GroundInv

LEMMA RespondGrounded ==
    ASSUME GroundInv, Respond
    PROVE  GroundInv'
<1>1. /\ shell.pc = "llm"
      /\ UNCHANGED <<main, chat, disk, pending, saving, reloads, heard>>
  BY DEF Respond
<1>2. PICK reply \in Responses :
        LET told == IF IsQuestion(shell.input) THEN Memory
                    ELSE Absorbed(Memory, shell.input, "incoming")
        IN  /\ stores' = [stores EXCEPT ![chat] = Absorbed(told, <<reply>>, "ada")]
            /\ shell' = [pc |-> "scan", texts |-> <<shell.input, <<reply>>>>]
  BY DEF Respond
<1>3. shell.input \in Seq(heard) /\ (shell.fact # Nobody => shell.fact.text \in heard)
  BY <1>1 DEF GroundInv, ShellInv
<1>4. heard \subseteq Texts /\ Memory \subseteq Grounded
  BY DEF GroundInv, Memory
<1>5. reply \in Texts
  BY <1>3, <1>4 DEF Responses, Texts
<1>6. Absorbed(Memory, shell.input, "incoming") \subseteq Grounded
  BY <1>3, <1>4, AbsorbedGrounded DEF Speaks
<1>7. PICK told \in SUBSET Grounded :
        /\ stores' = [stores EXCEPT ![chat] = Absorbed(told, <<reply>>, "ada")]
        /\ shell' = [pc |-> "scan", texts |-> <<shell.input, <<reply>>>>]
  BY <1>2, <1>4, <1>6
<1>8. <<reply>> \in Seq(Texts)
  BY <1>5
<1>9. Absorbed(told, <<reply>>, "ada") \subseteq Grounded
  <2>1. told \subseteq Grounded /\ Speaks(<<reply>>, "ada")
    BY <1>8 DEF Speaks
  <2> QED
    BY <1>4, <2>1, AbsorbedGrounded
<1>10. stores' \in Seq(SUBSET Grounded) /\ Len(stores') = Len(stores)
  BY <1>7, <1>9 DEF GroundInv
<1>11. shell.input \in Seq(Texts)
  BY <1>3, <1>4
<1>12. Queueing(<<shell.input, <<reply>>>>)
  BY <1>3, <1>8, <1>11 DEF Queueing
<1>13. shell'.pc = "scan" /\ shell'.texts = <<shell.input, <<reply>>>>
  BY <1>7
<1>14. ShellInv'
  BY <1>1, <1>12, <1>13 DEF ShellInv, Queueing
<1>15. Grounded' = Grounded
  BY <1>1 DEF Grounded
<1> HIDE DEF Grounded
<1> QED
  BY <1>1, <1>10, <1>14, <1>15 DEF GroundInv

LEMMA EndScanGrounded ==
    ASSUME GroundInv, EndScan
    PROVE  GroundInv'
<1> DEFINE text == Head(shell.texts)
<1>1. /\ shell.pc = "scanning"
      /\ UNCHANGED <<main, chat, disk, saving, reloads, heard>>
  BY DEF EndScan
<1>2. /\ pending' = IF ToPersist(text) = Nobody THEN pending
                    ELSE Append(pending, ToPersist(text))
      /\ \/ stores' = stores
         \/ stores' = [stores EXCEPT ![chat] = Absorbed(@, text, Speaker)]
      /\ shell' = IF Len(shell.texts) = 2 THEN [pc |-> "scan", texts |-> Tail(shell.texts)]
                  ELSE [pc |-> "idle"]
  BY DEF EndScan
<1>3. Queueing(shell.texts) /\ shell.seen \subseteq Grounded
  BY <1>1 DEF GroundInv, ShellInv
<1>4. heard \subseteq Texts /\ stores[chat] \subseteq Grounded
  BY DEF GroundInv
<1>5. Speaks(text, Speaker)
  BY <1>3, <1>4 DEF Queueing, Speaker, Speaks
<1>6. /\ Absorbed(stores[chat], text, Speaker) \subseteq Grounded
      /\ LastNew(Memory, text, Speaker) \in Grounded \cup {Nobody}
  BY <1>4, <1>5, AbsorbedGrounded, LastNewGrounded
<1>7. ToPersist(text) \in Grounded \cup {Nobody}
  BY <1>3, <1>6 DEF ToPersist
<1>8. Grounded' = Grounded
  BY <1>1 DEF Grounded
<1> HIDE DEF Grounded
<1>9. pending' \in Seq(Grounded)
  BY <1>2, <1>7 DEF GroundInv
<1>10. stores' \in Seq(SUBSET Grounded) /\ Len(stores') = Len(stores)
  <2>1. PICK new : new = Absorbed(stores[chat], text, Speaker)
    OBVIOUS
  <2>2. new \in SUBSET Grounded
    BY <1>6, <2>1
  <2>3. stores' = stores \/ stores' = [stores EXCEPT ![chat] = new]
    BY <1>2, <2>1
  <2> HIDE DEF text
  <2> QED
    BY <2>2, <2>3 DEF GroundInv
<1>11. ShellInv'
  <2>1. CASE Len(shell.texts) = 2
    <3>1. shell'.pc = "scan" /\ shell'.texts = Tail(shell.texts)
      BY <1>2, <2>1
    <3>2. Tail(shell.texts) \in Seq(Seq(Texts)) /\ Len(Tail(shell.texts)) = 1
      BY <1>3, <2>1 DEF Queueing
    <3>3. PICK tail \in Seq(Seq(Texts)) : tail = Tail(shell.texts) /\ Len(tail) = 1
      BY <3>2
    <3>4. Queueing(tail)'
      <4>1. Len(tail) = 1
        BY <3>3
      <4>2. Len(tail) \in {1, 2} /\ Len(tail) # 2
        BY <4>1
      <4> QED
        BY <4>2 DEF Queueing
    <3>5. Queueing(shell.texts)'
      BY <3>1, <3>3, <3>4 DEF Queueing
    <3> QED
      BY <3>1, <3>5 DEF ShellInv
  <2>2. CASE Len(shell.texts) # 2
    BY <1>2, <2>2 DEF ShellInv
  <2> QED
    BY <2>1, <2>2
<1> QED
  BY <1>1, <1>8, <1>9, <1>10, <1>11 DEF GroundInv

LEMMA RestartGrounded ==
    ASSUME GroundInv, Restart
    PROVE  GroundInv'
<1>1. PICK flushed \in {{}, Sentences(pending)} :
        disk' = disk \cup flushed /\ stores' = <<disk \cup flushed>>
  BY DEF Restart
<1>2. /\ main' = 1 /\ chat' = 1 /\ pending' = << >> /\ saving' = << >>
      /\ shell' = [pc |-> "idle"] /\ reloads' = [c \in Reloaders |-> [pc |-> "idle"]]
      /\ heard' = heard
  BY DEF Restart
<1>3. flushed \subseteq Grounded
  BY <1>1 DEF Sentences, GroundInv
<1>4. Grounded' = Grounded
  BY <1>2 DEF Grounded
<1> HIDE DEF Grounded
<1>5. disk' \in SUBSET Grounded /\ stores' \in Seq(SUBSET Grounded) /\ Len(stores') = 1
  BY <1>1, <1>3 DEF GroundInv
<1>6. pending' \in Seq(Grounded) /\ saving' \in Seq(Grounded) /\ ShellInv'
  BY <1>2 DEF ShellInv
<1> QED
  BY <1>2, <1>4, <1>5, <1>6 DEF GroundInv

LEMMA FlushGrounded ==
    ASSUME GroundInv, Flush
    PROVE  GroundInv'
<1>1. /\ UNCHANGED <<stores, main, chat, shell, reloads, heard>>
      /\ \/ saving' = pending /\ pending' = << >> /\ disk' = disk
         \/ /\ saving # << >> /\ saving' = Tail(saving) /\ pending' = pending
            /\ disk' \in {disk, disk \cup {Head(saving)}}
  BY DEF Flush, FlushTake, FlushSave, FlushFails
<1>2. Grounded' = Grounded
  BY <1>1 DEF Grounded
<1> HIDE DEF Grounded
<1>3. pending' \in Seq(Grounded) /\ saving' \in Seq(Grounded) /\ disk' \subseteq Grounded
  <2>1. pending \in Seq(Grounded) /\ saving \in Seq(Grounded) /\ disk \subseteq Grounded
    BY DEF GroundInv
  <2>2. CASE saving' = pending /\ pending' = << >> /\ disk' = disk
    BY <2>1, <2>2
  <2>3. CASE /\ saving # << >> /\ saving' = Tail(saving) /\ pending' = pending
             /\ disk' \in {disk, disk \cup {Head(saving)}}
    <3>1. Head(saving) \in Grounded /\ Tail(saving) \in Seq(Grounded)
      BY <2>1, <2>3
    <3> QED
      BY <2>1, <2>3, <3>1
  <2> QED
    BY <1>1, <2>2, <2>3
<1>4. ShellInv'
  BY <1>1, <1>2 DEF GroundInv, ShellInv, Queueing
<1> QED
  BY <1>1, <1>2, <1>3, <1>4 DEF GroundInv

LEMMA TellGrounded ==
    ASSUME GroundInv, NEW s \in Statements, TellOverMcp(s)
    PROVE  GroundInv'
<1>1. /\ heard' = heard \cup {s}
      /\ UNCHANGED <<main, chat, saving, shell, reloads>>
      /\ stores' = [stores EXCEPT ![main] = @ \cup {Said(s, "incoming")}]
      /\ disk' \in {disk, disk \cup {Said(s, "incoming")}}
      /\ pending' \in {pending, Append(pending, Said(s, "incoming"))}
  BY DEF TellOverMcp
<1>2. heard' \subseteq Texts /\ heard \subseteq heard' /\ s \in heard'
  BY <1>1 DEF GroundInv, Texts
<1>3. PICK t \in Grounded' : t = Said(s, "incoming")
  BY <1>2 DEF Grounded, Said
<1>4. stores \in Seq(SUBSET Grounded)' /\ disk \in SUBSET Grounded'
      /\ pending \in Seq(Grounded)' /\ saving \in Seq(Grounded)' /\ Grounded \subseteq Grounded'
  BY <1>2, MoreIsHeard
<1>5. PICK G : G = Grounded'
  OBVIOUS
<1>6. stores \in Seq(SUBSET G) /\ disk \in SUBSET G /\ pending \in Seq(G) /\ t \in G
  BY <1>3, <1>4, <1>5
<1>7. main \in 1..Len(stores)
  BY DEF GroundInv
<1>8. stores' \in Seq(SUBSET G) /\ Len(stores') = Len(stores)
      /\ disk' \subseteq G /\ pending' \in Seq(G)
  <2>1. stores[main] \cup {t} \in SUBSET G
    BY <1>6, <1>7
  <2> QED
    BY <1>1, <1>3, <1>6, <1>7, <2>1
<1>9. ShellInv'
  <2>1. Seq(heard) \subseteq Seq(heard')
    BY <1>2
  <2>2. ShellInv
    BY DEF GroundInv
  <2>3. \A texts : Queueing(texts) => Queueing(texts)'
    BY <2>1 DEF Queueing
  <2> QED
    BY <1>1, <1>2, <1>4, <2>1, <2>2, <2>3 DEF ShellInv
<1> QED
  BY <1>1, <1>2, <1>4, <1>5, <1>8, <1>9 DEF GroundInv

LEMMA ChangeGrounded ==
    ASSUME GroundInv, OneMemory, NEW c \in Reloaders, Change(c)
    PROVE  GroundInv'
<1>1. UNCHANGED <<pending, saving, shell, heard>>
  BY DEF Change, StartChange, CommitChange, NoChange, LoadStore, SwapStore
<1>2. Grounded' = Grounded
  BY <1>1 DEF Grounded
<1> HIDE DEF Grounded
<1>3. ShellInv'
  BY <1>1, <1>2 DEF GroundInv, ShellInv, Queueing
<1>4. disk' \subseteq Grounded
  BY DEF Change, StartChange, CommitChange, NoChange, LoadStore, SwapStore, GroundInv
<1>5. CASE LoadStore(c)
  <2>1. stores' = Append(stores, disk) /\ UNCHANGED <<main, chat>>
    BY <1>5 DEF LoadStore
  <2>2. stores' \in Seq(SUBSET Grounded) /\ Len(stores') = Len(stores) + 1
    BY <2>1 DEF GroundInv
  <2>3. \A d \in Reloaders : reloads'[d].pc = "swap" =>
           reloads'[d].fresh = Len(stores) + 1 \/ reloads'[d] = reloads[d]
    BY <1>5 DEF LoadStore, OneMemory
  <2>4. /\ chat' \in 1..Len(stores') /\ main' \in 1..Len(stores')
        /\ \A i \in 1..Len(stores) : i \in 1..Len(stores')
        /\ Len(stores) + 1 \in 1..Len(stores')
    BY <2>1, <2>2 DEF GroundInv
  <2>5. \A d \in Reloaders : reloads'[d].pc = "swap" => reloads'[d].fresh \in 1..Len(stores')
    BY <2>3, <2>4 DEF GroundInv
  <2> QED
    BY <1>1, <1>2, <1>3, <1>4, <2>2, <2>4, <2>5 DEF GroundInv
<1>6. CASE SwapStore(c)
  <2>1. /\ reloads[c].pc = "swap" /\ main' = reloads[c].fresh
        /\ chat' \in {chat, reloads[c].fresh} /\ UNCHANGED stores
    BY <1>6 DEF SwapStore, ChatAfterSwap
  <2>2. \A d \in Reloaders : reloads'[d].pc = "swap" => reloads'[d] = reloads[d]
    BY <1>6 DEF SwapStore, OneMemory
  <2> QED
    BY <1>1, <1>2, <1>3, <1>4, <2>1, <2>2 DEF GroundInv
<1>7. CASE CommitChange(c)
  <2>1. PICK new : new = [reloads[c] EXCEPT !.pc = "load"]
    OBVIOUS
  <2>2. reloads[c].pc = "commit" /\ reloads' = [reloads EXCEPT ![c] = new]
        /\ UNCHANGED <<stores, main, chat>>
    BY <1>7, <2>1 DEF CommitChange, OneMemory
  <2>3. new.pc = "load"
    BY <2>1, <2>2, ReloadsTyped DEF OneMemory
  <2>4. \A d \in Reloaders : reloads'[d].pc = "swap" => reloads'[d] = reloads[d]
    BY <2>2, <2>3 DEF OneMemory
  <2> QED
    BY <1>1, <1>2, <1>3, <1>4, <2>2, <2>4 DEF GroundInv
<1>8. CASE StartChange(c) \/ NoChange(c)
  <2>1. \A d \in Reloaders : reloads'[d].pc = "swap" => reloads'[d] = reloads[d]
    BY <1>8 DEF StartChange, NoChange, OneMemory
  <2>2. UNCHANGED <<stores, main, chat>>
    BY <1>8 DEF StartChange, NoChange
  <2> QED
    BY <1>1, <1>2, <1>3, <1>4, <2>1, <2>2 DEF GroundInv
<1> QED
  BY <1>5, <1>6, <1>7, <1>8 DEF Change

ChatInv == GroundInv /\ OneMemory

LEMMA ChatStep ==
    ASSUME ChatInv, [ChatNext]_chatVars
    PROVE  ChatInv'
<1>1. GroundInv /\ OneMemory
  BY DEF ChatInv
<1>2. ASSUME StartScan PROVE GroundInv'
  <2>1. /\ shell.pc = "scan" /\ UNCHANGED <<stores, main, chat, disk, pending, saving, reloads, heard>>
        /\ shell'.pc = "scanning" /\ shell'.texts = shell.texts /\ shell'.seen = Memory
    BY <1>2 DEF StartScan
  <2>2. Grounded' = Grounded /\ Memory \subseteq Grounded
    BY <1>1, <2>1 DEF Grounded, Memory, GroundInv
  <2> HIDE DEF Grounded
  <2>3. ShellInv'
    BY <1>1, <2>1, <2>2 DEF GroundInv, ShellInv, Queueing
  <2> QED
    BY <1>1, <2>1, <2>2, <2>3 DEF GroundInv
<1>3. ASSUME ScanFails \/ UNCHANGED chatVars PROVE GroundInv'
  <2>1. /\ UNCHANGED <<stores, main, chat, disk, pending, saving, reloads, heard>>
        /\ shell'.pc = "idle" \/ shell' = shell
    BY <1>3 DEF ScanFails, chatVars
  <2>2. Grounded' = Grounded
    BY <2>1 DEF Grounded
  <2> HIDE DEF Grounded
  <2>3. ShellInv'
    BY <1>1, <2>1, <2>2 DEF GroundInv, ShellInv, Queueing
  <2> QED
    BY <1>1, <2>1, <2>2, <2>3 DEF GroundInv
<1>4. GroundInv'
  BY <1>1, <1>2, <1>3, PerceiveGrounded, RespondGrounded, EndScanGrounded, RestartGrounded,
     FlushGrounded, TellGrounded, ChangeGrounded
     DEF ChatNext, Think
<1>5. Len(stores') \in Nat
  BY <1>4 DEF GroundInv
<1> QED
  BY <1>1, <1>4, <1>5, OneMemoryStep DEF ChatInv

LEMMA ChatStart == ChatInit => ChatInv
<1> SUFFICES ASSUME ChatInit PROVE ChatInv
  OBVIOUS
<1>1. [pc |-> "idle"] \in ReloadState
  BY DEF ReloadState
<1>2. stores = <<{}>> /\ Len(stores) = 1
  BY DEF ChatInit
<1>3. OneMemory
  BY <1>1, <1>2 DEF ChatInit, OneMemory
<1>4. {} \in SUBSET Grounded
  OBVIOUS
<1> HIDE DEF Grounded
<1>5. stores \in Seq(SUBSET Grounded) /\ ShellInv
  BY <1>2, <1>4 DEF ChatInit, ShellInv
<1> QED
  BY <1>2, <1>3, <1>5 DEF ChatInit, ChatInv, GroundInv

(* A fact that recall hands to the model is a sentence some user said: none *)
(* of Ada's answers comes back as one, through a scan, the queue, the disk, *)
(* a reload or a restart.                                                   *)
THEOREM AnswersAreGrounded == ChatSpec => []GroundedInUsers
<1>1. ChatInv => GroundedInUsers
  BY DEF ChatInv, GroundInv, ShellInv, GroundedInUsers
<1> QED
  BY ChatStart, ChatStep, <1>1, PTL DEF ChatSpec

(* The chat reads the store that the tools read, whatever changes at rest   *)
(* replace it, unless two of them overlapped.                               *)
THEOREM ChatFollowsMain == ChatSpec => []ChatSeesMain
<1>1. ChatInv => ChatSeesMain
  BY DEF ChatInv, OneMemory, ChatSeesMain
<1> QED
  BY ChatStart, ChatStep, <1>1, PTL DEF ChatSpec
-----------------------------------------------------------------------------
(* The read surface.  Every change keeps the rows of a booted server good:  *)
(* each live row has slot rows, the live versions of a key are told apart,  *)
(* and a live row counts as current only when no live version of its key is *)
(* newer.  Where the two modes are comparable, the current slot rows are    *)
(* then the rows of the thoughts that memory mode takes for current, and    *)
(* every query has one answer.                                              *)

\* Rows of a server that has booted.
GoodRows(S) ==
    /\ S \subseteq FactRow
    /\ \E n \in Nat : \A f \in S : f.version <= n
    /\ \A f \in S : ~f.archived => f.slotted /\ (f.key = Unkeyed => f.is_current)
    /\ \A f, g \in S :
          ~f.archived /\ ~g.archived /\ f.key = g.key /\ f.key # Unkeyed =>
             /\ f.is_current => g.version <= f.version
             /\ f.version = g.version => f = g

ReadsInv ==
    /\ storage \in Modes /\ writes \in Nat /\ up \in BOOLEAN
    /\ IF up THEN GoodRows(facts) ELSE facts \in OldTables
    /\ profiles \in {Unbuilt, BuiltProfiles}

\* A set without a bound would have a smallest subset without one.
LEMMA VersionsBounded ==
    ASSUME NEW S, IsFiniteSet(S), \A x \in S : x.version \in Nat
    PROVE  \E n \in Nat : \A x \in S : x.version <= n
<1> DEFINE Unbounded(T) == \A n \in Nat : \E x \in T : ~(x.version <= n)
           Sizes == {n \in Nat : \E T \in SUBSET S : Cardinality(T) = n /\ Unbounded(T)}
<1>1. SUFFICES ASSUME Unbounded(S) PROVE FALSE
  OBVIOUS
<1>2. Cardinality(S) \in Sizes
  BY <1>1, FS_CardinalityType
<1>3. PICK m \in Sizes : \A y \in Sizes : ~(<<y, m>> \in OpToRel(<, Nat))
  BY <1>2, NatLessThanWellFounded, WFMin
<1>4. \A y \in Sizes : ~(y < m)
  BY <1>3 DEF OpToRel
<1>5. PICK T \in SUBSET S : Cardinality(T) = m /\ Unbounded(T)
  OBVIOUS
<1>6. IsFiniteSet(T) /\ m \in Nat
  BY FS_Subset
<1>7. PICK x \in T : ~(x.version <= 0)
  BY <1>5
<1>8. m # 0
  BY <1>5, <1>6, <1>7, FS_EmptySet
<1>9. Cardinality(T \ {x}) = m - 1
  BY <1>5, <1>6, FS_RemoveElement
<1>10. ~Unbounded(T \ {x})
  BY <1>4, <1>6, <1>8, <1>9
<1>11. PICK n \in Nat : \A y \in T \ {x} : y.version <= n
  BY <1>10
<1>12. n + x.version \in Nat /\ \A y \in T : y.version <= n + x.version
  BY <1>11
<1> QED
  BY <1>5, <1>12

LEMMA BestVersion ==
    ASSUME NEW S, NEW n \in Nat, \A f \in S : f.version \in Nat /\ f.version <= n
    PROVE  /\ MaxVersion(S) \in Nat
           /\ \A f \in S : f.version <= MaxVersion(S)
           /\ MaxVersion(S) = 0 \/ \E f \in S : f.version = MaxVersion(S)
<1> DEFINE B == {f.version : f \in S} \cup {0}
           T == {n - b : b \in B}
<1>1. B \subseteq Nat /\ \A b \in B : b <= n
  OBVIOUS
<1>2. T \subseteq Nat /\ T # {}
  BY <1>1
<1>3. PICK x \in T : \A y \in T : ~(<<y, x>> \in OpToRel(<, Nat))
  BY <1>2, NatLessThanWellFounded, WFMin
<1>4. \A y \in T : ~(y < x)
  BY <1>2, <1>3 DEF OpToRel
<1>5. PICK m \in B : x = n - m
  OBVIOUS
<1>6. ASSUME NEW b \in B PROVE m >= b
  <2>1. ~(n - b < n - m) /\ b \in Nat /\ m \in Nat
    BY <1>1, <1>4, <1>5
  <2> QED
    BY <2>1
<1>7. Max(B) \in B /\ \A b \in B : Max(B) >= b
  BY <1>6 DEF Max
<1>8. MaxVersion(S) = Max(B)
  BY DEF MaxVersion
<1> HIDE DEF T
<1> QED
  BY <1>1, <1>7, <1>8

LEMMA NewestOfTwo ==
    ASSUME NEW a \in Nat, NEW b \in Nat
    PROVE  Max({a, b}) \in Nat /\ Max({a, b}) >= a /\ Max({a, b}) >= b
             /\ Max({a, b}) \in {a, b}
<1>1. \E x \in {a, b} : \A y \in {a, b} : x >= y
  OBVIOUS
<1>2. Max({a, b}) \in {a, b} /\ \A y \in {a, b} : Max({a, b}) >= y
  BY <1>1 DEF Max
<1> QED
  BY <1>2

-----------------------------------------------------------------------------
LEMMA FewerRows ==
    ASSUME NEW S, GoodRows(S), NEW T \in SUBSET S
    PROVE  GoodRows(T)
BY DEF GoodRows

LEMMA EditedRows ==
    ASSUME NEW S, GoodRows(S), NEW F \in [S -> FactRow],
           \A f \in S : /\ F[f].version = f.version /\ F[f].key = f.key
                        /\ ~F[f].archived =>
                              ~f.archived /\ F[f].slotted /\ F[f].is_current = f.is_current
    PROVE  GoodRows({F[f] : f \in S})
<1> DEFINE T == {F[f] : f \in S}
<1>1. T \subseteq FactRow
  OBVIOUS
<1>2. PICK n \in Nat : \A f \in S : f.version <= n
  BY DEF GoodRows
<1>3. \A f \in T : f.version <= n
  BY <1>2
<1>4. \A f \in T : ~f.archived => f.slotted /\ (f.key = Unkeyed => f.is_current)
  BY DEF GoodRows
<1>5. ASSUME NEW f \in T, NEW g \in T,
             ~f.archived /\ ~g.archived /\ f.key = g.key /\ f.key # Unkeyed
      PROVE  /\ f.is_current => g.version <= f.version
             /\ f.version = g.version => f = g
  <2>1. PICK x \in S, y \in S : f = F[x] /\ g = F[y]
    OBVIOUS
  <2>2. ~x.archived /\ ~y.archived /\ x.key = y.key /\ x.key # Unkeyed
          /\ f.is_current = x.is_current /\ f.version = x.version /\ g.version = y.version
    BY <1>5, <2>1
  <2>3. (x.is_current => y.version <= x.version) /\ (x.version = y.version => x = y)
    BY <2>2 DEF GoodRows
  <2> QED
    BY <2>1, <2>2, <2>3
<1> HIDE DEF T
<1>6. GoodRows(T)
  BY <1>1, <1>3, <1>4, <1>5 DEF GoodRows
<1> QED
  BY <1>6 DEF T

\* The first boot fills in the slot rows.
LEMMA UpgradedRows ==
    ASSUME ReadsInv, ~up
    PROVE  GoodRows(Backfilled)
<1>1. /\ IsFiniteSet(facts) /\ facts \subseteq FactRow
      /\ \A f \in facts : ~f.slotted /\ ~f.is_current
      /\ \A f, g \in InRam :
            f.key = g.key /\ f.key # Unkeyed /\ f.version = g.version => f = g
  BY OldTablesAssumption DEF ReadsInv, InRam
<1>2. \A f \in facts : f.version \in Nat
  BY <1>1 DEF FactRow
<1>3. PICK n \in Nat : \A f \in facts : f.version <= n
  BY <1>1, <1>2, VersionsBounded
<1> DEFINE Up(f) == IF f.archived THEN f
                    ELSE [f EXCEPT !.slotted = TRUE, !.is_current = InForce(f)]
           T == {Up(f) : f \in facts}
<1>4. Backfilled = T
  BY <1>1 DEF Backfilled, SlotRows
<1>5. ASSUME NEW f \in facts
      PROVE  /\ Up(f) \in FactRow /\ Up(f).version = f.version /\ Up(f).key = f.key
             /\ Up(f).archived = f.archived
             /\ ~f.archived => Up(f).slotted /\ Up(f).is_current = InForce(f)
  <2>1. f \in FactRow /\ InForce(f) \in BOOLEAN
    BY <1>1 DEF InForce
  <2> HIDE DEF Up
  <2>2. CASE f.archived
    BY <2>1, <2>2 DEF Up
  <2>3. CASE ~f.archived
    <3>1. Up(f) = [f EXCEPT !.slotted = TRUE, !.is_current = InForce(f)]
      BY <2>3 DEF Up
    <3> HIDE DEF Up
    <3> QED
      BY <2>1, <2>3, <3>1 DEF FactRow
  <2> QED
    BY <2>2, <2>3
<1> HIDE DEF Up
<1>6. ASSUME NEW f \in T, NEW g \in T,
             ~f.archived /\ ~g.archived /\ f.key = g.key /\ f.key # Unkeyed
      PROVE  /\ f.is_current => g.version <= f.version
             /\ f.version = g.version => f = g
  <2>1. PICK x \in facts, y \in facts : f = Up(x) /\ g = Up(y)
    OBVIOUS
  <2>2. x \in InRam /\ y \in InRam /\ x.key = y.key /\ x.key # Unkeyed
          /\ f.is_current = InForce(x) /\ f.version = x.version /\ g.version = y.version
    BY <1>5, <1>6, <2>1 DEF InRam
  <2>3. y \in Chain(InRam, x.key)
    BY <2>2 DEF Chain
  <2>4. y.version <= MaxVersion(Chain(InRam, x.key))
    <3>1. \A z \in Chain(InRam, x.key) : z.version \in Nat /\ z.version <= n
      BY <1>2, <1>3 DEF Chain, InRam
    <3> QED
      BY <2>3, <3>1, BestVersion
  <2> QED
    BY <1>1, <2>1, <2>2, <2>4 DEF InForce
<1>7. \A f \in T : f \in FactRow /\ f.version <= n
                    /\ (~f.archived => f.slotted /\ (f.key = Unkeyed => f.is_current))
  <2> SUFFICES ASSUME NEW f \in T
               PROVE  f \in FactRow /\ f.version <= n
                        /\ (~f.archived => f.slotted /\ (f.key = Unkeyed => f.is_current))
    OBVIOUS
  <2>1. PICK x \in facts : f = Up(x)
    OBVIOUS
  <2>2. x.key = Unkeyed => InForce(x)
    BY DEF InForce
  <2> QED
    BY <1>3, <1>5, <2>1, <2>2
<1> HIDE DEF T
<1>8. GoodRows(T)
  BY <1>6, <1>7 DEF GoodRows
<1> QED
  BY <1>4, <1>8

\* A later boot finds nothing to fill in.
LEMMA BootedRows ==
    ASSUME ReadsInv, up
    PROVE  Backfilled = facts
<1>1. CASE SlotRows # {}
  BY <1>1 DEF Backfilled
<1>2. CASE SlotRows = {}
  <2>1. \A f \in facts : f.archived
    BY <1>2 DEF SlotRows, ReadsInv, GoodRows
  <2>2. Backfilled = {f : f \in facts}
    BY <1>2, <2>1 DEF Backfilled
  <2> QED
    BY <2>2
<1> QED
  BY <1>1, <1>2

-----------------------------------------------------------------------------
LEMMA NewerRow ==
    ASSUME ReadsInv, NEW f \in FactsTold, NEW k \in ChainKeys \cup {Unkeyed},
           TellFact(f, k)
    PROVE  GoodRows(facts')
<1>1. GoodRows(facts) /\ up /\ writes \in Nat
  BY DEF TellFact, ReadsInv
<1>2. PICK n \in Nat : \A x \in facts : x.version <= n
  BY <1>1 DEF GoodRows
<1>3. facts \subseteq FactRow
  BY <1>1 DEF GoodRows
<1>4. \A x \in Chain(KnownFacts, k) : x.version \in Nat /\ x.version <= n
  BY <1>2, <1>3 DEF Chain, KnownFacts, InRam, FactRow
<1>5. PICK v \in Nat \ {0} :
         /\ v = IF k = Unkeyed THEN 1 ELSE MaxVersion(Chain(KnownFacts, k)) + 1
         /\ k # Unkeyed => \A x \in Chain(KnownFacts, k) : x.version < v
  <2>1. /\ MaxVersion(Chain(KnownFacts, k)) \in Nat
        /\ \A x \in Chain(KnownFacts, k) : x.version <= MaxVersion(Chain(KnownFacts, k))
    BY <1>4, BestVersion
  <2>2. PICK b \in Nat : b = MaxVersion(Chain(KnownFacts, k))
    BY <2>1
  <2>3. k # Unkeyed => \A x \in Chain(KnownFacts, k) : x.version < b + 1
    BY <1>4, <2>1, <2>2
  <2>4. CASE k = Unkeyed
    BY <2>4
  <2>5. CASE k # Unkeyed
    BY <2>2, <2>3, <2>5
  <2> QED
    BY <2>4, <2>5
<1>6. k # Unkeyed => \A x \in facts : ~x.archived /\ x.key = k => x.version < v
  BY <1>5 DEF Chain, KnownFacts, InRam
<1> DEFINE told == [id |-> writes, text |-> f.text, fill |-> f.fill,
                    key |-> k, version |-> v, archived |-> FALSE, slotted |-> TRUE,
                    is_current |-> TRUE]
           demoted(x) == k # Unkeyed /\ x.key = k /\ x.version < v
           F == [x \in facts |-> [x EXCEPT !.is_current = @ /\ ~demoted(x)]]
           T == {F[x] : x \in facts}
<1>7. facts' = {told} \cup T
  BY <1>5 DEF TellFact
<1>8. told \in FactRow /\ told.version = v /\ told.key = k /\ ~told.archived
        /\ told.slotted /\ told.is_current
  BY <1>1 DEF FactRow
<1>9. ASSUME NEW x \in facts
      PROVE  /\ F[x] \in FactRow /\ F[x].version = x.version /\ F[x].key = x.key
             /\ F[x].archived = x.archived /\ F[x].slotted = x.slotted
             /\ F[x].is_current = (x.is_current /\ ~demoted(x))
  <2>1. x \in FactRow /\ demoted(x) \in BOOLEAN
    BY <1>3
  <2>2. F[x] = [x EXCEPT !.is_current = @ /\ ~demoted(x)]
    OBVIOUS
  <2> HIDE DEF F, demoted
  <2> QED
    BY <2>1, <2>2 DEF FactRow
<1> HIDE DEF told, F
<1>10. \A y \in T : y \in FactRow /\ y.version <= n
                      /\ (~y.archived => y.slotted /\ (y.key = Unkeyed => y.is_current))
  <2> SUFFICES ASSUME NEW x \in facts
               PROVE  F[x] \in FactRow /\ F[x].version <= n
                        /\ (~F[x].archived =>
                               F[x].slotted /\ (F[x].key = Unkeyed => F[x].is_current))
    OBVIOUS
  <2>1. ~x.archived => x.slotted /\ (x.key = Unkeyed => x.is_current)
    BY <1>1 DEF GoodRows
  <2>2. x.key = Unkeyed => ~demoted(x)
    OBVIOUS
  <2> HIDE DEF demoted
  <2> QED
    BY <1>2, <1>9, <2>1, <2>2
<1>11. ASSUME NEW x \in facts, NEW y \in facts,
              ~F[x].archived /\ ~F[y].archived /\ F[x].key = F[y].key /\ F[x].key # Unkeyed
       PROVE  /\ F[x].is_current => F[y].version <= F[x].version
              /\ F[x].version = F[y].version => F[x] = F[y]
  <2>1. ~x.archived /\ ~y.archived /\ x.key = y.key /\ x.key # Unkeyed
          /\ (F[x].is_current => x.is_current)
    BY <1>9, <1>11
  <2>2. (x.is_current => y.version <= x.version) /\ (x.version = y.version => x = y)
    BY <1>1, <2>1 DEF GoodRows
  <2> QED
    BY <1>9, <2>1, <2>2
<1>12. ASSUME NEW x \in facts, ~F[x].archived, F[x].key = k, k # Unkeyed
       PROVE  F[x].version < v /\ ~F[x].is_current
  BY <1>6, <1>9, <1>12
<1>13. \A y \in T : ~y.archived /\ y.key = k /\ k # Unkeyed =>
                       y.version < v /\ ~y.is_current /\ y.version \in Nat
  <2> SUFFICES ASSUME NEW x \in facts, ~F[x].archived, F[x].key = k, k # Unkeyed
               PROVE  F[x].version < v /\ ~F[x].is_current /\ F[x].version \in Nat
    OBVIOUS
  <2> QED
    BY <1>9, <1>12 DEF FactRow
<1>14. \A x, y \in T :
          ~x.archived /\ ~y.archived /\ x.key = y.key /\ x.key # Unkeyed =>
             /\ x.is_current => y.version <= x.version
             /\ x.version = y.version => x = y
  BY <1>11
<1> HIDE DEF T
<1> DEFINE N == {told} \cup T
<1>15. N \subseteq FactRow
  BY <1>8, <1>10
<1>16. n + v \in Nat /\ \A y \in N : y.version <= n + v
  <2>1. \A y \in T : y.version \in Nat /\ y.version <= n
    BY <1>10 DEF FactRow
  <2> QED
    BY <1>8, <2>1
<1>17. \A y \in N : ~y.archived => y.slotted /\ (y.key = Unkeyed => y.is_current)
  BY <1>8, <1>10
<1>18. ASSUME NEW x \in N, NEW y \in N,
              ~x.archived /\ ~y.archived /\ x.key = y.key /\ x.key # Unkeyed
       PROVE  /\ x.is_current => y.version <= x.version
              /\ x.version = y.version => x = y
  <2>1. CASE x \in T /\ y \in T
    BY <1>14, <1>18, <2>1
  <2>2. CASE x \in T /\ y = told
    BY <1>8, <1>13, <1>18, <2>2
  <2>3. CASE x = told /\ y \in T
    BY <1>8, <1>13, <1>18, <2>3
  <2>4. CASE x = told /\ y = told
    BY <1>8, <2>4
  <2> QED
    BY <2>1, <2>2, <2>3, <2>4
<1> HIDE DEF N
<1>19. GoodRows(N)
  BY <1>15, <1>16, <1>17, <1>18 DEF GoodRows
<1> QED
  BY <1>7, <1>19 DEF N

LEMMA RowsAtRest ==
    ASSUME ReadsInv, up,
           \/ \E d \in Dimensions : ArchiveWhere(d)
           \/ \E f \in facts : ForgetFact(f) \/ \E new \in FactsTold : AmendFact(f, new)
           \/ \E k \in ChainKeys : ForgetChain(k)
           \/ \E e \in EntityNames : ForgetEntity(e)
    PROVE  GoodRows(facts')
<1>1. GoodRows(facts) /\ facts \subseteq FactRow
  BY DEF ReadsInv, GoodRows
<1>2. ASSUME NEW d \in Dimensions, ArchiveWhere(d) PROVE GoodRows(facts')
  <2>1. PICK ids : facts' = {IF f.id \in ids
                              THEN [f EXCEPT !.archived = TRUE, !.is_current = FALSE]
                              ELSE f : f \in facts}
    BY <1>2 DEF ArchiveWhere, AtRestChange
  <2> DEFINE F == [f \in facts |->
                     IF f.id \in ids THEN [f EXCEPT !.archived = TRUE, !.is_current = FALSE]
                     ELSE f]
  <2>2. facts' = {F[f] : f \in facts}
    BY <2>1
  <2>3. ASSUME NEW f \in facts
        PROVE  /\ F[f] \in FactRow
               /\ F[f].version = f.version /\ F[f].key = f.key
               /\ ~F[f].archived =>
                     ~f.archived /\ F[f].slotted /\ F[f].is_current = f.is_current
    <3>1. CASE f.id \in ids
      <4>1. F[f] = [f EXCEPT !.archived = TRUE, !.is_current = FALSE] /\ f \in FactRow
        BY <1>1, <3>1
      <4> HIDE DEF F
      <4> QED
        BY <4>1 DEF FactRow
    <3>2. CASE f.id \notin ids
      BY <1>1, <3>2 DEF GoodRows
    <3> QED
      BY <3>1, <3>2
  <2>4. F \in [facts -> FactRow]
    BY <2>3
  <2> HIDE DEF F
  <2>5. GoodRows({F[f] : f \in facts})
    BY <1>1, <2>3, <2>4, EditedRows
  <2> QED
    BY <2>2, <2>5
<1>3. ASSUME NEW f \in facts, NEW new \in FactsTold, AmendFact(f, new)
      PROVE  GoodRows(facts')
  <2> DEFINE E(x) == [x EXCEPT !.fill = new.fill,
                                !.is_current = @ \/ ~x.slotted, !.slotted = TRUE]
             F == [x \in facts |-> IF x = f THEN E(x) ELSE x]
  <2>1. facts' = {F[x] : x \in facts}
    BY <1>3 DEF AmendFact, AtRestChange
  <2>2. ASSUME NEW x \in facts
        PROVE  /\ F[x] \in FactRow
               /\ F[x].version = x.version /\ F[x].key = x.key
               /\ ~F[x].archived =>
                     ~x.archived /\ F[x].slotted /\ F[x].is_current = x.is_current
    <3>1. x \in FactRow /\ (~x.archived => x.slotted)
      BY <1>1 DEF GoodRows
    <3>2. CASE x = f
      <4>1. F[x] = E(x)
        BY <3>2
      <4>2. PICK b \in BOOLEAN : b = (x.is_current \/ ~x.slotted)
        OBVIOUS
      <4>3. x.is_current \in BOOLEAN /\ (~x.archived => b = x.is_current)
        BY <3>1, <4>2 DEF FactRow
      <4>4. F[x] = [x EXCEPT !.fill = new.fill, !.is_current = b, !.slotted = TRUE]
        BY <4>1, <4>2
      <4>5. new.fill \in {g.fill : g \in FactsTold}
        OBVIOUS
      <4> HIDE DEF F, E
      <4>6. /\ F[x] \in FactRow
            /\ F[x].version = x.version /\ F[x].key = x.key
            /\ F[x].archived = x.archived /\ F[x].slotted /\ F[x].is_current = b
        BY <3>1, <4>4, <4>5 DEF FactRow
      <4> QED
        BY <4>3, <4>6
    <3>3. CASE x # f
      BY <3>1, <3>3
    <3> QED
      BY <3>2, <3>3
  <2>3. F \in [facts -> FactRow]
    BY <2>2
  <2> HIDE DEF F
  <2>4. GoodRows({F[x] : x \in facts})
    BY <1>1, <2>2, <2>3, EditedRows
  <2> QED
    BY <2>1, <2>4
<1>4. ASSUME \/ \E f \in facts : ForgetFact(f)
             \/ \E k \in ChainKeys : ForgetChain(k)
             \/ \E e \in EntityNames : ForgetEntity(e)
      PROVE  facts' \in SUBSET facts
  BY <1>4 DEF ForgetFact, ForgetChain, ForgetEntity, AtRestChange
<1> QED
  BY <1>1, <1>2, <1>3, <1>4, FewerRows

LEMMA ReadsInvHolds == ReadsSpec => []ReadsInv
<1>1. ReadsInit => ReadsInv
  <2> SUFFICES ASSUME ReadsInit PROVE ReadsInv
    OBVIOUS
  <2>1. IsFiniteSet(facts)
    BY OldTablesAssumption DEF ReadsInit
  <2> QED
    BY <2>1, FS_CardinalityType DEF ReadsInit, ReadsInv
<1>2. ReadsInv /\ [ReadsNext]_readsVars => ReadsInv'
  <2> SUFFICES ASSUME ReadsInv, [ReadsNext]_readsVars PROVE ReadsInv'
    OBVIOUS
  <2> DEFINE Changes == \/ \E d \in Dimensions : ArchiveWhere(d)
                        \/ \E f \in facts :
                              ForgetFact(f) \/ \E new \in FactsTold : AmendFact(f, new)
                        \/ \E k \in ChainKeys : ForgetChain(k)
                        \/ \E e \in EntityNames : ForgetEntity(e)
  <2>1. ASSUME NEW f \in FactsTold, NEW k \in ChainKeys \cup {Unkeyed}, TellFact(f, k)
        PROVE  ReadsInv'
    <3>1. GoodRows(facts')
      BY <2>1, NewerRow
    <3>2. up /\ up' = up /\ storage' = storage /\ writes' = writes + 1 /\ profiles' = Unbuilt
      BY <2>1 DEF TellFact, AfterTell
    <3> QED
      BY <3>1, <3>2 DEF ReadsInv
  <2>2. CASE Changes
    <3>1. up /\ up' = up /\ storage' = storage /\ writes' = writes + 1 /\ profiles' = Unbuilt
      BY <2>2 DEF ArchiveWhere, ForgetFact, AmendFact, ForgetChain, ForgetEntity,
                  AtRestChange
    <3>2. GoodRows(facts')
      BY <2>2, <3>1, RowsAtRest
    <3> QED
      BY <3>1, <3>2 DEF ReadsInv
  <2>3. CASE ReadProfiles
    <3>1. BuiltProfiles' = BuiltProfiles
      BY <2>3 DEF ReadProfiles, BuiltProfiles, CurrentThoughts, InForce, InRam
    <3> QED
      BY <2>3, <3>1 DEF ReadProfiles, ReadsInv
  <2>4. CASE BootStore
    <3>1. GoodRows(Backfilled)
      BY UpgradedRows, BootedRows DEF ReadsInv
    <3> QED
      BY <2>4, <3>1 DEF BootStore, ReadsInv
  <2>5. CASE UNCHANGED readsVars
    <3>1. BuiltProfiles' = BuiltProfiles
      BY <2>5 DEF readsVars, BuiltProfiles, CurrentThoughts, InForce, InRam
    <3> QED
      BY <2>5, <3>1 DEF readsVars, ReadsInv
  <2> QED
    BY <2>1, <2>2, <2>3, <2>4, <2>5 DEF ReadsNext
<1> QED
  BY <1>1, <1>2, PTL DEF ReadsSpec

-----------------------------------------------------------------------------
LEMMA RamBest ==
    ASSUME ReadsInv, up, NEW k
    PROVE  /\ MaxVersion(Chain(InRam, k)) \in Nat
           /\ \A f \in Chain(InRam, k) : f.version <= MaxVersion(Chain(InRam, k))
           /\ \/ MaxVersion(Chain(InRam, k)) = 0
              \/ \E f \in Chain(InRam, k) : f.version = MaxVersion(Chain(InRam, k))
<1>1. PICK n \in Nat : \A f \in facts : f.version <= n
  BY DEF ReadsInv, GoodRows
<1>2. \A f \in Chain(InRam, k) : f.version \in Nat /\ f.version <= n
  BY <1>1 DEF Chain, InRam, ReadsInv, GoodRows, FactRow
<1> QED
  BY <1>1, <1>2, BestVersion

\* Where the modes are comparable they take the same rows for current.
LEMMA SameCurrent ==
    ASSUME ReadsInv, Comparable
    PROVE  CurrentRows = CurrentThoughts
<1>1. up /\ GoodRows(facts)
  BY DEF Comparable, ReadsInv
<1>2. \A f \in facts : f.version \in Nat
  BY <1>1 DEF GoodRows, FactRow
<1>3. ASSUME NEW f \in CurrentRows PROVE f \in CurrentThoughts
  <2>1. f \in InRam /\ f.is_current
    BY DEF Comparable, CurrentRows
  <2>2. CASE f.key = Unkeyed
    BY <2>1, <2>2 DEF CurrentThoughts, InForce
  <2>3. CASE f.key # Unkeyed
    <3>1. f \in Chain(InRam, f.key)
      BY <2>1 DEF Chain
    <3>2. PICK m \in Nat : m = MaxVersion(Chain(InRam, f.key))
      BY <1>1, RamBest
    <3>3. f.version <= m /\ (m = 0 \/ \E g \in Chain(InRam, f.key) : g.version = m)
      BY <1>1, <3>1, <3>2, RamBest
    <3>4. m <= f.version
      <4>1. CASE m = 0
        BY <1>2, <2>1, <4>1 DEF InRam
      <4>2. ASSUME NEW g \in Chain(InRam, f.key), g.version = m PROVE m <= f.version
        BY <1>1, <2>1, <2>3, <4>2 DEF Chain, InRam, GoodRows
      <4> QED
        BY <3>3, <4>1, <4>2
    <3>5. f.version = m
      BY <1>2, <2>1, <3>2, <3>3, <3>4 DEF InRam
    <3> QED
      BY <2>1, <3>2, <3>5 DEF CurrentThoughts, InForce
  <2> QED
    BY <2>2, <2>3
<1>4. ASSUME NEW f \in CurrentThoughts PROVE f \in CurrentRows
  <2>1. f \in InRam /\ f.slotted
    BY <1>1 DEF CurrentThoughts, InRam, GoodRows
  <2>2. CASE f.key = Unkeyed
    BY <1>1, <2>1, <2>2 DEF InRam, CurrentRows, SlotRows, GoodRows
  <2>3. CASE f.key # Unkeyed
    <3>1. PICK g \in CurrentRows : g \in InRam /\ g.key = f.key
      BY <2>1, <2>3 DEF Comparable, Chain
    <3>2. f.version = MaxVersion(Chain(InRam, f.key)) /\ g \in Chain(InRam, f.key)
      BY <2>3, <3>1 DEF CurrentThoughts, InForce, Chain
    <3>3. g.version <= f.version
      BY <1>1, <3>2, RamBest
    <3>4. f.version <= g.version
      BY <1>1, <2>1, <2>3, <3>1 DEF InRam, GoodRows, CurrentRows
    <3>5. f.version = g.version
      BY <1>2, <2>1, <3>1, <3>3, <3>4 DEF InRam
    <3>6. f = g
      BY <1>1, <2>1, <2>3, <3>1, <3>5 DEF InRam, GoodRows
    <3> QED
      BY <3>1, <3>6
  <2> QED
    BY <2>2, <2>3
<1> QED
  BY <1>3, <1>4

\* The name of a fact is its entity; only the subject may differ.
LEMMA NameIsEntity ==
    ASSUME NEW f, NameOf(f) # NoName
    PROVE  EntityOf(f) = NameOf(f)
BY DEF EntityOf

LEMMA RowEntity ==
    ASSUME NEW f \in FactRow
    PROVE  EntityOf(f) \in EntityNames \cup {NoName}
<1>1. PICK g \in FactsTold : g.fill = f.fill
  BY DEF FactRow
<1>2. EntityOf(g) = EntityOf(f)
  BY <1>1 DEF EntityOf, NameOf, Filling
<1> QED
  BY <1>2 DEF EntityNames

LEMMA NamedRows ==
    ASSUME ReadsInv, Comparable
    PROVE  /\ \A f \in CurrentRows : EntityOf(f) \in EntityNames \cup {NoName}
           /\ AllNamed => \A f \in CurrentRows : NameOf(f) = EntityOf(f)
<1>1. CurrentRows \subseteq FactRow
  BY DEF Comparable, ReadsInv, GoodRows, InRam
<1>2. \A f \in CurrentRows : EntityOf(f) \in EntityNames \cup {NoName}
  BY <1>1, RowEntity
<1>3. ASSUME AllNamed, NEW f \in CurrentRows PROVE NameOf(f) = EntityOf(f)
  <2>1. CASE EntityOf(f) = NoName
    BY <2>1, NameIsEntity
  <2>2. CASE EntityOf(f) # NoName
    BY <1>2, <1>3, <2>2 DEF AllNamed, Named
  <2> QED
    BY <2>1, <2>2
<1> QED
  BY <1>2, <1>3

LEMMA ProfileNames ==
    ASSUME ReadsInv, Comparable
    PROVE  /\ DOMAIN Profiles = {NameOf(f) : f \in CurrentRows} \ {NoName}
           /\ DOMAIN Profiles \subseteq EntityNames
<1>1. Profiles = BuiltProfiles /\ CurrentRows = CurrentThoughts
  BY SameCurrent DEF ReadsInv, Profiles
<1>2. DOMAIN Profiles = {NameOf(f) : f \in CurrentRows} \ {NoName}
  BY <1>1 DEF BuiltProfiles
<1>3. ASSUME NEW e \in DOMAIN Profiles PROVE e \in EntityNames
  <2>1. PICK f \in CurrentRows : e = NameOf(f) /\ e # NoName
    BY <1>2
  <2> QED
    BY <2>1, NameIsEntity, NamedRows
<1> QED
  BY <1>2, <1>3

LEMMA ProfileOf ==
    ASSUME ReadsInv, Comparable, NEW e \in DOMAIN Profiles
    PROVE  Profiles[e] = UNION {Dims(f) : f \in {x \in CurrentRows : NameOf(x) = e}}
<1>1. Profiles = BuiltProfiles /\ CurrentRows = CurrentThoughts
  BY SameCurrent DEF ReadsInv, Profiles
<1> QED
  BY <1>1 DEF BuiltProfiles

\* What the profile of an entity holds.
LEMMA InProfile ==
    ASSUME ReadsInv, Comparable, NEW e \in DOMAIN Profiles
    PROVE  /\ \A d : d \in Profiles[e] <=>
                       \E f \in CurrentRows : NameOf(f) = e /\ d \in Dims(f)
           /\ \A s, v : v \in FilledBy(e, s) <=>
                          \E f \in CurrentRows :
                             NameOf(f) = e /\ s \in DOMAIN f.fill /\ v = Norm[f.fill[s]]
<1>1. \A d : d \in Profiles[e] <=>
               \E f \in CurrentRows : NameOf(f) = e /\ d \in Dims(f)
  BY ProfileOf
<1>2. ASSUME NEW s, NEW v
      PROVE  v \in FilledBy(e, s) <=>
               \E f \in CurrentRows :
                  NameOf(f) = e /\ s \in DOMAIN f.fill /\ v = Norm[f.fill[s]]
  <2>1. v \in FilledBy(e, s) <=> \E d \in Profiles[e] : d[1] = s /\ d[2] = v
    BY DEF FilledBy
  <2>2. ASSUME NEW d \in Profiles[e], d[1] = s, d[2] = v
        PROVE  \E f \in CurrentRows :
                  NameOf(f) = e /\ s \in DOMAIN f.fill /\ v = Norm[f.fill[s]]
    <3>1. PICK f \in CurrentRows : NameOf(f) = e /\ d \in Dims(f)
      BY <1>1
    <3>2. PICK t \in DOMAIN f.fill : d = <<t, Norm[f.fill[t]]>>
      BY <3>1 DEF Dims
    <3> QED
      BY <2>2, <3>1, <3>2
  <2>3. ASSUME NEW f \in CurrentRows, NameOf(f) = e, s \in DOMAIN f.fill,
               v = Norm[f.fill[s]]
        PROVE  \E d \in Profiles[e] : d[1] = s /\ d[2] = v
    <3>1. <<s, v>> \in Profiles[e]
      BY <1>1, <2>3 DEF Dims
    <3>2. <<s, v>>[1] = s /\ <<s, v>>[2] = v
      OBVIOUS
    <3> QED
      BY <3>1, <3>2
  <2> QED
    BY <2>1, <2>2, <2>3
<1> QED
  BY <1>1, <1>2

-----------------------------------------------------------------------------
\* Whom a query on the slot rows finds.
LEMMA InSlotRows ==
    ASSUME NEW e, NEW d
    PROVE  /\ e \in SqlEntities(RowsWith(d)) <=>
                e # NoName /\ \E f \in CurrentRows : EntityOf(f) = e /\ d \in Dims(f)
           /\ \A s : e \in SqlEntities(RowsFilling(s)) <=>
                e # NoName /\ \E f \in CurrentRows : EntityOf(f) = e /\ s \in DOMAIN f.fill
BY DEF SqlEntities, RowsWith, RowsFilling

LEMMA WhoAgrees ==
    ASSUME ReadsInv, Comparable, NEW c \in Conditions
    PROVE  /\ RamWho(c) \subseteq SqlWho(c)
           /\ \A e \in SqlWho(c) \ RamWho(c) : ~Named(e)
<1>1. c # {}
  BY DEF Conditions
<1>2. ASSUME NEW e \in RamWho(c) PROVE e \in SqlWho(c)
  <2>1. e \in DOMAIN Profiles /\ c \subseteq Profiles[e]
    BY DEF RamWho
  <2>2. e \in EntityNames /\ e # NoName
    BY <2>1, ProfileNames
  <2>3. ASSUME NEW d \in c PROVE e \in SqlEntities(RowsWith(d))
    <3>1. PICK f \in CurrentRows : NameOf(f) = e /\ d \in Dims(f)
      BY <2>1, InProfile
    <3> QED
      BY <2>2, <3>1, NameIsEntity, InSlotRows
  <2> QED
    BY <2>2, <2>3 DEF SqlWho
<1>3. ASSUME NEW e \in SqlWho(c), Named(e) PROVE e \in RamWho(c)
  <2>1. \A d \in c : e # NoName /\ \E f \in CurrentRows : EntityOf(f) = e /\ d \in Dims(f)
    BY InSlotRows DEF SqlWho
  <2>2. \A d \in c : e # NoName /\ \E f \in CurrentRows : NameOf(f) = e /\ d \in Dims(f)
    BY <1>3, <2>1 DEF Named
  <2>3. e \in DOMAIN Profiles
    BY <1>1, <2>2, ProfileNames
  <2> QED
    BY <2>2, <2>3, InProfile DEF RamWho
<1> QED
  BY <1>2, <1>3

LEMMA WhoSame ==
    ASSUME ReadsInv, Comparable, AllNamed, NEW c \in Conditions
    PROVE  SqlWho(c) = RamWho(c)
BY WhoAgrees DEF AllNamed, SqlWho

LEMMA CountNotAgrees ==
    ASSUME ReadsInv, Comparable, AllNamed, NEW d \in Dimensions
    PROVE  SqlCountNot(d) = RamCountNot(d)
<1>1. \A f \in CurrentRows : NameOf(f) = EntityOf(f)
  BY NamedRows
<1> DEFINE Left == SqlEntities(RowsFilling(d[1])) \ SqlEntities(RowsWith(d))
           Right == {e \in DOMAIN Profiles : FilledBy(e, d[1]) # {} /\ d \notin Profiles[e]}
<1>2. ASSUME NEW e \in Left PROVE e \in Right
  <2>1. e # NoName
    BY InSlotRows
  <2>2. PICK f \in CurrentRows : NameOf(f) = e /\ d[1] \in DOMAIN f.fill
    BY <1>1, InSlotRows
  <2>3. e \in DOMAIN Profiles
    BY <2>1, <2>2, ProfileNames
  <2>4. Norm[f.fill[d[1]]] \in FilledBy(e, d[1])
    BY <2>2, <2>3, InProfile
  <2>5. d \notin Profiles[e]
    BY <1>1, <2>1, <2>3, InProfile, InSlotRows
  <2> QED
    BY <2>3, <2>4, <2>5
<1>3. ASSUME NEW e \in Right PROVE e \in Left
  <2>1. e \in DOMAIN Profiles /\ FilledBy(e, d[1]) # {} /\ d \notin Profiles[e]
    OBVIOUS
  <2>2. e # NoName
    BY <2>1, ProfileNames
  <2>3. PICK v : v \in FilledBy(e, d[1])
    BY <2>1
  <2>4. PICK f \in CurrentRows : NameOf(f) = e /\ d[1] \in DOMAIN f.fill
    BY <2>1, <2>3, InProfile
  <2>5. e \in SqlEntities(RowsFilling(d[1]))
    BY <1>1, <2>2, <2>4, InSlotRows
  <2>6. e \notin SqlEntities(RowsWith(d))
    BY <1>1, <2>1, InProfile, InSlotRows
  <2> QED
    BY <2>5, <2>6
<1>4. Left = Right
  BY <1>2, <1>3
<1> QED
  BY <1>4 DEF SqlCountNot, RamCountNot

LEMMA LookupAgrees ==
    ASSUME ReadsInv, Comparable, NEW e \in EntityNames, NEW s
    PROVE  /\ RamLookup(e, s) \subseteq SqlLookup(e, s)
           /\ Named(e) => RamLookup(e, s) = SqlLookup(e, s)
<1>1. e # NoName
  BY DEF EntityNames
<1>2. \A v : v \in SqlLookup(e, s) <=>
               \E f \in CurrentRows :
                  EntityOf(f) = e /\ s \in DOMAIN f.fill /\ v = Norm[f.fill[s]]
  BY DEF SqlLookup, RowsFilling
<1>3. \A v : v \in RamLookup(e, s) <=>
               \E f \in CurrentRows :
                  NameOf(f) = e /\ s \in DOMAIN f.fill /\ v = Norm[f.fill[s]]
  <2>1. CASE e \in DOMAIN Profiles
    BY <2>1, InProfile DEF RamLookup
  <2>2. CASE e \notin DOMAIN Profiles
    <3>1. \A f \in CurrentRows : NameOf(f) # e
      BY <1>1, <2>2, ProfileNames
    <3> QED
      BY <2>2, <3>1 DEF RamLookup
  <2> QED
    BY <2>1, <2>2
<1>4. RamLookup(e, s) \subseteq SqlLookup(e, s)
  BY <1>1, <1>2, <1>3, NameIsEntity
<1>5. Named(e) => SqlLookup(e, s) \subseteq RamLookup(e, s)
  BY <1>2, <1>3 DEF Named
<1> QED
  BY <1>4, <1>5

LEMMA ViewAgrees ==
    ASSUME ReadsInv, Comparable
    PROVE  /\ DOMAIN Profiles \subseteq DOMAIN SqlView
           /\ \A e \in DOMAIN Profiles : Profiles[e] \subseteq SqlView[e]
           /\ AllNamed => SqlView = Profiles
<1>1. DOMAIN SqlView = {EntityOf(f) : f \in CurrentRows} \ {NoName}
  BY DEF SqlView, SqlEntities
<1>2. \A e \in DOMAIN SqlView :
         SqlView[e] = UNION {Dims(f) : f \in {x \in CurrentRows : EntityOf(x) = e}}
  BY DEF SqlView
<1>3. ASSUME NEW e \in DOMAIN Profiles
      PROVE  e \in DOMAIN SqlView /\ Profiles[e] \subseteq SqlView[e]
  <2>1. e # NoName /\ e \in DOMAIN SqlView
    BY <1>1, ProfileNames, NameIsEntity
  <2>2. ASSUME NEW d \in Profiles[e] PROVE d \in SqlView[e]
    <3>1. PICK f \in CurrentRows : NameOf(f) = e /\ d \in Dims(f)
      BY InProfile
    <3>2. EntityOf(f) = e
      BY <2>1, <3>1, NameIsEntity
    <3> QED
      BY <1>2, <2>1, <3>1, <3>2
  <2> QED
    BY <2>1, <2>2
<1>4. ASSUME AllNamed PROVE SqlView = Profiles
  <2>1. \A f \in CurrentRows : NameOf(f) = EntityOf(f)
    BY <1>4, NamedRows
  <2>2. {EntityOf(f) : f \in CurrentRows} = {NameOf(f) : f \in CurrentRows}
    BY <2>1
  <2>3. \A e : {x \in CurrentRows : EntityOf(x) = e} = {x \in CurrentRows : NameOf(x) = e}
    BY <2>1
  <2>4. Profiles = [e \in {NameOf(f) : f \in CurrentRows} \ {NoName} |->
                       UNION {Dims(f) : f \in {x \in CurrentRows : NameOf(x) = e}}]
    BY SameCurrent DEF ReadsInv, Profiles, BuiltProfiles
  <2>5. SqlView = [e \in {EntityOf(f) : f \in CurrentRows} \ {NoName} |->
                      UNION {Dims(f) : f \in {x \in CurrentRows : EntityOf(x) = e}}]
    BY DEF SqlView, SqlEntities
  <2> QED
    BY <2>2, <2>3, <2>4, <2>5
<1> QED
  BY <1>3, <1>4

LEMMA PreviousAgrees ==
    ASSUME ReadsInv, Comparable, NEW k, NEW s, Complete(k, s)
    PROVE  SqlPrevious(k, s) = {Norm[v] : v \in RamPrevious(k, s)}
<1> DEFINE K == Chain(facts, k)
<1>1. GoodRows(facts) /\ up
  BY DEF Comparable, ReadsInv
<1>2. Chain(InRam, k) = K /\ {f \in Chain(SlotRows, k) : s \in DOMAIN f.fill} = K
  BY DEF Complete, Chain, InRam, SlotRows
<1>3. PICK m \in Nat : m = MaxVersion(K)
  BY <1>1, <1>2, RamBest
<1>4. \A f \in K : f.version \in Nat \ {0} /\ f.version <= m /\ s \in DOMAIN f.fill
  BY <1>1, <1>2, <1>3, RamBest DEF Complete, Chain, GoodRows, FactRow
<1>5. {f.version : f \in K} = 1..m
  BY <1>3 DEF Complete
<1> DEFINE before == {f \in K : f.version < m}
<1>6. \A f \in before : f.version \in Nat /\ f.version <= m
  BY <1>4
<1>7. PICK b \in Nat : b = MaxVersion(before)
  BY <1>6, BestVersion
<1>8. (\A f \in before : f.version <= b) /\ (b = 0 \/ \E f \in before : f.version = b)
  BY <1>6, <1>7, BestVersion
<1>9. \A f \in K : f.version + 1 = m <=> f \in before /\ f.version = b
  <2>1. ASSUME NEW f \in K, f.version + 1 = m PROVE f \in before /\ f.version = b
    <3>1. f \in before /\ f.version <= b
      BY <1>3, <1>4, <1>8, <2>1
    <3>2. \A g \in before : g.version <= f.version
      BY <1>3, <1>4, <2>1
    <3> QED
      BY <1>4, <1>7, <1>8, <3>1, <3>2
  <2>2. ASSUME NEW f \in K, f \in before, f.version = b PROVE f.version + 1 = m
    <3>1. m - 1 \in 1..m
      BY <1>3, <1>4, <2>2
    <3>2. PICK g \in K : g.version = m - 1
      BY <1>5, <3>1
    <3>3. g \in before
      BY <1>3, <3>2
    <3>4. m - 1 <= b /\ b < m
      BY <1>8, <2>2, <3>2, <3>3
    <3> QED
      BY <1>3, <1>7, <2>2, <3>4
  <2> QED
    BY <2>1, <2>2
<1>10. SqlPrevious(k, s) = {Norm[f.fill[s]] : f \in {x \in K : x.version + 1 = m}}
  BY <1>2, <1>3 DEF SqlPrevious
<1>11. RamPrevious(k, s) = {f.fill[s] : f \in {x \in before : x.version = b
                                                  /\ s \in DOMAIN x.fill}}
  BY <1>2, <1>3, <1>7 DEF RamPrevious
<1>12. {x \in K : x.version + 1 = m} = {x \in before : x.version = b /\ s \in DOMAIN x.fill}
  BY <1>4, <1>9
<1> QED
  BY <1>10, <1>11, <1>12

(* Over the same tables, after any tells, amendments, archivals and         *)
(* deletions, and whatever the profile cache was built from, the closed     *)
(* operations of SqlFactStore and of ThoughtSpace give the same answers     *)
(* about the entities that their facts name as such, and memory mode never  *)
(* tells of an entity what sql mode does not.                               *)
THEOREM ModesAnswerAlike == ReadsSpec => []ModesAgree
<1>1. ReadsInv => ModesAgree
  <2> SUFFICES ASSUME ReadsInv, Comparable PROVE ModesAgree
    BY DEF ModesAgree
  <2>1. CurrentRows = CurrentThoughts
    BY SameCurrent
  <2>2. ASSUME AllNamed, NEW c \in Conditions, Cardinality(c) > 1
        PROVE  SqlCount(c) = RamCount(c)
    <3>1. SqlWho(c) = RamWho(c) /\ Cardinality(c) # 1
      BY <2>2, WhoSame
    <3> QED
      BY <3>1 DEF SqlCount, RamCount
  <2>3. \A d \in Dimensions : SqlCountWhere(d) = RamCountWhere(d)
    BY <2>1 DEF SqlCountWhere, RamCountWhere, RowsWith
  <2>4. SqlKeyed = RamKeyed
    BY <2>1 DEF SqlKeyed, RamKeyed
  <2>5. \A c \in Conditions :
           RamWho(c) \subseteq SqlWho(c) /\ \A e \in SqlWho(c) \ RamWho(c) : ~Named(e)
    BY WhoAgrees
  <2>6. \A e \in EntityNames, s \in Slots :
           /\ RamLookup(e, s) \subseteq SqlLookup(e, s)
           /\ Named(e) => RamLookup(e, s) = SqlLookup(e, s)
    BY LookupAgrees
  <2>7. AllNamed => \A d \in Dimensions : SqlCountNot(d) = RamCountNot(d)
    BY CountNotAgrees
  <2>8. \A k \in ChainKeys, s \in Slots :
           Complete(k, s) => SqlPrevious(k, s) = {Norm[v] : v \in RamPrevious(k, s)}
    BY PreviousAgrees
  <2> QED
    BY <2>2, <2>3, <2>4, <2>5, <2>6, <2>7, <2>8, ViewAgrees DEF ModesAgree
<1> QED
  BY <1>1, ReadsInvHolds, PTL

(* Whatever rows the words of a query bring up, recall_thoughts of          *)
(* SqlFactStore returns only facts that are current, and all of them that   *)
(* no slot rows of the archive outrank.                                     *)
THEOREM RecallReturnsBelief == ReadsSpec => []RecallIsCurrentBelief
<1>1. ReadsInv => RecallIsCurrentBelief
  <2> SUFFICES ASSUME ReadsInv, Comparable
               PROVE  /\ \A candidates \in SUBSET CandidateRows :
                            SqlRecall(candidates) \subseteq RamRecall
                      /\ NoneOutranked => SqlRecall(CandidateRows) = RamRecall
    BY DEF RecallIsCurrentBelief
  <2>1. CurrentRows = CurrentThoughts /\ CandidateRows = InRam
    BY SameCurrent DEF CandidateRows, Comparable
  <2>2. up /\ GoodRows(facts)
    BY DEF Comparable, ReadsInv
  <2>3. PICK n \in Nat : \A f \in facts : f.version <= n
    BY <2>2 DEF GoodRows
  <2>4. \A f \in facts : f.version \in Nat
    BY <2>2 DEF GoodRows, FactRow
  <2>5. InRam \subseteq SlotRows /\ SlotRows \subseteq facts
    BY <2>2 DEF InRam, SlotRows, GoodRows
  <2>6. ASSUME NEW candidates \in SUBSET InRam, NEW k
        PROVE  /\ NewestVersion(k, candidates) \in Nat
               /\ \A g \in Chain(SlotRows, k) : g.version <= NewestVersion(k, candidates)
               /\ \/ NewestVersion(k, candidates) = 0
                  \/ \E g \in Chain(SlotRows, k) : g.version = NewestVersion(k, candidates)
    <3>1. PICK a \in Nat : /\ a = MaxVersion(Chain(candidates, k))
                           /\ a = 0 \/ \E g \in Chain(candidates, k) : g.version = a
      <4>1. \A f \in Chain(candidates, k) : f.version \in Nat /\ f.version <= n
        BY <2>3, <2>4, <2>5 DEF Chain
      <4> QED
        BY <4>1, BestVersion
    <3>2. PICK b \in Nat : /\ b = MaxVersion(Chain(SlotRows, k))
                           /\ b = 0 \/ \E g \in Chain(SlotRows, k) : g.version = b
                           /\ \A g \in Chain(SlotRows, k) : g.version <= b
      <4>1. \A f \in Chain(SlotRows, k) : f.version \in Nat /\ f.version <= n
        BY <2>3, <2>4, <2>5 DEF Chain
      <4> QED
        BY <4>1, BestVersion
    <3>3. PICK w \in Nat : w = NewestVersion(k, candidates) /\ w >= b /\ w \in {a, b}
      BY <3>1, <3>2, NewestOfTwo DEF NewestVersion
    <3>4. Chain(candidates, k) \subseteq Chain(SlotRows, k)
      BY <2>5 DEF Chain
    <3>5. \A g \in Chain(SlotRows, k) : g.version \in Nat
      BY <2>4, <2>5 DEF Chain
    <3>6. \A g \in Chain(SlotRows, k) : g.version <= w
      BY <3>2, <3>3, <3>5
    <3>7. w = 0 \/ \E g \in Chain(SlotRows, k) : g.version = w
      BY <3>1, <3>2, <3>3, <3>4
    <3> QED
      BY <3>3, <3>6, <3>7
  <2>7. ASSUME NEW candidates \in SUBSET CandidateRows, NEW f \in SqlRecall(candidates)
        PROVE  f \in RamRecall
    <3>1. f \in InRam /\ (f.key # Unkeyed => f.version >= NewestVersion(f.key, candidates))
      BY <2>1 DEF SqlRecall
    <3>2. CASE f.key = Unkeyed
      BY <3>1, <3>2 DEF RamRecall, CurrentThoughts, InForce
    <3>3. CASE f.key # Unkeyed
      <4>1. PICK w \in Nat : /\ w = NewestVersion(f.key, candidates)
                             /\ \A g \in Chain(SlotRows, f.key) : g.version <= w
        BY <2>1, <2>6
      <4>2. PICK m \in Nat :
               /\ m = MaxVersion(Chain(InRam, f.key))
               /\ \A g \in Chain(InRam, f.key) : g.version <= m
               /\ m = 0 \/ \E g \in Chain(InRam, f.key) : g.version = m
        BY <2>2, RamBest
      <4>3. f \in Chain(InRam, f.key) /\ Chain(InRam, f.key) \subseteq Chain(SlotRows, f.key)
        BY <2>5, <3>1 DEF Chain
      <4>4. f.version \in Nat /\ f.version <= m /\ f.version >= w
        BY <2>4, <3>1, <3>3, <4>1, <4>2, <4>3 DEF InRam
      <4>5. m <= w
        BY <4>1, <4>2, <4>3
      <4>6. f.version = m
        BY <4>4, <4>5
      <4> QED
        BY <3>1, <4>2, <4>6 DEF RamRecall, CurrentThoughts, InForce
    <3> QED
      BY <3>2, <3>3
  <2>8. ASSUME NoneOutranked, NEW f \in RamRecall PROVE f \in SqlRecall(CandidateRows)
    <3>1. f \in CurrentRows /\ f \in InRam
      BY <2>1 DEF RamRecall, CurrentThoughts
    <3>2. CASE f.key = Unkeyed
      BY <2>1, <3>1, <3>2 DEF SqlRecall
    <3>3. CASE f.key # Unkeyed
      <4>1. PICK w \in Nat :
               /\ w = NewestVersion(f.key, CandidateRows)
               /\ w = 0 \/ \E g \in Chain(SlotRows, f.key) : g.version = w
        BY <2>1, <2>6
      <4>2. \A g \in Chain(SlotRows, f.key) : g.version <= f.version
        BY <2>8, <3>1, <3>3 DEF NoneOutranked, Chain
      <4>3. f.version >= w
        BY <2>4, <3>1, <4>1, <4>2 DEF InRam
      <4> QED
        BY <2>1, <3>1, <4>1, <4>3 DEF SqlRecall
    <3> QED
      BY <3>2, <3>3
  <2> QED
    BY <2>7, <2>8
<1> QED
  BY <1>1, ReadsInvHolds, PTL

-----------------------------------------------------------------------------
(* Slot rows outrank a current version only when the archive of a database  *)
(* older than fact_slots was amended: without one, every row has slot rows, *)
(* and no version of a key is newer than its current one.                   *)

Ranked(S) ==
    /\ \A f \in S : f.slotted
    /\ \A f, g \in S :
          f.is_current /\ f.key = g.key /\ f.key # Unkeyed => g.version <= f.version

RankedInv == ReadsInv /\ (storage = "sql" /\ up => Ranked(facts))

LEMMA RankedEdits ==
    ASSUME NEW S, Ranked(S), NEW F \in [S -> FactRow],
           \A f \in S : /\ F[f].version = f.version /\ F[f].key = f.key /\ F[f].slotted
                        /\ F[f].is_current => f.is_current
    PROVE  Ranked({F[f] : f \in S})
BY DEF Ranked

LEMMA RankedNewer ==
    ASSUME RankedInv, storage = "sql", NEW f \in FactsTold,
           NEW k \in ChainKeys \cup {Unkeyed}, TellFact(f, k)
    PROVE  Ranked(facts')
<1>1. Ranked(facts) /\ GoodRows(facts) /\ KnownFacts = facts
  BY DEF TellFact, RankedInv, ReadsInv, KnownFacts
<1>2. PICK n \in Nat : \A x \in facts : x.version <= n
  BY <1>1 DEF GoodRows
<1>3. facts \subseteq FactRow /\ \A x \in facts : x.version \in Nat
  BY <1>1 DEF GoodRows, FactRow
<1>4. PICK v \in Nat :
         /\ v = IF k = Unkeyed THEN 1 ELSE MaxVersion(Chain(KnownFacts, k)) + 1
         /\ k # Unkeyed => \A x \in facts : x.key = k => x.version < v
  <2>1. \A x \in Chain(facts, k) : x.version \in Nat /\ x.version <= n
    BY <1>2, <1>3 DEF Chain
  <2>2. PICK b \in Nat : b = MaxVersion(Chain(facts, k))
                         /\ \A x \in Chain(facts, k) : x.version <= b
    BY <2>1, BestVersion
  <2>3. \A x \in Chain(facts, k) : x.version < b + 1
    BY <2>1, <2>2
  <2>4. CASE k = Unkeyed
    BY <2>4
  <2>5. CASE k # Unkeyed
    <3>1. \A x \in facts : x.key = k => x.version < b + 1
      BY <2>3 DEF Chain
    <3>2. b + 1 \in Nat /\ b + 1 = MaxVersion(Chain(KnownFacts, k)) + 1
      BY <1>1, <2>2
    <3> QED
      BY <2>5, <3>1, <3>2
  <2> QED
    BY <2>4, <2>5
<1> DEFINE told == [id |-> writes, text |-> f.text, fill |-> f.fill,
                    key |-> k, version |-> v, archived |-> FALSE, slotted |-> TRUE,
                    is_current |-> TRUE]
           demoted(x) == k # Unkeyed /\ x.key = k /\ x.version < v
           F == [x \in facts |-> [x EXCEPT !.is_current = @ /\ ~demoted(x)]]
           T == {F[x] : x \in facts}
<1>5. facts' = {told} \cup T
  BY <1>4 DEF TellFact
<1>6. told.version = v /\ told.key = k /\ told.slotted
  OBVIOUS
<1>7. ASSUME NEW x \in facts
      PROVE  /\ F[x] \in FactRow /\ F[x].version = x.version /\ F[x].key = x.key
             /\ F[x].slotted /\ (F[x].is_current => x.is_current /\ ~demoted(x))
  <2>1. x \in FactRow /\ x.slotted /\ demoted(x) \in BOOLEAN
    BY <1>1, <1>3 DEF Ranked
  <2>2. F[x] = [x EXCEPT !.is_current = @ /\ ~demoted(x)]
    OBVIOUS
  <2> HIDE DEF F, demoted
  <2> QED
    BY <2>1, <2>2 DEF FactRow
<1>8. \A x \in facts : F[x].is_current /\ k # Unkeyed => F[x].key # k
  BY <1>4, <1>7
<1> HIDE DEF told, F, demoted
<1>9. Ranked(T)
  <2>1. F \in [facts -> FactRow]
    BY <1>7 DEF F
  <2> QED
    BY <1>1, <1>7, <2>1, RankedEdits
<1>10. \A x \in T : (x.is_current /\ k # Unkeyed => x.key # k)
                     /\ (x.key = k /\ k # Unkeyed => x.version < v /\ x.version \in Nat)
  BY <1>3, <1>4, <1>7, <1>8
<1> HIDE DEF T
<1> QED
  BY <1>5, <1>6, <1>4, <1>9, <1>10 DEF Ranked

(* A database that holds no archived facts from before fact_slots: recall   *)
(* in sql mode then returns every current fact its words bring up.          *)
THEOREM RecallReturnsAll ==
    ASSUME \A old \in OldTables : \A f \in old : ~f.archived
    PROVE  ReadsSpec =>
             [](storage = "sql" /\ Comparable => SqlRecall(CandidateRows) = RamRecall)
<1>1. ReadsInit => RankedInv
  <2> SUFFICES ASSUME ReadsInit PROVE RankedInv
    OBVIOUS
  <2>1. IsFiniteSet(facts)
    BY OldTablesAssumption DEF ReadsInit
  <2> QED
    BY <2>1, FS_CardinalityType DEF ReadsInit, ReadsInv, RankedInv
<1>2. RankedInv /\ ReadsInv' /\ [ReadsNext]_readsVars => RankedInv'
  <2> SUFFICES ASSUME RankedInv, ReadsInv', [ReadsNext]_readsVars,
                      storage' = "sql", up'
               PROVE  Ranked(facts')
    BY DEF RankedInv
  <2>1. storage = "sql" /\ ReadsInv
    BY DEF ReadsNext, readsVars, TellFact, ArchiveWhere, ForgetFact, AmendFact,
           ForgetChain, ForgetEntity, AtRestChange, ReadProfiles, BootStore, RankedInv
  <2>2. ASSUME NEW f \in FactsTold, NEW k \in ChainKeys \cup {Unkeyed}, TellFact(f, k)
        PROVE  Ranked(facts')
    BY <2>1, <2>2, RankedNewer
  <2>3. ASSUME NEW d \in Dimensions, ArchiveWhere(d) PROVE Ranked(facts')
    <3>1. Ranked(facts) /\ facts \subseteq FactRow
      BY <2>1, <2>3 DEF ArchiveWhere, AtRestChange, RankedInv, ReadsInv, GoodRows
    <3>2. PICK ids : facts' = {IF f.id \in ids
                                THEN [f EXCEPT !.archived = TRUE, !.is_current = FALSE]
                                ELSE f : f \in facts}
      BY <2>3 DEF ArchiveWhere, AtRestChange
    <3> DEFINE F == [f \in facts |->
                       IF f.id \in ids
                       THEN [f EXCEPT !.archived = TRUE, !.is_current = FALSE] ELSE f]
    <3>3. facts' = {F[f] : f \in facts}
      BY <3>2
    <3>4. ASSUME NEW f \in facts
          PROVE  /\ F[f] \in FactRow
                 /\ F[f].version = f.version /\ F[f].key = f.key /\ F[f].slotted
                 /\ F[f].is_current => f.is_current
      <4>1. f \in FactRow /\ f.slotted
        BY <3>1 DEF Ranked
      <4>2. CASE f.id \in ids
        <5>1. F[f] = [f EXCEPT !.archived = TRUE, !.is_current = FALSE]
          BY <4>2
        <5> HIDE DEF F
        <5> QED
          BY <4>1, <5>1 DEF FactRow
      <4>3. CASE f.id \notin ids
        BY <4>1, <4>3
      <4> QED
        BY <4>2, <4>3
    <3>5. F \in [facts -> FactRow]
      BY <3>4
    <3> HIDE DEF F
    <3> QED
      BY <3>1, <3>3, <3>4, <3>5, RankedEdits
  <2>4. ASSUME NEW f \in facts, NEW new \in FactsTold, AmendFact(f, new)
        PROVE  Ranked(facts')
    <3>1. Ranked(facts) /\ facts \subseteq FactRow
      BY <2>1, <2>4 DEF AmendFact, AtRestChange, RankedInv, ReadsInv, GoodRows
    <3> DEFINE F == [x \in facts |->
                       IF x = f
                       THEN [x EXCEPT !.fill = new.fill,
                                      !.is_current = @ \/ ~x.slotted, !.slotted = TRUE]
                       ELSE x]
    <3>2. facts' = {F[x] : x \in facts}
      BY <2>4 DEF AmendFact, AtRestChange
    <3>3. ASSUME NEW x \in facts
          PROVE  /\ F[x] \in FactRow
                 /\ F[x].version = x.version /\ F[x].key = x.key /\ F[x].slotted
                 /\ F[x].is_current => x.is_current
      <4>1. x \in FactRow /\ x.slotted
        BY <3>1 DEF Ranked
      <4>2. PICK b \in BOOLEAN : b = (x.is_current \/ ~x.slotted)
        OBVIOUS
      <4>3. new.fill \in {g.fill : g \in FactsTold}
        OBVIOUS
      <4>4. b => x.is_current
        BY <4>1, <4>2
      <4>5. CASE x = f
        <5>1. F[x] = [x EXCEPT !.fill = new.fill,
                               !.is_current = b, !.slotted = TRUE]
          BY <4>2, <4>5
        <5> HIDE DEF F
        <5>2. /\ F[x] \in FactRow
              /\ F[x].version = x.version /\ F[x].key = x.key
              /\ F[x].slotted /\ F[x].is_current = b
          BY <4>1, <4>3, <5>1 DEF FactRow
        <5> QED
          BY <4>4, <5>2
      <4>6. CASE x # f
        BY <4>1, <4>6
      <4> QED
        BY <4>5, <4>6
    <3>4. F \in [facts -> FactRow]
      BY <3>3
    <3> HIDE DEF F
    <3> QED
      BY <3>1, <3>2, <3>3, <3>4, RankedEdits
  <2>5. ASSUME \/ \E f \in facts : ForgetFact(f)
               \/ \E k \in ChainKeys : ForgetChain(k)
               \/ \E e \in EntityNames : ForgetEntity(e)
        PROVE  Ranked(facts')
    <3>1. facts' \in SUBSET facts /\ up
      BY <2>5 DEF ForgetFact, ForgetChain, ForgetEntity, AtRestChange
    <3> QED
      BY <2>1, <3>1 DEF RankedInv, Ranked
  <2>6. CASE BootStore
    <3>1. CASE up
      BY <2>1, <2>6, <3>1, BootedRows DEF BootStore, RankedInv
    <3>2. CASE ~up
      <4>1. \A f \in facts : ~f.archived /\ ~f.slotted
        BY <2>1, <3>2, OldTablesAssumption DEF ReadsInv
      <4>2. facts' = {[f EXCEPT !.slotted = TRUE, !.is_current = InForce(f)] : f \in facts}
        BY <2>6, <4>1 DEF BootStore, Backfilled, SlotRows
      <4>3. facts \subseteq FactRow
        BY <2>1, <3>2, OldTablesAssumption DEF ReadsInv
      <4>4. ASSUME NEW f \in facts
            PROVE  ~[f EXCEPT !.slotted = TRUE, !.is_current = InForce(f)].archived
        BY <4>1, <4>3 DEF FactRow
      <4>5. \A f \in facts' : ~f.archived
        BY <4>2, <4>4
      <4>6. GoodRows(facts')
        BY <2>6 DEF BootStore, ReadsInv
      <4> HIDE DEF BootStore
      <4> QED
        BY <4>5, <4>6 DEF GoodRows, Ranked
    <3> QED
      BY <3>1, <3>2
  <2>7. CASE ReadProfiles \/ UNCHANGED readsVars
    BY <2>7 DEF ReadProfiles, readsVars, RankedInv
  <2> QED
    BY <2>2, <2>3, <2>4, <2>5, <2>6, <2>7 DEF ReadsNext
<1>3. RankedInv /\ RecallIsCurrentBelief =>
        (storage = "sql" /\ Comparable => SqlRecall(CandidateRows) = RamRecall)
  <2> SUFFICES ASSUME RankedInv, RecallIsCurrentBelief, storage = "sql", Comparable
               PROVE  SqlRecall(CandidateRows) = RamRecall
    OBVIOUS
  <2>1. NoneOutranked
    BY DEF NoneOutranked, RankedInv, Ranked, Comparable, CurrentRows, SlotRows
  <2> QED
    BY <2>1 DEF RecallIsCurrentBelief
<1> QED
  BY <1>1, <1>2, <1>3, ReadsInvHolds, RecallReturnsBelief, PTL DEF ReadsSpec
-----------------------------------------------------------------------------
(* The conversation.  A turn with a new answer ends a run of its own after  *)
(* all others; one with the last answer moves the end of the last run.      *)

ConversationInv ==
    /\ turns \in Seq(Messages \X Answers) /\ answered \in Seq(Messages \X Answers)
    /\ NewestTurnsShown

LEMMA EndsFinite ==
    ASSUME NEW S, NEW ts \in Seq(S)
    PROVE  /\ Len(ts) \in Nat /\ RunEnds(ts) \subseteq 1..Len(ts)
           /\ IsFiniteSet(RunEnds(ts)) /\ Cardinality(RunEnds(ts)) \in Nat
           /\ \A i : IsFiniteSet({j \in RunEnds(ts) : j > i}) /\ RunsAfter(i, ts) \in Nat
<1>1. RunEnds(ts) \subseteq 1..Len(ts)
  BY DEF RunEnds
<1>2. IsFiniteSet(1..Len(ts))
  BY FS_Interval
<1>3. IsFiniteSet(RunEnds(ts)) /\ \A i : IsFiniteSet({j \in RunEnds(ts) : j > i})
  BY <1>1, <1>2, FS_Subset
<1>4. Len(ts) \in Nat
  OBVIOUS
<1> QED
  BY <1>1, <1>3, <1>4, FS_CardinalityType DEF RunsAfter

\* The last turn ends a run, and no run ends after it.
LEMMA LastEnds ==
    ASSUME NEW S, NEW ts \in Seq(S), ts # << >>
    PROVE  Len(ts) \in RunEnds(ts) /\ RunsAfter(Len(ts), ts) = 0
<1>1. Len(ts) \in RunEnds(ts)
  BY DEF RunEnds
<1>2. {j \in RunEnds(ts) : j > Len(ts)} = {}
  BY DEF RunEnds
<1> QED
  BY <1>1, <1>2, FS_EmptySet DEF RunsAfter

\* Fewer runs end after a run than there are, and one after all but the last.
LEMMA RunsBelow ==
    ASSUME NEW S, NEW ts \in Seq(S), NEW i \in RunEnds(ts)
    PROVE  /\ RunsAfter(i, ts) < Cardinality(RunEnds(ts))
           /\ i # Len(ts) => RunsAfter(i, ts) # 0
<1> DEFINE L == {j \in RunEnds(ts) : j > i}
<1>1. i \in 1..Len(ts) /\ Len(ts) \in Nat /\ IsFiniteSet(RunEnds(ts)) /\ IsFiniteSet(L)
  BY EndsFinite
<1>2. Cardinality(L) < Cardinality(RunEnds(ts))
  <2>1. i \notin L
    BY <1>1
  <2>2. L \subseteq RunEnds(ts) /\ L # RunEnds(ts)
    BY <2>1
  <2> HIDE DEF L
  <2>3. Cardinality(L) <= Cardinality(RunEnds(ts)) /\ Cardinality(L) # Cardinality(RunEnds(ts))
    BY <1>1, <2>2, FS_Subset
  <2>4. Cardinality(L) \in Nat /\ Cardinality(RunEnds(ts)) \in Nat
    BY <1>1, FS_CardinalityType
  <2> QED
    BY <2>3, <2>4
<1>3. ASSUME i # Len(ts) PROVE Cardinality(L) # 0
  <2>1. ts # << >>
    BY <1>1
  <2>2. Len(ts) \in RunEnds(ts) /\ Len(ts) > i
    BY <1>1, <1>3, <2>1, LastEnds
  <2>3. L # {}
    BY <2>2
  <2> QED
    BY <1>1, <2>3, FS_EmptySet
<1> QED
  BY <1>2, <1>3 DEF RunsAfter

LEMMA AppendedEnds ==
    ASSUME NEW S, NEW ts \in Seq(S), NEW turn \in S
    PROVE  RunEnds(Append(ts, turn)) =
             {i \in RunEnds(ts) : i = Len(ts) => ts[i][2] # turn[2]} \cup {Len(ts) + 1}
<1> DEFINE new == Append(ts, turn)
<1>1. /\ Len(new) = Len(ts) + 1 /\ DOMAIN new = 1..(Len(ts) + 1) /\ new[Len(ts) + 1] = turn
      /\ \A i \in 1..Len(ts) : new[i] = ts[i]
      /\ DOMAIN ts = 1..Len(ts) /\ Len(ts) \in Nat
  OBVIOUS
<1> HIDE DEF new
<1>2. ASSUME NEW i \in 1..Len(ts)
      PROVE  i \in RunEnds(new) <=> (i \in RunEnds(ts) /\ (i = Len(ts) => ts[i][2] # turn[2]))
  <2>1. CASE i = Len(ts)
    BY <1>1, <2>1 DEF RunEnds
  <2>2. CASE i # Len(ts)
    <3>1. PICK n \in Nat : n = Len(ts) /\ Len(new) = n + 1
      BY <1>1
    <3>2. i \in 1..n /\ i # n
      BY <2>2, <3>1
    <3>3. i < n /\ i + 1 \in 1..n /\ i < n + 1 /\ i \in 1..(n + 1)
      BY <3>1, <3>2
    <3>4. new[i] = ts[i] /\ new[i + 1] = ts[i + 1]
      BY <1>1, <3>1, <3>3
    <3>5. i \in RunEnds(new) <=> ts[i][2] # ts[i + 1][2]
      BY <1>1, <3>1, <3>3, <3>4 DEF RunEnds
    <3>6. i \in RunEnds(ts) <=> ts[i][2] # ts[i + 1][2]
      BY <1>1, <3>1, <3>3 DEF RunEnds
    <3> QED
      BY <2>2, <3>5, <3>6
  <2> QED
    BY <2>1, <2>2
<1>3. Len(ts) + 1 \in RunEnds(new)
  BY <1>1 DEF RunEnds
<1>4. RunEnds(new) \subseteq 1..(Len(ts) + 1) /\ RunEnds(ts) \subseteq 1..Len(ts)
  BY <1>1 DEF RunEnds
<1>5. \A i \in 1..(Len(ts) + 1) : i \in 1..Len(ts) \/ i = Len(ts) + 1
  BY <1>1
<1>6. RunEnds(new) =
        {i \in RunEnds(ts) : i = Len(ts) => ts[i][2] # turn[2]} \cup {Len(ts) + 1}
  BY <1>2, <1>3, <1>4, <1>5
<1> QED
  BY <1>6 DEF new

\* A turn with another answer: one run more.
LEMMA NewRun ==
    ASSUME NEW S, NEW ts \in Seq(S), NEW turn \in S,
           ts # << >> => ts[Len(ts)][2] # turn[2]
    PROVE  LET new == Append(ts, turn) IN
             /\ RunEnds(new) = RunEnds(ts) \cup {Len(new)}
             /\ Cardinality(RunEnds(new)) = Cardinality(RunEnds(ts)) + 1
             /\ \A i \in RunEnds(ts) : RunsAfter(i, new) = RunsAfter(i, ts) + 1
<1> DEFINE new == Append(ts, turn)
           n == Len(ts) + 1
<1>1. Len(new) = n /\ n \in Nat
  OBVIOUS
<1>2. RunEnds(ts) \subseteq 1..Len(ts) /\ n \notin RunEnds(ts)
  <2>1. Len(ts) \in Nat /\ RunEnds(ts) \subseteq 1..Len(ts)
    BY EndsFinite
  <2> QED
    BY <2>1
<1>3. \A i \in RunEnds(ts) : i = Len(ts) => ts[i][2] # turn[2]
  BY <1>2
<1>4. RunEnds(new) = RunEnds(ts) \cup {n}
  BY <1>3, AppendedEnds
<1>5. Cardinality(RunEnds(new)) = Cardinality(RunEnds(ts)) + 1
  BY <1>2, <1>4, EndsFinite, FS_AddElement
<1> HIDE DEF new
<1>6. ASSUME NEW i \in RunEnds(ts) PROVE RunsAfter(i, new) = RunsAfter(i, ts) + 1
  <2>1. n > i
    BY <1>2
  <2>2. {j \in RunEnds(new) : j > i} = {j \in RunEnds(ts) : j > i} \cup {n}
    BY <1>4, <2>1
  <2>3. n \notin {j \in RunEnds(ts) : j > i} /\ IsFiniteSet({j \in RunEnds(ts) : j > i})
    BY <1>2, EndsFinite
  <2> QED
    BY <2>2, <2>3, FS_AddElement DEF RunsAfter
<1> QED
  BY <1>1, <1>4, <1>5, <1>6 DEF new

\* A turn with the last answer: the last run ends later.
LEMMA SameRun ==
    ASSUME NEW S, NEW ts \in Seq(S), NEW turn \in S,
           ts # << >>, ts[Len(ts)][2] = turn[2]
    PROVE  LET new == Append(ts, turn) IN
             /\ RunEnds(new) = (RunEnds(ts) \ {Len(ts)}) \cup {Len(new)}
             /\ Cardinality(RunEnds(new)) = Cardinality(RunEnds(ts))
             /\ \A i \in RunEnds(ts) \ {Len(ts)} : RunsAfter(i, new) = RunsAfter(i, ts)
<1> DEFINE new == Append(ts, turn)
           n == Len(ts) + 1
<1>1. Len(new) = n /\ n \in Nat
  OBVIOUS
<1>2. /\ RunEnds(ts) \subseteq 1..Len(ts) /\ n \notin RunEnds(ts)
      /\ Len(ts) \in RunEnds(ts) /\ Len(ts) \in Nat
  <2>1. Len(ts) \in Nat /\ RunEnds(ts) \subseteq 1..Len(ts)
    BY EndsFinite
  <2>2. n \notin RunEnds(ts)
    BY <2>1
  <2> QED
    BY <2>1, <2>2, LastEnds
<1>3. RunEnds(new) = (RunEnds(ts) \ {Len(ts)}) \cup {n}
  BY AppendedEnds
<1>4. Cardinality(RunEnds(new)) = Cardinality(RunEnds(ts))
  <2>1. /\ IsFiniteSet(RunEnds(ts) \ {Len(ts)})
        /\ Cardinality(RunEnds(ts) \ {Len(ts)}) = Cardinality(RunEnds(ts)) - 1
    BY <1>2, EndsFinite, FS_RemoveElement
  <2>2. Cardinality(RunEnds(new)) = Cardinality(RunEnds(ts) \ {Len(ts)}) + 1
    BY <1>2, <1>3, <2>1, FS_AddElement
  <2>3. PICK c \in Nat : c = Cardinality(RunEnds(ts))
    BY EndsFinite
  <2>4. Cardinality(RunEnds(new)) = (c - 1) + 1
    BY <2>1, <2>2, <2>3
  <2> QED
    BY <2>3, <2>4
<1> HIDE DEF new
<1>5. ASSUME NEW i \in RunEnds(ts) \ {Len(ts)} PROVE RunsAfter(i, new) = RunsAfter(i, ts)
  <2> DEFINE L == {j \in RunEnds(ts) : j > i}
  <2>1. n > i /\ Len(ts) > i
    BY <1>2
  <2>2. {j \in RunEnds(new) : j > i} = (L \ {Len(ts)}) \cup {n}
    BY <1>3, <2>1
  <2>3. Len(ts) \in L /\ n \notin L
    BY <1>2, <2>1
  <2>4. IsFiniteSet(L)
    BY EndsFinite
  <2> HIDE DEF L
  <2>5. PICK c \in Nat : c = Cardinality(L)
    BY <2>4, FS_CardinalityType
  <2>6. IsFiniteSet(L \ {Len(ts)}) /\ Cardinality(L \ {Len(ts)}) = c - 1
    BY <2>3, <2>4, <2>5, FS_RemoveElement
  <2>7. Cardinality((L \ {Len(ts)}) \cup {n}) = (c - 1) + 1
    BY <2>3, <2>6, FS_AddElement
  <2>8. Cardinality((L \ {Len(ts)}) \cup {n}) = Cardinality(L)
    BY <2>5, <2>7
  <2> QED
    BY <2>2, <2>8 DEF RunsAfter, L
<1> QED
  BY <1>1, <1>3, <1>4, <1>5 DEF new

\* What the window holds after one more turn.
LEMMA WindowSlides ==
    ASSUME NEW S, NEW ts \in Seq(S), NEW turn \in S, Len(ts) <= max_turns
    PROVE  LET w == Newest(max_turns, Append(ts, turn)) IN
             /\ w \in Seq(S)
             /\ Len(w) = IF Len(ts) < max_turns THEN Len(ts) + 1 ELSE max_turns
             /\ w[Len(w)] = turn
             /\ \A d \in Nat : d < Len(ts) /\ d + 1 < max_turns =>
                                  w[Len(w) - (d + 1)] = ts[Len(ts) - d]
<1> DEFINE a == Append(ts, turn)
           n == Len(ts) + 1
<1>1. a \in Seq(S) /\ Len(a) = n /\ a[n] = turn /\ (\A i \in 1..Len(ts) : a[i] = ts[i])
        /\ Len(ts) \in Nat
  OBVIOUS
<1> HIDE DEF a
<1>2. max_turns \in Nat \ {0}
  BY TurnsAssumption
<1>3. CASE Len(ts) < max_turns
  <2>1. Newest(max_turns, a) = SubSeq(a, 1, n)
    <3>1. ~(Len(a) > max_turns)
      BY <1>1, <1>2, <1>3
    <3> QED
      BY <1>1, <3>1 DEF Newest
  <2>2. SubSeq(a, 1, n) = a
    BY <1>1
  <2> QED
    BY <1>1, <1>2, <1>3, <2>1, <2>2 DEF a
<1>4. CASE Len(ts) = max_turns
  <2>1. Newest(max_turns, a) = SubSeq(a, 2, n)
    BY <1>1, <1>2, <1>4 DEF Newest
  <2> DEFINE w == SubSeq(a, 2, n)
  <2>2. w \in Seq(S) /\ Len(w) = Len(ts) /\ \A i \in 1..Len(ts) : w[i] = a[i + 1]
    BY <1>1
  <2> HIDE DEF w
  <2>3. w[Len(w)] = turn
    BY <1>1, <1>2, <1>4, <2>2
  <2>4. ASSUME NEW d \in Nat, d < Len(ts), d + 1 < max_turns
        PROVE  w[Len(w) - (d + 1)] = ts[Len(ts) - d]
    <3>1. Len(ts) - (d + 1) \in 1..Len(ts) /\ Len(ts) - d \in 1..Len(ts)
            /\ (Len(ts) - (d + 1)) + 1 = Len(ts) - d
      BY <1>1, <1>4, <2>4
    <3> QED
      BY <1>1, <2>2, <3>1
  <2>5. Newest(max_turns, Append(ts, turn)) = w
    BY <2>1 DEF a, w
  <2>6. Len(w) = IF Len(ts) < max_turns THEN Len(ts) + 1 ELSE max_turns
    BY <1>2, <1>4, <2>2
  <2> HIDE DEF n
  <2> QED
    BY <2>2, <2>3, <2>4, <2>5, <2>6
<1> QED
  BY <1>1, <1>2, <1>3, <1>4

LEMMA TurnAdded ==
    ASSUME ConversationInv, NEW turn \in Messages \X Answers, AddTurn(turn)
    PROVE  ConversationInv'
<1> DEFINE S == Messages \X Answers
           n == Len(answered) + 1
<1>1. /\ turns \in Seq(S) /\ answered \in Seq(S) /\ max_turns \in Nat \ {0}
      /\ turns' = WithTurn(turns, turn) /\ answered' = Append(answered, turn)
      /\ turn \in S
  BY TurnsAssumption DEF ConversationInv, AddTurn
<1>2. /\ answered' \in Seq(S) /\ Len(answered') = n /\ n \in Nat \ {0} /\ answered'[n] = turn
      /\ \A i \in 1..Len(answered) : answered'[i] = answered[i]
  BY <1>1
<1> HIDE DEF S, n
<1>3. PICK runs \in Nat : runs = Cardinality(RunEnds(answered))
  BY <1>1, EndsFinite
<1>4. /\ Len(turns) = IF runs < max_turns THEN runs ELSE max_turns
      /\ \A i \in RunEnds(answered) : RunsAfter(i, answered) < max_turns =>
            turns[Len(turns) - RunsAfter(i, answered)] = answered[i]
  BY <1>3 DEF ConversationInv, NewestTurnsShown
<1>5. RunEnds(answered) \subseteq 1..Len(answered)
        /\ \A i : RunsAfter(i, answered) \in Nat
  BY <1>1, EndsFinite
<1>6. turns # << >> <=> answered # << >>
  <2>1. CASE answered = << >>
    <3>1. RunEnds(answered) = {}
      BY <1>5, <2>1
    <3>2. runs = 0
      BY <1>3, <3>1, FS_EmptySet
    <3> QED
      BY <1>1, <1>4, <2>1, <3>2
  <2>2. CASE answered # << >>
    <3>1. RunEnds(answered) # {} /\ IsFiniteSet(RunEnds(answered))
      BY <1>1, <2>2, LastEnds, EndsFinite
    <3>2. runs # 0
      BY <1>3, <3>1, FS_EmptySet
    <3>3. Len(turns) # 0
      BY <1>1, <1>3, <1>4, <3>2
    <3> QED
      BY <2>2, <3>3
  <2> QED
    BY <2>1, <2>2
<1>7. answered # << >> => turns[Len(turns)] = answered[Len(answered)]
  <2> SUFFICES ASSUME answered # << >> PROVE turns[Len(turns)] = answered[Len(answered)]
    OBVIOUS
  <2>1. Len(answered) \in RunEnds(answered) /\ RunsAfter(Len(answered), answered) = 0
    BY <1>1, LastEnds
  <2>2. 0 < max_turns
    BY <1>1
  <2>3. turns[Len(turns) - 0] = answered[Len(answered)]
    BY <1>4, <2>1, <2>2
  <2>4. Len(turns) - 0 = Len(turns)
    BY <1>1
  <2> QED
    BY <2>3, <2>4
<1>8. RunsAfter(n, answered') = 0 /\ n \in RunEnds(answered')
  <2>1. answered' # << >>
    <3>1. Len(<< >>) = 0 /\ Len(answered') # 0
      BY <1>2
    <3> QED
      BY <3>1
  <2> QED
    BY <1>2, <2>1, LastEnds
<1>9. CASE turns # << >> /\ Last(turns)[2] = turn[2]
  <2>1. turns' = [turns EXCEPT ![Len(turns)] = turn]
    BY <1>1, <1>9 DEF WithTurn
  <2>2. answered # << >> /\ answered[Len(answered)][2] = turn[2]
    BY <1>6, <1>7, <1>9 DEF Last
  <2>3. /\ RunEnds(answered') = (RunEnds(answered) \ {Len(answered)}) \cup {n}
        /\ Cardinality(RunEnds(answered')) = runs
        /\ \A i \in RunEnds(answered) \ {Len(answered)} :
              RunsAfter(i, answered') = RunsAfter(i, answered)
    BY <1>1, <1>2, <1>3, <2>2, SameRun DEF S
  <2>4. /\ turns' \in Seq(S) /\ Len(turns') = Len(turns) /\ turns'[Len(turns)] = turn
        /\ \A i \in 1..(Len(turns) - 1) : turns'[i] = turns[i]
    BY <1>1, <1>9, <2>1 DEF S
  <2>5. ASSUME NEW i \in RunEnds(answered) \ {Len(answered)},
               RunsAfter(i, answered) < max_turns
        PROVE  turns'[Len(turns') - RunsAfter(i, answered)] = answered'[i]
    <3>1. answered'[i] = answered[i]
      BY <1>2, <1>5
    <3>2. PICK d \in Nat : d = RunsAfter(i, answered)
      BY <1>5
    <3>3. turns[Len(turns) - d] = answered[i]
      BY <1>4, <2>5, <3>2
    <3>4. d # 0 /\ d < runs
      BY <1>1, <1>3, <3>2, RunsBelow
    <3>5. Len(turns) - d \in 1..(Len(turns) - 1)
      BY <1>1, <1>4, <2>5, <3>2, <3>4
    <3> QED
      BY <2>4, <3>1, <3>2, <3>3, <3>5
  <2>6. turns'[Len(turns') - 0] = answered'[n]
    BY <1>1, <1>2, <2>4
  <2>7. ASSUME NEW i \in RunEnds(answered'), RunsAfter(i, answered') < max_turns
        PROVE  turns'[Len(turns') - RunsAfter(i, answered')] = answered'[i]
    <3>1. CASE i = n
      BY <1>8, <2>6, <3>1
    <3>2. CASE i \in RunEnds(answered) \ {Len(answered)}
      BY <2>3, <2>5, <2>7, <3>2
    <3> QED
      BY <2>3, <3>1, <3>2
  <2> QED
    BY <1>2, <1>4, <2>3, <2>4, <2>7 DEF ConversationInv, NewestTurnsShown, S
<1>10. CASE ~(turns # << >> /\ Last(turns)[2] = turn[2])
  <2>1. turns' = Newest(max_turns, Append(turns, turn))
    BY <1>1, <1>10 DEF WithTurn
  <2>2. answered # << >> => answered[Len(answered)][2] # turn[2]
    BY <1>6, <1>7, <1>10 DEF Last
  <2>3. /\ RunEnds(answered') = RunEnds(answered) \cup {n}
        /\ Cardinality(RunEnds(answered')) = runs + 1
        /\ \A i \in RunEnds(answered) : RunsAfter(i, answered') = RunsAfter(i, answered) + 1
    BY <1>1, <1>2, <1>3, <2>2, NewRun DEF S
  <2>4. Len(turns) <= max_turns
    BY <1>1, <1>3, <1>4
  <2>5. /\ turns' \in Seq(S)
        /\ Len(turns') = IF Len(turns) < max_turns THEN Len(turns) + 1 ELSE max_turns
        /\ turns'[Len(turns')] = turn
        /\ \A d \in Nat : d < Len(turns) /\ d + 1 < max_turns =>
                             turns'[Len(turns') - (d + 1)] = turns[Len(turns) - d]
    <3> DEFINE w == Newest(max_turns, Append(turns, turn))
    <3>1. /\ w \in Seq(S)
          /\ Len(w) = IF Len(turns) < max_turns THEN Len(turns) + 1 ELSE max_turns
          /\ w[Len(w)] = turn
          /\ \A d \in Nat : d < Len(turns) /\ d + 1 < max_turns =>
                               w[Len(w) - (d + 1)] = turns[Len(turns) - d]
      BY <1>1, <2>4, WindowSlides
    <3>2. turns' = w
      BY <2>1
    <3> HIDE DEF w
    <3> QED
      BY <3>1, <3>2
  <2>6. Len(turns') = IF runs + 1 < max_turns THEN runs + 1 ELSE max_turns
    BY <1>1, <1>3, <1>4, <2>5
  <2>7. ASSUME NEW i \in RunEnds(answered), RunsAfter(i, answered) + 1 < max_turns
        PROVE  turns'[Len(turns') - (RunsAfter(i, answered) + 1)] = answered'[i]
    <3>1. answered'[i] = answered[i]
      BY <1>2, <1>5
    <3>2. PICK d \in Nat : d = RunsAfter(i, answered)
      BY <1>5
    <3>3. turns[Len(turns) - d] = answered[i]
      BY <1>1, <1>4, <2>7, <3>2
    <3>4. d < runs
      BY <1>1, <1>3, <3>2, RunsBelow
    <3>5. d < Len(turns) /\ d + 1 < max_turns
      BY <1>1, <1>3, <1>4, <2>7, <3>2, <3>4
    <3> QED
      BY <2>5, <3>1, <3>2, <3>3, <3>5
  <2>8. turns'[Len(turns') - 0] = answered'[n]
    <3>1. Len(turns') \in Nat
      BY <2>5
    <3>2. Len(turns') - 0 = Len(turns')
      BY <3>1
    <3> QED
      BY <1>2, <2>5, <3>2
  <2>9. ASSUME NEW i \in RunEnds(answered'), RunsAfter(i, answered') < max_turns
        PROVE  turns'[Len(turns') - RunsAfter(i, answered')] = answered'[i]
    <3>1. CASE i = n
      BY <1>8, <2>8, <3>1
    <3>2. CASE i \in RunEnds(answered)
      BY <2>3, <2>7, <2>9, <3>2
    <3> QED
      BY <2>3, <3>1, <3>2
  <2> QED
    BY <1>2, <2>3, <2>5, <2>6, <2>9 DEF ConversationInv, NewestTurnsShown, S
<1> QED
  BY <1>9, <1>10

(* However often answers recur, the window slides or the conversation is    *)
(* cleared, the turns Conversation.add_turn keeps are the newest ones, one  *)
(* for each run of turns with one answer.                                   *)
THEOREM PromptShowsNewest == ConversationSpec => []NewestTurnsShown
<1>1. << >> \in Seq(Messages \X Answers) /\ RunEnds(<< >>) = {} /\ Len(<< >>) = 0
  BY DEF RunEnds
<1>2. turns = << >> /\ answered = << >> => ConversationInv
  <2> SUFFICES ASSUME turns = << >>, answered = << >> PROVE ConversationInv
    OBVIOUS
  <2>1. RunEnds(answered) = {} /\ Cardinality(RunEnds(answered)) = 0 /\ Len(turns) = 0
    BY <1>1, FS_EmptySet
  <2>2. 0 < max_turns
    BY TurnsAssumption
  <2>3. NewestTurnsShown
    BY <2>1, <2>2 DEF NewestTurnsShown
  <2> QED
    BY <1>1, <2>3 DEF ConversationInv
<1>3. ConversationInit => ConversationInv
  BY <1>2 DEF ConversationInit
<1>4. (turns = << >> /\ answered = << >>)' => ConversationInv'
  BY <1>2, PTL
<1>5. ConversationInv /\ [ConversationNext]_conversationVars => ConversationInv'
  <2> SUFFICES ASSUME ConversationInv, [ConversationNext]_conversationVars
               PROVE  ConversationInv'
    OBVIOUS
  <2>1. CASE UNCHANGED conversationVars
    BY <2>1 DEF conversationVars, ConversationInv, NewestTurnsShown
  <2>2. CASE ClearTurns
    BY <1>4, <2>2 DEF ClearTurns
  <2> QED
    BY <2>1, <2>2, TurnAdded DEF ConversationNext
<1>6. ConversationInv => NewestTurnsShown
  BY DEF ConversationInv
<1> QED
  BY <1>3, <1>5, <1>6, PTL DEF ConversationSpec
=============================================================================
