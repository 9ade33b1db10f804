--------------------------------- MODULE Chat ---------------------------------
(***************************************************************************)
(* The chat pipeline of a memory-mode server started from the shell.  The  *)
(* shell runs Brain.think in a thread of its own, one input at a time,     *)
(* beside the event loop with the persistence worker and the MCP handlers. *)
(* Its memory is the store of the main space, and a handler that changes   *)
(* facts at rest replaces that store.                                      *)
(*                                                                         *)
(* A text is a sequence of sentences; a thought is one sentence and who    *)
(* said it.  What recall finds is any thought it may return: its scoring   *)
(* is left open.  heard, dropped and overlapped are history: no action     *)
(* reads them.                                                             *)
(***************************************************************************)
EXTENDS Naturals, Sequences, FiniteSets

CONSTANTS
    Statements,     \* sentences that users say
    Questions,      \* sentences that classify() takes for a question
    Inputs,         \* what is typed in the shell: sequences of these
    Replies,        \* sentences that the model comes up with itself
    GotIt, DontKnow, \* the two fixed answers
    Reloaders,      \* the MCP callers that change facts at rest
    Nobody,         \* no thought
    MaxCalls,       \* bound: the inputs typed and the handlers called
    MaxStops        \* bound: the times the server is killed and boots again

ASSUME ChatAssumption ==
    /\ Inputs \subseteq Seq(Statements \cup Questions) \ {<< >>}
    /\ MaxCalls \in Nat /\ MaxStops \in Nat

VARIABLES
    stores,     \* every ThoughtSpace made for main: its thoughts
    main,       \* brain._spaces["main"], an index of stores
    chat,       \* brain._cognitive._space, an index of stores
    disk,       \* the live rows of ada_thoughts
    pending,    \* brain._persist_queue
    saving,     \* what the worker still has of its batch
    shell,      \* the think() in progress
    reloads,    \* the change at rest that each caller is at
    budget,     \* [calls, stops] so far
    heard,      \* the sentences users have said, in the shell or over MCP
    dropped,    \* the sentences a failed save, a failed scan or a crash lost
    overlapped  \* whether two changes at rest have overlapped

chatVars == <<stores, main, chat, disk, pending, saving, shell, reloads, budget,
              heard, dropped, overlapped>>

-----------------------------------------------------------------------------
Said(text, speaker) == [text |-> text, speaker |-> speaker]
TextsOf(thoughts) == {t.text : t \in thoughts}
Sentences(text) == {text[i] : i \in DOMAIN text}
Memory == stores[chat]

\* AdaCognitive.absorb: each sentence that the store has not seen.
Absorbed(store, text, speaker) ==
    store \cup {Said(s, speaker) : s \in Sentences(text) \ TextsOf(store)}

\* What it returns: the last sentence that was new.
LastNew(store, text, speaker) ==
    LET new == {i \in DOMAIN text : text[i] \notin TextsOf(store)} IN
    IF new = {} THEN Nobody
    ELSE Said(text[CHOOSE i \in new : \A j \in new : j <= i], speaker)

IsQuestion(text) == text[Len(text)] \in Questions

\* recall leaves out what Ada said herself.
\* Mutant of Recallable: it does not.
RecallableAll(store) == store
Recallable(store) == {t \in store : t.speaker # "ada"}

-----------------------------------------------------------------------------
\* think, up to the call to the model.  No fact means the ASK gate.
Perceive(text) ==
    /\ shell.pc = "idle"
    /\ budget.calls < MaxCalls
    /\ budget' = [budget EXCEPT !.calls = @ + 1]
    /\ \E fact \in Recallable(Memory) \cup {Nobody} :
         shell' = [pc |-> "llm", input |-> text, fact |-> fact]
    /\ heard' = heard \cup Sentences(text)
    /\ UNCHANGED <<stores, main, chat, disk, pending, saving, reloads, dropped, overlapped>>

\* The model's words, or, when it is absent, blocked or fails, the top fact
\* or one of the fixed answers.
Responses ==
    IF shell.fact # Nobody THEN Replies \cup {shell.fact.text}
    ELSE IF IsQuestion(shell.input) THEN {DontKnow} ELSE {GotIt}

\* Statements are absorbed, questions are not; the answer always is.
Respond ==
    /\ shell.pc = "llm"
    /\ \E reply \in Responses :
         LET told == IF IsQuestion(shell.input) THEN Memory
                     ELSE Absorbed(Memory, shell.input, "incoming")
         IN  /\ stores' = [stores EXCEPT ![chat] = Absorbed(told, <<reply>>, "ada")]
             /\ shell' = [pc |-> "scan", texts |-> <<shell.input, <<reply>>>>]
    /\ UNCHANGED <<main, chat, disk, pending, saving, reloads, budget, heard, dropped,
                   overlapped>>

\* _queue_persist, first the input and then the answer: a scan for a thought
\* with that very text ...
Speaker == IF Len(shell.texts) = 2 THEN "incoming" ELSE "ada"

StartScan ==
    /\ shell.pc = "scan"
    /\ shell' = [pc |-> "scanning", texts |-> shell.texts, over |-> chat, seen |-> Memory]
    /\ UNCHANGED <<stores, main, chat, disk, pending, saving, reloads, budget, heard,
                   dropped, overlapped>>

\* ... and, when there is none, the text is absorbed.
\* Mutant of ToPersist: only what is new is queued.
ToPersistNew(text) == LastNew(Memory, text, Speaker)
ToPersist(text) ==
    IF \E t \in shell.seen : <<t.text>> = text
    THEN CHOOSE t \in shell.seen : <<t.text>> = text
    ELSE LastNew(Memory, text, Speaker)

EndScan ==
    LET text == Head(shell.texts)
        thought == ToPersist(text)
        found == \E t \in shell.seen : <<t.text>> = text
    IN  /\ shell.pc = "scanning"
        /\ pending' = IF thought = Nobody THEN pending ELSE Append(pending, thought)
        /\ stores' = IF found THEN stores
                     ELSE [stores EXCEPT ![chat] = Absorbed(@, text, Speaker)]
        /\ shell' = IF Len(shell.texts) = 2 THEN [pc |-> "scan", texts |-> Tail(shell.texts)]
                    ELSE [pc |-> "idle"]
        /\ UNCHANGED <<main, chat, disk, saving, reloads, budget, heard, dropped, overlapped>>

\* A tell that lands in the dictionary being scanned ends the scan, and with
\* it think(): RuntimeError, dictionary changed size during iteration.
ScanFails ==
    /\ shell.pc = "scanning"
    /\ stores[shell.over] # shell.seen
    /\ dropped' = dropped \cup UNION {Sentences(shell.texts[i]) : i \in DOMAIN shell.texts}
    /\ shell' = [pc |-> "idle"]
    /\ UNCHANGED <<stores, main, chat, disk, pending, saving, reloads, budget, heard,
                   overlapped>>

-----------------------------------------------------------------------------
\* The worker: it takes the whole queue and saves thought by thought.
FlushTake ==
    /\ saving = << >>
    /\ pending # << >>
    /\ saving' = pending
    /\ pending' = << >>
    /\ UNCHANGED <<stores, main, chat, disk, shell, reloads, budget, heard, dropped,
                   overlapped>>

FlushSave ==
    /\ saving # << >>
    /\ disk' = disk \cup {Head(saving)}
    /\ saving' = Tail(saving)
    /\ UNCHANGED <<stores, main, chat, pending, shell, reloads, budget, heard, dropped,
                   overlapped>>

\* A warning is logged and the thought is not queued again.
FlushFails ==
    /\ saving # << >>
    /\ dropped' = dropped \cup {Head(saving).text}
    /\ saving' = Tail(saving)
    /\ UNCHANGED <<stores, main, chat, disk, pending, shell, reloads, budget, heard,
                   overlapped>>

-----------------------------------------------------------------------------
\* The MCP side: a tell (module MemoryStore has its steps), written through
\* or queued,
TellOverMcp(s) ==
    /\ budget.calls < MaxCalls
    /\ s \notin TextsOf(stores[main])
    /\ budget' = [budget EXCEPT !.calls = @ + 1]
    /\ stores' = [stores EXCEPT ![main] = @ \cup {Said(s, "incoming")}]
    /\ heard' = heard \cup {s}
    /\ \/ disk' = disk \cup {Said(s, "incoming")} /\ UNCHANGED pending
       \/ pending' = Append(pending, Said(s, "incoming")) /\ UNCHANGED disk
    /\ UNCHANGED <<main, chat, saving, shell, reloads, dropped, overlapped>>

\* and the handlers that change facts at rest: each holds the store it found
\* at its start, commits, loads a new store and swaps it in.
StartChange(c) ==
    /\ reloads[c].pc = "idle"
    /\ budget.calls < MaxCalls
    /\ budget' = [budget EXCEPT !.calls = @ + 1]
    /\ overlapped' = (overlapped \/ \E d \in Reloaders : reloads[d].pc # "idle")
    /\ reloads' = [reloads EXCEPT ![c] = [pc |-> "commit", store |-> main]]
    /\ UNCHANGED <<stores, main, chat, disk, pending, saving, shell, heard, dropped>>

CommitChange(c) ==
    /\ reloads[c].pc = "commit"
    /\ \E t \in disk : disk' = disk \ {t}
    /\ reloads' = [reloads EXCEPT ![c].pc = "load"]
    /\ UNCHANGED <<stores, main, chat, pending, saving, shell, budget, heard, dropped,
                   overlapped>>

\* Nothing matched: no reload.
NoChange(c) ==
    /\ reloads[c].pc = "commit"
    /\ reloads' = [reloads EXCEPT ![c] = [pc |-> "idle"]]
    /\ UNCHANGED <<stores, main, chat, disk, pending, saving, shell, budget, heard,
                   dropped, overlapped>>

LoadStore(c) ==
    /\ reloads[c].pc = "load"
    /\ stores' = Append(stores, disk)
    /\ reloads' = [reloads EXCEPT ![c] = [pc |-> "swap", store |-> @.store,
                                         fresh |-> Len(stores) + 1]]
    /\ UNCHANGED <<main, chat, disk, pending, saving, shell, budget, heard, dropped,
                   overlapped>>

\* Mutant of ChatAfterSwap: only the registry of spaces gets the new store.
ChatLeft(r) == chat
ChatAfterSwap(r) == IF chat = r.store THEN r.fresh ELSE chat

SwapStore(c) ==
    /\ reloads[c].pc = "swap"
    /\ main' = reloads[c].fresh
    /\ chat' = ChatAfterSwap(reloads[c])
    /\ reloads' = [reloads EXCEPT ![c] = [pc |-> "idle"]]
    /\ UNCHANGED <<stores, disk, pending, saving, shell, budget, heard, dropped, overlapped>>

-----------------------------------------------------------------------------
\* The process ends and boots again.  An orderly stop cancels the worker,
\* with its batch, and flushes the queue; a crash flushes nothing.
InFlight ==
    IF shell.pc = "idle" THEN {}
    ELSE IF shell.pc = "llm" THEN Sentences(shell.input)
    ELSE UNION {Sentences(shell.texts[i]) : i \in DOMAIN shell.texts}

Restart ==
    /\ budget.stops < MaxStops
    /\ budget' = [budget EXCEPT !.stops = @ + 1]
    /\ \E flushed \in {{}, Sentences(pending)} :
         /\ disk' = disk \cup flushed
         /\ dropped' = dropped \cup InFlight \cup TextsOf(Sentences(saving))
                         \cup TextsOf(Sentences(pending) \ flushed)
         /\ stores' = <<disk \cup flushed>>
    /\ main' = 1 /\ chat' = 1
    /\ pending' = << >> /\ saving' = << >>
    /\ shell' = [pc |-> "idle"]
    /\ reloads' = [c \in Reloaders |-> [pc |-> "idle"]]
    /\ UNCHANGED <<heard, overlapped>>

ChatInit ==
    /\ stores = <<{}>> /\ main = 1 /\ chat = 1
    /\ disk = {} /\ pending = << >> /\ saving = << >>
    /\ shell = [pc |-> "idle"]
    /\ reloads = [c \in Reloaders |-> [pc |-> "idle"]]
    /\ budget = [calls |-> 0, stops |-> 0]
    /\ heard = {} /\ dropped = {} /\ overlapped = FALSE

Think == Respond \/ StartScan \/ EndScan \/ ScanFails
Flush == FlushTake \/ FlushSave \/ FlushFails
Change(c) ==
    StartChange(c) \/ CommitChange(c) \/ NoChange(c) \/ LoadStore(c) \/ SwapStore(c)

ChatNext ==
    \/ \E text \in Inputs : Perceive(text)
    \/ Think \/ Flush \/ Restart
    \/ \E s \in Statements : TellOverMcp(s)
    \/ \E c \in Reloaders : Change(c)

\* The model's client gives up in the end, so think() goes on; the worker's
\* loop is endless and survives every failure.
ChatFairness == WF_chatVars(Think) /\ WF_chatVars(Flush)

ChatSpec == ChatInit /\ [][ChatNext]_chatVars /\ ChatFairness

-----------------------------------------------------------------------------
(* Ada never grounds an answer in her own words: a fact that recall hands   *)
(* to the model is a sentence some user said, even after her answers went   *)
(* to disk and came back with a reload or a restart.                        *)
GroundedInUsers ==
    shell.pc = "llm" /\ shell.fact # Nobody => shell.fact.text \in heard

(* The chat and the fact tools work on one memory: after any change at rest *)
(* the chat sees the store the tools see, unless two such changes overlapped*)
(* (then the second finds that the chat has already moved on).              *)
ChatSeesMain == chat = main \/ overlapped

(* "I remember everything users tell me, even after restarts", as far as it *)
(* goes: a sentence typed on its own reaches the disk, unless its save      *)
(* failed, a tell broke the scan, or the process died first; all three are  *)
(* recorded in dropped.                                                     *)
SaidIsSaved ==
    \A s \in Statements :
        (shell.pc = "llm" /\ shell.input = <<s>>)
            ~> (s \in TextsOf(disk) \cup dropped)
=============================================================================
