----------------------------- MODULE MemoryStore -----------------------------
(***************************************************************************)
(* The memory storage mode: each space is a ThoughtSpace in RAM that       *)
(* answers every read, and the tables are its copy on disk.  A tell        *)
(* changes RAM at once and is then written through; a write that fails     *)
(* goes to a queue that a worker flushes every two seconds.  A handler     *)
(* that changes facts at rest reloads the space from disk and swaps it in. *)
(*                                                                         *)
(* The identity seeds of the chat space are left out: they are never       *)
(* written to disk and have no key.                                        *)
(***************************************************************************)
EXTENDS AtRest, SequencesExt

CONSTANTS
    MaxSecond,  \* bound: the seconds the clock may show
    MaxTells,   \* bound: the tells the clients may begin
    MaxBoots    \* bound: the times the server stops and boots again

ASSUME MemoryAssumption ==
    MaxSecond \in Nat /\ MaxTells \in Nat /\ MaxBoots \in Nat

VARIABLES
    spaces,         \* the store of each space (brain._spaces)
    persist_queue,  \* thoughts whose write-through failed
    batch,          \* what the worker took from the queue and still has to save
    mode,           \* "up", or "stopping" during the final flush
    clock,          \* the wall clock, in seconds
    tells,          \* tells begun so far; numbers the uuids
    boots           \* restarts so far

ramVars == <<spaces, persist_queue, batch, mode>>
boundVars == <<clock, tells, boots>>
vars == <<ada_thoughts, fact_slots, calls, faults, spaces, persist_queue,
          batch, mode, clock, tells, boots>>

-----------------------------------------------------------------------------
\* A ThoughtSpace: its thoughts, its version chains, its dedup set.
Store == [thoughts : SUBSET Thought, chains : [Keys -> Seq(Thought)],
          absorbed : SUBSET Texts]

EmptyStore == [thoughts |-> {}, chains |-> [k \in Keys |-> << >>], absorbed |-> {}]

Call ==
    {Idle} \cup MaintenanceCall
      \cup [pc : {"persist"}, thought : Thought]
      \cup [pc : {"swap"}, space : Spaces, fresh : Store]

\* Mutant of NextVersion: versions counted from zero.
ChainLength(store, k) == IF k = NoKey THEN 1 ELSE Len(store.chains[k])

NextVersion(store, k) ==
    IF k = NoKey \/ store.chains[k] = << >> THEN 1
    ELSE Last(store.chains[k]).version + 1

\* Mutant of NewThought: the id of a keyed fact does not carry its version.
NewUnversioned(sp, f, k) ==
    [thought_id |-> IF k = NoKey THEN <<NoKey, tells, 1>> ELSE <<k, clock, 1>>,
     space_id |-> sp, content |-> f.content, key |-> k,
     version |-> NextVersion(spaces[sp], k), fill |-> f.fill]

NewThought(sp, f, k) ==
    LET version == NextVersion(spaces[sp], k) IN
    [thought_id |-> IF k = NoKey THEN <<NoKey, tells, 1>> ELSE <<k, clock, version>>,
     space_id |-> sp, content |-> f.content, key |-> k,
     version |-> version, fill |-> f.fill]

\* _thoughts is a dict by id; the chain keeps every thought appended to it.
Remember(store, t) ==
    [thoughts |-> {x \in store.thoughts : x.thought_id # t.thought_id} \cup {t},
     chains |-> IF t.key = NoKey THEN store.chains
                ELSE [store.chains EXCEPT ![t.key] = Append(@, t)],
     absorbed |-> store.absorbed \cup {Norm[t.content]}]

\* False only for the superseded versions of a key.
IsCurrent(store, t) ==
    \/ t.key = NoKey
    \/ store.chains[t.key] = << >>
    \/ Last(store.chains[t.key]).thought_id = t.thought_id

\* Mutants of LoadedThoughts: archived facts come back, superseded ones do not.
ArchivedToo(sp) ==
    {[r.thought EXCEPT !.space_id = Main] :
        r \in {x \in ada_thoughts : x.thought.space_id = sp}}
CurrentOnly(sp) ==
    {[r.thought EXCEPT !.space_id = Main] :
        r \in {x \in Live(sp) : x.thought.thought_id \in CurrentSlotIds(sp)}}

\* Loaded thoughts are built without a space and get the default one.
LoadedThoughts(sp) == {[r.thought EXCEPT !.space_id = Main] : r \in Live(sp)}

\* Mutant of VersionOrders: chains in the order the rows come.
AnyOrders(S) == SetToSeqs(S)

VersionOrders(S) ==
    {q \in SetToSeqs(S) : \A i, j \in DOMAIN q : i < j => q[i].version <= q[j].version}

\* What load_thoughts may build for a space: the rows come in any order.
LoadedStores(sp) ==
    LET all == LoadedThoughts(sp)
        under(k) == {t \in all : t.key = k}
    IN  {[thoughts |-> all, chains |-> chains,
          absorbed |-> {Norm[t.content] : t \in all}] :
            chains \in {f \in [Keys -> UNION {VersionOrders(under(k)) : k \in Keys}] :
                          \A k \in Keys : f[k] \in VersionOrders(under(k))}}

-----------------------------------------------------------------------------
(* tell and tell_raw: dedup, versioning and the store are one uninterrupted *)
(* piece of code; a duplicate changes nothing.                              *)
Tell(c, sp, f, k) ==
    LET t == NewThought(sp, f, k) IN
    /\ mode = "up" /\ tells < MaxTells
    /\ Norm[f.content] \notin spaces[sp].absorbed
    /\ Begin(c, [pc |-> "persist", thought |-> t])
    /\ spaces' = [spaces EXCEPT ![sp] = Remember(@, t)]
    /\ tells' = tells + 1
    /\ UNCHANGED <<tables, faults, persist_queue, batch, mode, clock, boots>>

\* The write-through succeeds, and the reply says durable.
Persist(c) ==
    /\ calls[c].pc = "persist"
    /\ save_thought(calls[c].thought)
    /\ Resume(c, Idle)
    /\ UNCHANGED <<faults, ramVars, boundVars>>

\* Mutant of PersistFails: the fact is not queued.
PersistDrops(c) ==
    /\ calls[c].pc = "persist"
    /\ Fault
    /\ Resume(c, Idle)
    /\ UNCHANGED <<tables, ramVars, boundVars>>

PersistFails(c) ==
    /\ calls[c].pc = "persist"
    /\ Fault
    /\ persist_queue' = Append(persist_queue, calls[c].thought)
    /\ Resume(c, Idle)
    /\ UNCHANGED <<tables, spaces, batch, mode, boundVars>>

-----------------------------------------------------------------------------
\* The worker takes the whole queue, then saves what it took one by one.
FlushTake ==
    /\ batch = << >> /\ persist_queue # << >>
    /\ batch' = persist_queue
    /\ persist_queue' = << >>
    /\ UNCHANGED <<tables, calls, faults, spaces, mode, boundVars>>

FlushSave ==
    /\ batch # << >>
    /\ save_thought(Head(batch))
    /\ batch' = Tail(batch)
    /\ UNCHANGED <<calls, faults, spaces, persist_queue, mode, boundVars>>

\* A save that fails is logged.
FlushFails ==
    /\ batch # << >>
    /\ Fault
    /\ batch' = Tail(batch)
    /\ UNCHANGED <<tables, calls, spaces, persist_queue, mode, boundVars>>

-----------------------------------------------------------------------------
\* _reload_memory_space: read the rows, then swap the store in.
ReloadRead(c) ==
    /\ calls[c].pc = "reload"
    /\ \E fresh \in LoadedStores(calls[c].space) :
          Resume(c, [pc |-> "swap", space |-> calls[c].space, fresh |-> fresh])
    /\ UNCHANGED <<tables, faults, ramVars, boundVars>>

ReloadSwap(c) ==
    /\ calls[c].pc = "swap"
    /\ spaces' = [spaces EXCEPT ![calls[c].space] = calls[c].fresh]
    /\ Resume(c, Idle)
    /\ UNCHANGED <<tables, faults, persist_queue, batch, mode, boundVars>>

\* The entities a condition can match: those of the current thoughts in RAM.
MatchedNames(sp, e) ==
    {e} \cap {t.fill : t \in {x \in spaces[sp].thoughts : IsCurrent(spaces[sp], x)}}

ChainIds(sp) ==
    {t.thought_id : t \in UNION {ToSet(spaces[sp].chains[k]) : k \in Keys}}

MemoryMaintain(c) ==
    /\ mode = "up"
    /\ \/ Maintain(c)
       \/ MaintenanceFails(c)
       \/ \E sp \in Spaces :
             \/ \E e \in Entities : ArchiveSelect(c, sp, MatchedNames(sp, e))
             \/ \E id \in RowIds(sp) \cup ChainIds(sp), change \in Amendments :
                   AmendStart(c, sp, id, change)
    /\ UNCHANGED <<ramVars, boundVars>>

-----------------------------------------------------------------------------
\* What a process that boots finds: the main space of the tables, no calls.
Boot ==
    /\ calls' = [c \in Clients |-> Idle]
    /\ \E main \in LoadedStores(Main) :
          spaces' = [sp \in Spaces |-> IF sp = Main THEN main ELSE EmptyStore]
    /\ persist_queue' = << >>
    /\ batch' = << >>
    /\ mode' = "up"

Crash ==
    /\ boots < MaxBoots
    /\ boots' = boots + 1
    /\ Boot
    /\ UNCHANGED <<tables, faults, clock, tells>>

(* Shutdown waits for the calls, cancels the worker wherever it is, and     *)
(* flushes the queue a last time.                                           *)
Shutdown ==
    /\ mode = "up" /\ boots < MaxBoots
    /\ \A c \in Clients : calls[c] = Idle
    /\ mode' = "stopping"
    /\ batch' = persist_queue
    /\ persist_queue' = << >>
    /\ UNCHANGED <<tables, calls, faults, spaces, boundVars>>

Restart ==
    /\ mode = "stopping" /\ batch = << >>
    /\ boots' = boots + 1
    /\ Boot
    /\ UNCHANGED <<tables, faults, clock, tells>>

Tick ==
    /\ clock < MaxSecond
    /\ clock' = clock + 1
    /\ UNCHANGED <<tables, calls, faults, ramVars, tells, boots>>

Init ==
    /\ ada_thoughts = {}
    /\ fact_slots = {}
    /\ calls = [c \in Clients |-> Idle]
    /\ faults = 0
    /\ spaces = [sp \in Spaces |-> EmptyStore]
    /\ persist_queue = << >>
    /\ batch = << >>
    /\ mode = "up"
    /\ clock = 0
    /\ tells = 0
    /\ boots = 0

Next ==
    \/ \E c \in Clients :
          \/ \E sp \in Spaces, f \in Facts, k \in MaybeKeys : Tell(c, sp, f, k)
          \/ Persist(c) \/ PersistFails(c)
          \/ MemoryMaintain(c) \/ ReloadRead(c) \/ ReloadSwap(c)
    \/ FlushTake \/ FlushSave \/ FlushFails
    \/ Crash \/ Shutdown \/ Restart \/ Tick

Spec == Init /\ [][Next]_vars

-----------------------------------------------------------------------------
TypeOK ==
    /\ TablesTypeOK
    /\ calls \in [Clients -> Call]
    /\ spaces \in [Spaces -> Store]
    /\ persist_queue \in Seq(Thought) /\ batch \in Seq(Thought)
    /\ mode \in {"up", "stopping"}
    /\ faults \in Nat /\ clock \in Nat /\ tells \in Nat /\ boots \in Nat

OnDisk(t) == \E r \in Live(t.space_id) : r.thought = t

Pending(t) ==
    \/ t \in ToSet(persist_queue) \cup ToSet(batch)
    \/ \E c \in Clients : calls[c].pc = "persist" /\ calls[c].thought = t

(* What a read may answer from RAM is on disk or still on its way there: in *)
(* a write-through, in the queue or in the worker's batch.  The queue        *)
(* absorbs one database error, wherever it happens.                         *)
NothingToldIsLost ==
    mode = "up" /\ faults <= 1 =>
        \A t \in spaces[Main].thoughts :
            OnDisk([t EXCEPT !.space_id = Main]) \/ Pending(t)

(* Whatever is on disk is readable: a fact whose tell was answered durable  *)
(* is in RAM, across interleaved tells, late flushes and restarts.          *)
DiskIsInRam ==
    \A r \in Live(Main) : r.thought \in spaces[Main].thoughts

(* Version chains stay strictly ordered, and no two stored rows of a key    *)
(* carry the same version number, whichever tells failed or were cut off.   *)
ChainsInOrder ==
    /\ \A sp \in Spaces, k \in Keys :
          \A i, j \in DOMAIN spaces[sp].chains[k] :
             i < j => spaces[sp].chains[k][i].version < spaces[sp].chains[k][j].version
    /\ \A r, q \in ada_thoughts :
          /\ r.thought.key # NoKey /\ r.thought.key = q.thought.key
          /\ r.thought.space_id = q.thought.space_id
          /\ r.thought.version = q.thought.version
          => r = q

\* Tells, flushes and restarts only ever add rows: no fact is overwritten.
TellsOnlyAdd == [][ada_thoughts \subseteq ada_thoughts']_vars

-----------------------------------------------------------------------------
\* Nothing is on its way to disk or back.
Quiet ==
    /\ mode = "up" /\ persist_queue = << >> /\ batch = << >>
    /\ \A c \in Clients : calls[c] = Idle

Mirrors(sp) ==
    LET ids(S) == {<<t.thought_id, t.content>> : t \in S}
        disk == {r.thought : r \in Live(sp)}
        store == spaces[sp]
    IN  /\ ids(store.thoughts) = ids(disk)
        /\ store.absorbed = {Norm[t.content] : t \in disk}
        /\ \A k \in Keys :
              ids(ToSet(store.chains[k])) = ids({t \in disk : t.key = k})

(* "After an at-rest mutation, a memory-mode space must reload from the     *)
(* DB": with one client, whenever nothing is in flight the main space       *)
(* answers, deduplicates and numbers versions from exactly the facts that   *)
(* are live on disk.                                                        *)
RamMirrorsDisk == Quiet => Mirrors(Main)

(* "Boot: load all non-archived thoughts ... and rebuild version chains":   *)
(* after a restart every space has its facts back.                          *)
BootRestoresEverySpace == Quiet => \A sp \in Spaces : Mirrors(sp)

(* "fall back to the background queue on failure so the fact is retried     *)
(* rather than lost": a queued thought leaves the queue and the worker only *)
(* for the disk, unless the process stops.                                  *)
QueuedIsRetried ==
    [][\A t \in ToSet(persist_queue) \cup ToSet(batch) :
          \/ t \in (ToSet(persist_queue) \cup ToSet(batch))'
          \/ \E r \in ada_thoughts' : r.thought = t
          \/ boots' # boots]_vars
=============================================================================
