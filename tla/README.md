# A verification development for Ada's fact memory

Ada is a schema-on-write fact memory behind an MCP server.  A client *tells*
facts, possibly under a key; a fact told under a key becomes the next version
of that key, and a closed set of operations answers over current belief.  These
TLA+ modules model the code that stores, versions, corrects, retires and forgets
facts, in both storage modes, with the interleavings of the handlers of one
asyncio process, the database errors they meet, and restarts; and, around that
core, the read surface of both modes, the chat pipeline, the enrichers, accounts,
tokens, the circuit breaker and the vault.  TLC checks the models on small instances and TLAPS proves what it can for all of them.

All paths below are under `src/`.

## 1. The system

| Component | State | Operations | Hard behaviour | What makes it correct |
|---|---|---|---|---|
| Tables `ada_thoughts`, `fact_slots` (`domains/models/db_models.py`, `ada/memory/thought_persistence.py`) | rows by `thought_id`; slot rows with key, version, `is_current` | `save_thought`, `amend_thought`, `load_thoughts` | saves of one key out of order, re-saves of the same id | slot rows are what the thoughts decompose into; the newest version answers |
| `SqlFactStore` (`ada/memory/sql_store.py`), sql mode | none in RAM | `absorb`, `tell_raw`, reads as SQL templates | duplicate check, version read and save are three transactions | a client alone on a space gets a versioned memory; belief never moves back |
| `ThoughtSpace` (`ada/memory/thought_space.py`), memory mode | thoughts by id, version chains, dedup set | `absorb`, `tell_raw`, reads as scans | RAM runs ahead of the disk; reload swaps in rows read earlier | RAM and disk agree when nothing is in flight; nothing told is lost |
| Write-through, queue and worker (`domains/mcp/server.py` `_persist_now`, `domains/brain/think.py`, `ada/server.py`) | `_persist_queue`, the worker's batch | write-through, enqueue on failure, flush every 2 s, final flush | failed saves, crash, cancelled worker | a queued fact reaches the disk |
| MCP handlers at rest (`domains/mcp/server.py`) | none | `archive`, `forget`, `forget_all`, `amend`, then a reload | ids selected in one transaction, written in another | no half-applied change, no revival of a superseded version |
| Consolidation and merging (`ada/memory/consolidate.py`) | none | `consolidate` (re-enrich, resolve speaker, archive near duplicates), `merge_entities` | writes back a snapshot read long before | later edits survive; no near-duplicate pair is left |
| Closed operations (`ada/cognitive/ops.py`, both stores) | profile cache | count, distribution, intersection, lookup, recall | two implementations, a cache, an upgraded database | both modes answer alike, from current belief only |
| Profiles and drift (`ada/memory/profile_sim.py`) | none | similarity, drift | numeric edges | results stay in [0, 1]; not modelled |
| Chat pipeline (`domains/brain/thought_process.py`, `ada/memory/ada_cognitive.py`, `ada/memory/ada_conversation.py`) | conversation window, the chat store | think, recall, absorb, queueing | runs in a thread beside the event loop, waits for the model between recall and absorb | what is said reaches the disk; answers rest on what users said; chat and tools share a store |
| Users and sessions (`domains/auth/users.py`, `api/routes/auth.py`) | user and session rows | seeding, login, rotation, user administration | each statement is an await; requests of several browsers mix | old passwords and seeded credentials are out for good, an admin remains |
| Tokens (`domains/auth/service.py`, `domains/mcp/app.py`, `api/routes/tokens.py`, `shared/auth.py`) | token rows, one shared session, a cache of platform JWTs | validate, check access, create, revoke, delete | one session object shared by concurrent lookups; cached answers | a dead token runs nothing, the shared session is released |
| Retry and breaker (`shared/retry.py`) | breaker state and counters | allow, record, sleep and retry | results that answer late | the documented thresholds; an open breaker recovers, a call ends |
| Vault (`domains/brain/skills/vault.py`) | one encrypted file | set, delete | not atomic on disk | no secret is lost without a mishap |
| Bootstrap (`infrastructure/database/connection.py`) | schema | `init_db`, SQLite backfill | upgrade of an old database | backfilled slots equal written ones |
| Enrichers (`ada/encoder/llm_enricher.py`, `ada/cognitive/universal.py`) | the answers kept for each text | slots of a text, its structural parse | the model fails, or answers differently the second time; slots are sanitised and told who speaks, the parse is not; facts and questions have tables of their own | the two halves of a thought agree; questions parse to the key of their facts |
| LLM client, schema evolution, terminal client, workbench UI, middleware, health, benchmarks, examples | — | — | — | not modelled, see section 8 |

Interaction: the MCP server dispatches a tool call to a handler (`call_tool`);
the handler asks `Brain.space` for the store of the space.  In sql mode the
store goes to the tables for everything.  In memory mode it changes RAM first
and the handler writes through with `_persist_now`; a failure puts the fact in
`Brain._persist_queue`, which a worker flushes.  The handlers at rest change the
tables directly and then call `_reload_memory_space`.  The server runs in one
process on one event loop: code between two `await`s is atomic, and every
`await` lets other handlers run.  The shell is the exception: it calls
`Brain.think` in a thread of its own, on the store that `brain.space("main")`
and the tools use.  Every MCP request first passes `MCPRoutingMiddleware`
(token or session, level, space); the workbench and REST routes resolve their
users through `domains/auth/users.py` and `shared/auth.py`.

## 2. Modules

| Module | Models |
|---|---|
| `FactTables` | The two tables and the transactions that write them: `save_thought`, `amend_thought`, `archive_rows`, `delete_rows`, `delete_space`.  Invariants of the tables. |
| `AtRest` | `archive`, `forget`, `forget_all`, `amend`: one action per stretch between two awaits.  `calls[c]` is where the call of client `c` waits, with the local variables it will use when it resumes. |
| `SqlStore` | sql mode: a tell as `TellStart`, `CheckDuplicate`, `ReadVersion`, `Save`, with the handlers of `AtRest`, the clock, errors and restarts. |
| `MemoryStore` | memory mode: `Tell` on RAM, `Persist`/`PersistFails`, the worker (`FlushTake`, `FlushSave`, `FlushFails`), `ReloadRead`/`ReloadSwap`, `Crash`, `Shutdown`, `Restart`. |
| `NearDuplicates` | When consolidation takes one content for a misspelling of another: the capped edit distance of `_edit_distance` row by row, and the reference it is compared with (`Misspelt`: two edits make one word of the other). |
| `Consolidate` | `SqlStore` with `consolidate` (`ConsolidateRead`, `ConsolidateSave`, `ConsolidateArchive`) and `merge_entities` (`MergeRead`, `MergeCommit`) beside the other calls. |
| `VersionedMemory` | The abstract specification: what a client that waits for each reply is promised. `SqlStore` implements it (`KeepsPromise`). |
| `Reads` | The read surface over one table of facts: the SQL templates and the scans in RAM side by side, with the profile cache, the writes that must drop it, and the boot that upgrades an old database. |
| `Chat` | `Brain.think` in the shell's thread, beside the worker, tells over MCP and the handlers that swap the store. |
| `Conversation` | The window of turns that goes into the prompt. |
| `Enricher` | What `absorb` and `recall` do with the model-backed enricher (what it keeps, the sanitised slots, the speaker, the projection) and with the heuristic one, two tables of patterns. |
| `Accounts` | Users, sessions and the workbench's requests, one action per statement. |
| `Tokens` | API tokens, the `AuthService` that all requests share, the level and space checks, the token tools and routes. |
| `PlatformTokens` | Who the REST routes let in: platform JWTs verified here, or by the platform and cached, and database tokens. |
| `Breaker` | `CircuitBreaker` inside `retry_with_backoff`, for any number of callers. |
| `Vault` | The vault file and the processes that load and rewrite it. |
| `SqlStoreMC`, `MemoryStoreMC`, `ConsolidateMC`, `ReadsMC`, `PartsMC` | Values for the constants. `PartsMC` puts the nine modules above side by side. |
| `AtRest_proofs`, `SqlStore_proofs`, `Consolidate_proofs` | Lemmas on each transaction and handler; the theorems on types, slot rows and one current version, and on what consolidations write back. |
| `Belief_proofs` | The theorems on which version answers. |
| `Promise_proofs` | The refinement: `SqlStore` implements `VersionedMemory`. |
| `MemoryStore_proofs` | The theorems on memory mode: types, slot rows, what tells keep, RAM against disk. |
| `Services_proofs` | The theorems on `Breaker`, `Vault`, `Enricher`, `Chat`, `Conversation` and `Reads`. |
| `Access_proofs` | The theorems on `Accounts`, `Tokens` and `PlatformTokens`. |

`FactTables` <- `AtRest` <- `SqlStore` and `MemoryStore`, and `SqlStore` <-
`Consolidate`: the two modes share the tables and the handlers in the model
because they do in the code.  A constant `Handlers` says which handlers the
clients of a run use.  The nine modules of `PartsMC` share no state: in the code
they meet only through what each leaves in its own tables, file or dictionary.
`Chat` has its own small picture of a store (sentences and who said them) because
versions and slots do not matter there, and `Reads` has its own rows because it
needs slot values, which `FactTables` abstracts; both take from `MemoryStore` the
fact that RAM mirrors the live rows when nothing is in flight.  Operators
introduced by a comment "Mutant of" are not part of a specification; they are
faulty versions of the definition that follows them and are used to show that
each property can fail.

### How state and actions correspond to the code

* `Accounts`: `users` and `sessions` are the tables; `browsers[b]` is a cookie and
  the request under way with the row objects it has read.  A request with a
  session is `Begin` (the session row), `Admit` (the user row, then the forced
  rotation and the role), and the action of its operation.  Login is
  `Authenticate`, `CreateSession`; a password change is `ChangePassword`,
  `RevokeOtherSessions`; a new user is `LookUpName`, `InsertUser`.
* `Tokens`: `borrowing` is `AuthService._session`, by the request that opened it.
  `Present` starts a lookup, `Found` or `Refused` ends it, `Authorize` or `Forbid`
  is the check of the tool call, then the handler runs.  A lookup that shared its
  session may be refused although its token is good: SQLAlchemy rejects two
  statements at once on one session.
* `PlatformTokens`: one action per path of `_validate_platform_jwt`, and one for
  the database lookup; `cache` is `_platform_jwt_cache` without the claims.
* `Breaker`: `attempts[c]` is where a wrapped call is: about to try, running,
  asleep.  Every access to the `state` property may turn open into half-open, so
  `StateRead` and `SuccessesRead` appear in each action that reads it.
* `Vault`: `file` is missing, unreadable or a dictionary; a save truncates the
  file (`BeginSave`) and then fills it (`FinishSave`).
* `Enricher`: `AbsorbOnline` makes the two calls that `ThoughtSpace.absorb` makes,
  each answered by the model, by a failure, or by what is kept.  The first answer
  becomes `filled`, what is left of it after `_sanitize_universal` and
  `_resolve_speaker_entity`; the second becomes `parsed`, its projection as it came.
  `RecallOnline` asks for the parse of a query.  `AbsorbOffline` is the heuristic
  enricher: a sentence is the pattern it has the form of and the words that fill it;
  `FactTable` is `_try_facts`, `QuestionTable` is `_try_queries`, and each pattern
  says how many words its subject may have.  A thought that is loaded from the
  database has lost its parse (`LoadThought`).
* `Chat`: `stores` holds every `ThoughtSpace` ever made for main, `main` and `chat`
  say which one the registry of spaces and the pipeline hold.  `Perceive` is think
  up to the call to the model, `Respond` is what follows it, `StartScan` and
  `EndScan` (twice) are `_queue_persist` for the input and the answer.
* `Conversation`: `turns` is the window; `answered` remembers every turn.
* `Reads`: `Sql...` operators are the queries, `Ram...` operators the scans; the
  actions are the writes and boots between which they are compared.  A fact has a
  text and what fills its slots, both as they were told; `Norm` is what
  `strip().lower()` makes of them.  `NameOf` groups facts in the profiles,
  `EntityOf` in the slot rows.

### What is abstracted

* Content is a member of `Texts`, as it was told.  `Norm` is what `strip().lower()`
  makes of it, `SqlLower` what `lower()` of the database makes of what is stored:
  memory mode compares `Norm` with `Norm`, sql mode `SqlLower` of the stored text
  with `Norm` of the new one.  In the runs `p2` is `t2` with outer blanks.
* The universal slots of a fact are told apart by the entity they name:
  an entity, `NoEntity` (slots that name none) or `NoFill` (no slots).  All slot
  rows of a thought carry the same space, key, version, entity and `is_current`
  and are always written together, so `fact_slots` has one record per thought.
  The entity of a slot row is `entity.name` or else `relational.subject`; in these
  modules it is one value, which the tables read and write alike, and `Reads`, where
  the modes differ by it, has both.  An archive condition is "the entity is e".
* A key is a model value and the id of a keyed fact is `<<key, second,
  version>>`, which is what `"{key}@{stamp}#v{version}"` tells apart.  Unkeyed
  ids are uuids: a fresh number per thought, minted when the thought is built.
  Consolidation compares `created_at`; the number stands for it.
* One transaction is one step.  The databases used (SQLite in WAL mode,
  PostgreSQL) isolate more weakly than that only in when a statement sees rows
  of an overlapping transaction; an outcome of that kind (a save that does not
  see a concurrent save of an older version) is also an outcome of two saves in
  the other order, which the models contain.
* `Fault` is an exception in any await of a call; the handler answers with an
  error, or queues the fact in `_persist_now`.  An error after a commit that took
  effect is not modelled.
* The identity seeds of the chat space are in RAM only and never versioned; they
  are left out.  The chat pipeline fills the queue too, from the terminal client
  only; in the server the queue holds failed write-throughs.
* A content carries its words, a word its letters, for the near-duplicate pass
  only.  The enricher of the first pass may find the slots of a content or fail,
  for any of the facts it is asked about.  The second pass resolves the slots in
  `Unnamed` of a first-person content to the operator.  The order in which rows
  are read, and in which refilled ones are written back, is arbitrary.
* A merge re-points the entity of thoughts and slot rows.  The value column of a
  slot row is not in the model: the code leaves the old name there.
* A `dry_run` call reads and answers; it changes nothing and is not an action.
* `Accounts` merges the two reads of a user row inside one request where nothing
  is decided between them, and leaves out the commit of `last_login`, which no
  decision reads.  `Logout` and the revocations merge a SELECT with the UPDATE of
  the rows it found: they only set `revoked`, which nothing unsets.  Passwords are
  compared as themselves; the policy is taken as applied.
* `Tokens` has one organisation.  In the code a token that names one has its
  permissions there (service.py:125-128) and the tools ask for those of
  `ADA_ORG_ID` (app.py:148-155), so a token of another organisation is refused
  where the model lets it in; the route for an organisation's owner compares it
  too.  Creating a token merges its transaction.
* `Breaker` counts time in ticks; jitter, which only lengthens a sleep, and
  cancelled calls, which record nothing, are left out.
* `Chat` leaves recall's choice of a fact open, and the identity seeds out: their
  speaker is `ada`, so recall never returns them.  A model that is blocked or fails
  gives one of the fixed answers or the fact itself.
* `Reads` runs one call at a time (the other modules interleave them).  The caps on
  rows, the order of equal counts, and the matches by containment on predicates
  and unknown persons are left out.

## 3. Runs

| Run | Question | Bounds |
|---|---|---|
| `sql_concurrent` | Two clients at once on one space of sql mode: `TypeOK`, `SlotsDecomposeThoughts`, `NewestIsCurrent`, `BeliefMovesForward`. | 2 clients, 1 key, 4 texts of which one repeats another but for its blanks, 3 thoughts, 2 seconds, no errors |
| `sql_serial` | One client that waits for each reply: `OneCurrentVersion`, and the refinement `KeepsPromise`. | 1 client, 2 keys, 3 tells of 4 texts, 1 error, restarts at any await |
| `consolidate_serial` | One client that tells, amends, consolidates and merges: `JanitorTypeOK`, `SlotsDecomposeThoughts`, `NewestIsCurrent`, `OnlyRefills`, `NoTwinsLeft`, `NewerWins`. | 1 client, 3 thoughts of 5 contents, 1 error, restarts at any await |
| `mem_tells` | Two clients that only tell in memory mode, with a failed write, the worker, crashes, shutdowns and boots: `TypeOK`, `NewestIsCurrent`, `NothingToldIsLost`, `DiskIsInRam`, `ChainsInOrder`, `TellsOnlyAdd`. | 2 clients, 4 tells, 2 errors, 2 restarts, 2 seconds |
| `mem_serial` | One client with every handler in memory mode: `RamMirrorsDisk`. | 1 client, 3 tells, 2 seconds, 1 restart |
| `parts` | The nine modules around the fact stores, each running alone: see below. | see below |
| `ops_parity` | Does count answer alike in both modes? TLC finds that it does not. | 4 writes, 5 facts |
| `sql_spaces` | Do version chains cross spaces? TLC finds that they do. | 2 spaces, 1 client, 2 tells, 1 second |
| `consolidate_revives` | Does one version of a key answer after a consolidation? TLC finds that two do. | 1 client, 2 thoughts |
| `consolidate_overlap` | Does consolidation leave contents alone when a fact is amended meanwhile? TLC finds that it restores the old one. | 2 clients, 1 thought |
| `mem_flush` | Is a queued fact retried until it is saved? TLC finds that it is dropped. | 1 client, 2 errors |
| `mem_boot` | Does a restart restore every space? TLC finds that it does not. | 2 spaces, 1 client, 1 restart |

Why the bounds are enough: three tells are what it takes for two writers of one
key to hold the same version and then be overtaken by a third; two seconds are
what it takes for two saves of one version to have different ids or the same;
one database error separates "queued" from "saved", and a second separates
"retried" from "dropped".  Three of the contents of the consolidation runs are a
misspelling `t1`, its correction `t2`, and a misspelling `t3` of `t2` that is too far from
`t1`: three facts are what it takes for the pass to meet likeness that is not
transitive, in each of the orders the database may choose.  Clients, keys and the texts `t1` and `t3` (told with
the same slots, mentioned by no amendment) are interchangeable, so the runs use
symmetry; they check safety only.  `CHECK_DEADLOCK` is off because a run ends
when its bounded tells are used up.

**The run `parts`.**  Nine modules without shared state would be nine runs; here a
variable `part` picks one of them in the initial state, the actions of that one
run and the variables of the others stay put.  What a property says of one part is
the same as in a run of its own: the initial states are those of that module, and
no fair action of `Breaker` or `Chat` is enabled in the initial states of the
others, so fairness asks nothing of them.

| Part | Properties | Bounds, and why |
|---|---|---|
| accounts | `OldPasswordsAreOut`, `RotatedFirst`, `NeverSeededAgain`, `LastAdministrator` | 2 browsers, root and one more administrator, one chosen password and one made by the server, 2 sessions, 1 tick past expiry: two administrators and two sessions are what it takes to disable each other and to overlap a login with a change |
| tokens | `LookupReleased`, `DeadTokensStayOut`, `RevokedBeforeDeleted` | 2 callers, 3 tokens of which two show the same prefix, 1 day past expiry: one caller borrows the other's session |
| platform | `StaleForFiveMinutes` | 1 JWT, entries of 2 ticks, 4 seconds: an entry is made, ends and is made again, with and without a local secret |
| breaker | `OpensAfterARow`, `ClosesAfterARow`, `OpenEnds`, `CallsEnd` | 2 callers, thresholds of 2, recovery of 2 ticks, 1 retry: a late result meets every state; time and the number of calls have no bound |
| vault | `SecretsKept` | 2 processes, 2 names, 1 value or none |
| enricher | `EnrichmentsAgree`, `QuestionsMeetFacts` | 2 texts, 5 answers or a failure, with and without a known speaker; every pattern with a name in two spellings, one of two words and "i", 2 attributes and a value or "none": each way in which slots and parse may differ, and each in which two tables may |
| chat | `GroundedInUsers`, `ChatSeesMain`, `SaidIsSaved` | 3 inputs or handler calls, 2 handlers, 1 stop: a statement alone and one followed by a question |
| conversation | `NewestTurnsShown` | 4 turns, window of 2 |
| reads | `ModesAgree`, `RecallIsCurrentBelief` | 4 writes, both modes, 5 facts over 2 entities, 3 slots and 1 key (two about one entity with one value in other spellings, of which one has another entity for its subject and repeats the text of the other but for a blank; one with a subject and no name; one with neither); databases from before slot rows with a chain of two, either of them archived |

### What the properties say, and when they do not hold

* `NewestIsCurrent` holds for tells, archives, amends and wipes.  It is not
  checked with `forget` by id or entity, which may take the newest version out
  of a chain and, in sql mode, leave the older ones superseded; nor with
  `forget` by key, where a fourth overlapping tell that saves the same id as a
  forgotten version can do the same.
* `OneCurrentVersion` holds for one client that does not consolidate
  (`consolidate_revives`).  With two, both may read the same
  last version and save it in different seconds, and both rows stay current.
* `KeepsPromise` is about one client on one space.  `VersionedMemory` refuses a
  telling that repeats a content it holds, and which telling repeats which content
  (`Repeats`) is what the code's comparison says, blanks included.  Two clients may store a
  content twice and overwrite each other's version when they tell the same key
  in the same second.
* `OnlyRefills` holds while no other call overlaps the consolidation
  (`consolidate_overlap`).  `SlotsDecomposeThoughts` holds with merging for calls
  that do not overlap: a tell that commits between the two transactions of a
  merge keeps the source in its thought and gets the target in its slot rows.
* `NoTwinsLeft` and `NewerWins` compare the code's capped edit distance, through
  what it makes the pass retire, with the definition of a misspelling.  `NewerWins`
  does not say that the winner of a retired fact survives: it may be retired in
  turn by a still newer spelling.
* `NothingToldIsLost` allows for one error: a second may hit the worker, which
  drops what it fails to save (`mem_flush`).
* `DiskIsInRam` and `NothingToldIsLost` are checked without the handlers at
  rest: a reload that overlaps a tell swaps in rows read before it.
* `RamMirrorsDisk` speaks of the states in which nothing is in flight, and is checked
  without errors: a reload that fails after its handler committed leaves the old RAM.
* `OldPasswordsAreOut` names one exception: a login that verified the old password
  before the change and inserts its session after it.
* `LastAdministrator` names one: two administrators that disable each other; each
  request has passed the check that one does not disable oneself.
* `LookupReleased` and `DeadTokensStayOut` do not say that a good token is
  accepted: a lookup that overlaps another may be refused.
* `SecretsKept` names three mishaps: a write cut short, a file the machine cannot
  decrypt (moved, or reinstalled elsewhere), two commands at once.
* `EnrichmentsAgree` is what keeping the answer buys; the price is that a failure is
  kept too, and that text is never asked about again.  The two halves agree but for
  what only the slots go through: a word of the parse may be missing from the slots
  if it is a blank ("none", "n/a"), and "i" stands for the speaker, whom only the
  slots name.
* `QuestionsMeetFacts` says for which facts a question gets the whole structural
  bonus of `score_thought`: those it asks for, when its subject is one word.  Facts
  with "has" are asked for by no question.
* `ChatSeesMain` names one exception: two reloads of main that overlap both started
  from the same store, and the second no longer moves the chat.
* `SaidIsSaved` is about a sentence typed on its own.  A failed save, a scan broken
  by a concurrent tell, and a process that ends first are recorded in `dropped`.
* `ModesAgree` and `RecallIsCurrentBelief` hold in the `Comparable` states: every
  key with a live version has a current live one, and no archived fact has current
  slot rows.  Forgetting the newest version by id or archiving it, and amending an
  archived fact of an upgraded database, leave them.
* Within these states `ModesAgree` asks for equal answers about the entities that
  all their facts give as `entity.name` (`Named`).  A fact that has a person only as
  the subject of its relation is under that person in the slot rows and nowhere in
  the profiles; about such an entity memory mode tells part of what sql mode tells,
  never more.  `previous_value` is compared when every version is there and fills
  the slot, for sql mode takes the second newest that fills it and memory mode the
  second newest, and up to its spelling, for sql mode answers in lower case.
* The second half of `RecallIsCurrentBelief` names an exception, `NoneOutranked`:
  recall in sql mode compares with the newest version that has slot rows, archived
  or not.  An archived fact of an upgraded database that was amended has slot rows,
  keeps them when it is archived again, and hides a current fact of a lower version.

## 4. Disagreements found

1. **Spaces share version ids** (`sql_spaces`).  README.md:165-167: "facts,
   counts, and version chains never cross".  The id of a keyed fact has no space
   in it and `thought_id` alone is the primary key, so the same version of a key
   told in two spaces within a second is one row, and the second save takes it.
2. **A queued fact is dropped** (`mem_flush`).  domains/mcp/server.py:620-621:
   "retried rather than lost".  The worker clears the queue first and only logs
   a save that fails.
3. **Boot restores main only** (`mem_boot`).  thought_persistence.py:7-8: "Boot:
   load all non-archived thoughts".  In memory mode the other spaces stay empty
   until a handler at rest happens to reload them.
4. **Consolidation revives superseded versions** (`consolidate_revives`).
   thought_persistence.py:175-177: "A new version of a key marks the prior
   versions' slot rows is_current=0".  The snapshot holds superseded versions,
   and `save_thought` makes the one it writes back current beside the newer one.
5. **Consolidation rewrites content** (`consolidate_overlap`).
   consolidate.py:18-19: "Content is never rewritten".  A fact amended between the
   snapshot and the write-back gets its old content back.
6. **Count differs between the modes** (`ops_parity`).  tests/test_sql_store.py:43:
   "memory and SQL give identical op answers".  A count with one condition counts
   the matching slot rows in sql mode and the entities in memory mode; the corpus of
   that test has no entity with two such facts.

Seen while modelling, in the models where they say so, and not runs of their own:

* Of the chat: an input of several sentences never equals a stored thought, its
  sentences are absorbed already, and so nothing of it is queued (`ToPersist` gives
  `Nobody`), although Ada says "I remember everything users tell me, even after
  restarts" (think.py:99).  A question
  is absorbed and persisted by `_queue_persist` although thought_process.py:74-75
  keeps questions out.  A sentence that equals an earlier answer of Ada is a
  duplicate and never grounds anything.  The shell's scan can fail when a tell lands
  in the dictionary it iterates over (`ScanFails`).  The partial-match answer of
  thought_process.py:113-126 cannot be reached.
* Of the stores: recall after the newest version was forgotten by id, or archived,
  returns the superseded one (sql mode) or takes it for current (memory mode).
  Amending an archived fact that has no slot rows gives it current ones; archived
  again, it keeps slot rows that outrank the current version, which recall in sql mode
  (sql_store.py:493-512) then never returns although the closed operations answer
  from it.  The attempt to prove `RecallIsCurrentBelief` found this (`NoneOutranked`).
* Of dedup: a text with blanks around it is stored at each tell in sql mode, where the
  stored text is compared as it is (sql_store.py:121-129), and once in memory mode,
  where both are stripped.  A capital beyond ASCII is lowered by Python and, on SQLite,
  not by the database, with the same effect.
* Of entities: a fact with `relational.subject` and no `entity.name` is counted and
  looked up in sql mode (thought_persistence.py:37-45) and not in memory mode
  (thought_space.py:417-420).  `previous_value` is lower-cased in one and not in the
  other (sql_store.py:350-358, thought_space.py:526-528).
* Of shutdown: the worker is cancelled with the batch it has taken
  (ada/server.py:145), so an orderly stop can lose what a crash can.
* Of the enrichers: the question "Where is X?" that a comment promises
  (llm_enricher.py:155) has no pattern.  The capital of a name of several words is
  parsed (llm_enricher.py:105), and no question of it is (182-184).  The slots of "I
  live in Boston" are about the speaker and its parse about "i".  The parse is dropped
  at every save (`_json_safe_meta`, thought_persistence.py:88-102), so in sql mode no
  thought that is read has one, and in memory mode none does after a restart.

## 5. Fairness

Two parts state liveness, both in `parts`:

* `BreakerFairness`: weak fairness of the clock and, for each wrapped call, of
  `Proceed`: a timer that is due fires, a task that can run does, and the wrapped
  function returns or raises.  That is what an asyncio event loop gives a task; a
  wrapped function that never returns would end it.  Nothing is assumed of new
  calls, of `Reset` or of whoever reads the statistics.  `OpenEnds` then needs that
  no path postpones the recovery for good, `CallsEnd` that the retries run out.
* `ChatFairness`: weak fairness of `Think` (the shell's thread goes on: the
  `anthropic` client gives up after its own time limit, and `AdaLLM.ask` turns any
  exception into no answer, llm.py:139) and of `Flush` (the
  worker's `while True` loop sleeps two seconds and survives every exception,
  ada/server.py:123-134).  Nothing is assumed of saves: one may always fail.
  `SaidIsSaved` needs both.

The other runs assume no fairness and check safety.

## 6. What is proved

TLAPS proves, with no bound on clients, spaces, keys, facts, callers or time:

| Theorem | Statement | Assumes |
|---|---|---|
| `SqlTypes` | `Spec => []TypeOK` of `SqlStore` | every handler in use |
| `SqlSlots` | `Spec => []SlotsDecomposeThoughts` | every handler in use |
| `SerialOneCurrent` | `Spec => []OneCurrentVersion` | one client |
| `StoreKeepsPromise` | `Spec => KeepsPromise`, the refinement | one client, one space, no forget by id or entity, texts are not slots |
| `NewestAnswers` | `Spec => []NewestIsCurrent` | one space, no forget of single facts |
| `BeliefOnlyGrows` | `Spec => BeliefMovesForward` | one space |
| `JanitorSlots` | `JanitorSpec => [](JanitorTypeOK /\ SlotsDecomposeThoughts)` | nobody merges |
| `AloneSlots` | the same | one client, which may merge |
| `RefillsOnly` | `JanitorSpec => OnlyRefills` | one client |
| `NewestSurvivesConsolidation` | `JanitorSpec => []NewestIsCurrent` | as `NewestAnswers`, and nobody merges |
| `NewestSurvivesMerges` | the same | as `NewestAnswers`, and one client, which may merge |
| `MemTypes`, `MemSlots` | `TypeOK` and `SlotsDecomposeThoughts` of `MemoryStore` | every handler in use |
| `TellsLoseNothing`, `DiskIsReadable`, `VersionsNeverCollide`, `MemNewestAnswers`, `TellsNeverOverwrite` | `NothingToldIsLost`, `DiskIsInRam`, `ChainsInOrder`, `NewestIsCurrent`, `TellsOnlyAdd` | one space, clients only tell |
| `RamIsTheDisk` | `Spec => []RamMirrorsDisk` | one space, one client, no database error |
| `ModesAnswerAlike` | `ReadsSpec => []ModesAgree` | |
| `RecallReturnsBelief` | `ReadsSpec => []RecallIsCurrentBelief` | |
| `RecallReturnsAll` | recall returns every current fact | no archived facts from before `fact_slots` |
| `AnswersAreGrounded`, `ChatFollowsMain` | `GroundedInUsers`, `ChatSeesMain` | |
| `PromptShowsNewest` | `ConversationSpec => []NewestTurnsShown` | |
| `EnrichersAgree`, `QuestionsFindFacts` | `EnricherSpec => []EnrichmentsAgree`, `[]QuestionsMeetFacts` | |
| `FailureThresholdHolds`, `SuccessThresholdHolds`, `CountersHonest` | `OpensAfterARow`, `ClosesAfterARow`, and `[]CountersInv` | |
| `VaultKeepsSecrets` | `VaultSpec => []SecretsKept` | |
| `PasswordsRotateOut`, `RootRotatesFirst`, `SeededOnce`, `NobodyLocksAllOut` | `OldPasswordsAreOut`, `RotatedFirst`, `NeverSeededAgain`, `LastAdministrator` | |
| `SessionsReleased`, `DeadTokensRefused`, `RevokedFirst` | `LookupReleased`, `DeadTokensStayOut`, `RevokedBeforeDeleted` | |
| `CacheRunsOut` | `PlatformSpec => []StaleForFiveMinutes` | |

The hypotheses of the theorems on facts are those of the runs that check the same
property, and they are there because the code breaks the statement without them
(section 3): a second space (`sql_spaces`), a second client of one key, a forget of the
newest version, a merge or a consolidation that overlaps another call, a reload that
overlaps a tell, a reload that fails after its handler committed and leaves RAM as it was.
One of them only spares proof work: that nobody merges, for `NewestSurvivesConsolidation`.

**Types and slot rows.**  The inductive invariant is `InvWith(C)`: calls are in
`C`, the counters are naturals, and `StoreInv`, three facts about the tables.
`PrimaryKey`: a thought has one row and one slot record; without it, deleting or
demoting by id could touch the slots of another row.  `SlotsDecomposeThoughts`
itself.  `VersionsBounded`: some number bounds the stored versions; it gives
`LastVersion`, a maximum, a value, by well-foundedness of `<` on the naturals
(`BoundedHasMax`), and so gives the next version its type.  `C` is the set of
calls that may be under way: `Call` for `SqlStore`, and with the consolidations
for `JanitorSpec`.  `HasSqlCalls(C)` is what the lemmas need of it, so that each
step of the store is proved once.  The argument has three layers: one lemma per
transaction (`SaveStoreInv`, `AmendStoreInv`, `ArchiveStoreInv`, `DeleteRowsStoreInv`,
`DeleteSpaceStoreInv`), lifted to the handlers for any set of calls that contains theirs
(`HasMaintenance`), both in `AtRest_proofs`; then the tell, the consolidation, and the
actions of memory mode.  `AloneInv` of `Consolidate_proofs` adds what a client that waits
may rely on: the snapshot of its consolidation or merge is still what the tables hold,
but for what it has written back itself.  `AloneSlots` and `RefillsOnly` follow from it.

**Which version answers.**  `NewestIsCurrent` and `BeliefMovesForward` are not
inductive: a save replaces the row with its id, and the replaced row might be
another version.  It cannot be, because an id carries the key and the version of
its thought: `RowsNamed`, kept by amendments, which change neither.  A save is
decided in one step and executed in a later one, so the thoughts waiting to be
saved, by tells and by consolidations, must be named as well (`CallNamed`).
`NamesInv(C)` is `InvWith(C)` with these two.  With it, a save can take the
current flag only from versions older than the one it makes current (`SaveNewest`,
`SaveForward`), and an amend writes the flag it found (`AmendNewest`,
`AmendForward`).

**The refinement.**  `VersionedMemory` keeps, for each key, the sequence of what was told
under it, and the unkeyed texts; the refinement mapping reads them off the tables
(`Told`, `Answered`, `LooseOf`).  That mapping is only what it should be when the chains
have no gap and no double version and the last answers (`ChainInv`), which
`PromiseInv` adds to `NamesInv(Call)`, with `Ready`: what a call has read in one
transaction is still true in the next, since nobody else writes.  Then each transaction
is one lemma on the mapping (`SavedVersion`, `SavedLoose`, `ArchivedTold`, `ForgottenKey`,
`WipedTold`, `AmendedTold`) and becomes the action of the abstract specification with the
same name; awaits, errors, reloads and restarts leave the mapped state as it is.
Forgetting one version by its id or its entity leaves a gap that the abstract memory
cannot show, hence the hypothesis; the run `sql_serial` does not use these handlers
either.  Over sequences the proof needs four lemmas (`SameChain`, `NoChain`, `LongerChain`,
`EditedChain`) that say when a sequence is the chain of a set of rows.

**Memory mode.**  When clients only tell, what RAM holds (`Told`) is what was ever told:
`TellsInv` says that its ids differ and its chains rise (`IdsApart`, `ChainsRise`), that
rows, queue, batch and write-throughs hold nothing else (`RowsTold`, `PendingTold`), that
something is queued only after an error (`QueueMeansFault`), and that every told fact is
on disk or pending while at most one error happened (`ToldIsSafe`).  The five theorems on
tells follow from it.  `RamIsTheDisk` has `SerialInv`: with one client and no error, RAM
mirrors the live rows (`MirrorsLive`) but for the one fact a write-through carries
(`Ahead`), and from the commit of a handler to the swap it is the store read from the
tables that does.

**Reads.**  `GoodRows(facts)`: every live row has slot rows, unkeyed ones are current, two
live versions of a key differ, and a live row is current only when no live version of its
key is newer.  Every write keeps it (`NewerRow`, `RowsAtRest`), and the boot of an upgraded
database makes it true (`UpgradedRows`).  In a comparable state the current slot rows
are then exactly the thoughts memory mode takes for current (`SameCurrent`), and each
query is compared over one set of rows (`WhoAgrees`, `CountNotAgrees`, `LookupAgrees`,
`PreviousAgrees`, `ViewAgrees`).  What is new in a slot row against a profile is the entity
of a fact without a name: without it the two sets of groups are the same (`Named`,
`AllNamed`), and with it memory mode's lie within those of sql mode.  `Ranked` is the stronger invariant of a database without an old archive.

**Conversation.**  One turn either ends a new run or moves the end of the last one
(`NewRun`, `SameRun`, by the cardinality of the runs that end later), and the window
slides by one (`WindowSlides`).

**The breaker.**  `OpensAfterARow` compares the counter that opens the breaker with
the results recorded in a row, so the invariant `CountersInv` does too: while closed,
the failures counted are at most the failures in a row, and while half-open the
successes counted are at most the successes in a row and fewer than the threshold.
It is inductive because every action that records resets the other side, and
because reading the state starts a trial with no success counted (`SuccessesRead`).
In the open state the counters may hold anything: late results land there.

**The other parts.**  `VaultInv`: as long as there was no mishap one process is at work
(`Alone`) and holds what the file promises but for the secret it is writing (`Faithful`).
`ChatInv`: unless two reloads overlapped, the chat's store and that of the one reload under
way is main's (`OneMemory`), and every sentence in a store, a scan, a batch or a row is
Ada's own or was heard (`Grounded`).  `EnricherInv`: slots and parse are made of one answer, the
one that is kept, or of one sentence.  The projection takes each word from a slot of the
answer (`ProjectionBacked`), which sanitising and the speaker then leave or excuse; offline
the two tables are compared pattern by pattern (`FactRows`, `QuestionRows`).  For the accounts, what a request has read stays true, or is excused, until it
uses it; for the tokens, the session that requests share belongs to a lookup under way, and
a row that was dead when a request came in never looks good to it.

Assumptions: those that the modules state on their constants (`Main` is a space, the
absent values are not values, facts, amendments and what the enricher finds have their
types, an old database numbers its rows as the tells did), which TLC evaluates on every run.

Only model-checked:

* `NoTwinsLeft` and `NewerWins`: what a pass retires is computed by recursion over the
  facts and compared with an edit distance computed by recursion over the letters;
  induction over what a recursive function computes is out of the prover's reach.
* `OpenEnds`, `CallsEnd` and `SaidIsSaved`: liveness under fairness, likewise.
* What the six runs that expect a violation refute.

## 7. Plan

What is left is proof and breadth, in this order:

1. `NothingToldIsLost` and the order of the chains in memory mode beside archives, forgets
   and amends of one client, which `RamIsTheDisk` has without errors.
2. `KeepsPromise` with forgets of single facts, for an abstract memory whose chains may
   have gaps; `RamIsTheDisk` with errors in the saves, which the queue makes up for.
3. Similarity and drift, once their scores are taken as fractions.

## 8. Not modelled

* The model is external: its answer is a choice of slots or words, or a failure.
  The HTTP client around it (`domains/brain/llm.py`) has no state that lasts.
* Lexical recall scoring, phrase matching in queries and the rendering of answers work on text;
  `Reads` and `Chat` let recall return whatever its filters allow.
* Similarity and drift (`profile_sim.py`, `entity_drift`) are sums of floating-point
  scores over the profiles; they change nothing.  `stats`, `history` and `inspect`
  list rows.
* `SchemaTracker` reads `stored.glyph`, which no stored thought has, and nothing
  calls it.
* The terminal client, the workbench page, middleware, health and the benchmarks
  are presentation or offline scripts.  The shell's thread is in `Chat`, its token
  and key commands are the initial state of `Tokens` and the processes of `Vault`.
* Alembic migrations and engine set-up are declarative; the SQLite backfill is in
  `Reads`.
* Open mode (no authentication) lets every request through and is not a part of
  `Tokens`.

## 9. Running

    tlc -config sql_concurrent.cfg SqlStoreMC
    tlc -config mem_tells.cfg MemoryStoreMC
    tlc -config consolidate_serial.cfg ConsolidateMC
    tlc -config parts.cfg PartsMC
    tlc -config ops_parity.cfg ReadsMC
    tlapm SqlStore_proofs.tla
    tlapm Belief_proofs.tla
    tlapm Promise_proofs.tla
    tlapm MemoryStore_proofs.tla
    tlapm Services_proofs.tla
    tlapm Access_proofs.tla
