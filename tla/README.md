# FastAPI repository chat: TLA+ models and proofs

This directory verifies the parts of `src/repo_chat` whose correctness depends
on the order of things: what several coroutines, processes and stores do to one
another, and what is left when one of them fails. Paths below are relative to
`src/repo_chat/` unless they name a document of the repository.

## 1. The system

A browser talks to the **Gateway** (FastAPI, HTTP/SSE/WebSocket). The Gateway
calls the **Orchestrator** and the **Indexer** as MCP tools over HTTP; the
Orchestrator calls the **Graph Query agent**, the **Code Analyst**, the
**Repository agent** and the Indexer the same way. Redis, Neo4j and Qdrant are
shared by whoever needs them. Every service is one asyncio process; compose.yaml
runs one of each and restarts it when it dies.

| Component | State it keeps | Operations | What is hard | What makes it correct |
|---|---|---|---|---|
| Index job store (`indexing/job_store.py`, `redis_job_store.py`) | job JSON per id, set of active ids (Redis) | create, get, update, increment, fail_interrupted | WATCH/GET/EXEC of several coroutines, keys that expire, two keys per job | no update lost; the active set holds no finished job |
| Indexer jobs (`indexing/service.py`, `coordination.py`) | idempotency claims and repository locks (Redis), background tasks, readiness flag | index_repository, get_index_status, the task, the restart sweep | crashes between any two steps, a second replica, lock TTL, failing commands | one job per identity, one worker per repository, a job ends and stays ended |
| Index pipeline (`indexing/service.py`, `graph/repository.py`, `semantic/store.py`, `manifest.py`) | graph nodes and memberships, vectors, manifests | a job's loop over files, removal of paths, index_file | three stores without a transaction, carry-forward from what an earlier job recorded, failures in between, an unlocked tool | after a COMPLETED job the indexes are those of the tree; other revisions keep theirs |
| AST parser, relationship resolution | none | parse a file, resolve names across files | scopes, relative imports, ambiguous names | a name is linked to what Python binds |
| Graph query agent (`graph/query_service.py`, `query_safety.py`) | none | entity search, traversals, hybrid search, read-only Cypher | rank fusion, one row per trail, rejecting writes | answers are bounded reach, each once; no better hit behind a worse one |
| Orchestrator (`orchestration/`) | session context and history, preferences, response cache, audits | chat turn: route, plan, execute, synthesise, remember | concurrent turns of one session, stale scope, cache staleness, stage timeouts, cancellation | a turn does not undo another; answers belong to their scope |
| MCP client (`mcp/client.py`) | none | call with timeout, retry of safe tools | a timed-out call may have been accepted | an unsafe tool is sent at most once |
| Gateway (`gateway/app.py`, `service.py`) | admission slots | chat (JSON, SSE, WebSocket), indexing, health | slots of streams, disconnects, cancellation | at most N chats at once; every slot comes back |
| Repository agent (`repository/`) | bare Git caches, revision snapshots | acquire, browse | a crash between mkdir, init and fetch; acquisitions that share one FETCH_HEAD; killed commands; atomic publish | a published snapshot is complete and stays as it is; an answer is the requested ref's commit |
| Code analyst (`analysis/`) | none | read and summarise source | fallback from snapshot to mutable checkout | the source shown is the revision's |
| Contracts, settings, observability, evaluation, exceptions, UI, tool servers | none of interest | | | |

The interactions modelled:

* `index_repository` → claim in Redis → job in the store → task → repository lock
  → the loop over files → the three indexes → final status → lock released.
* A restarted process → first tool call → `fail_interrupted` over the active set.
* `acquire_repository` → the repository's asyncio lock → Git cache → staging
  directory → `revisions/<commit>`, which `index_repository` is then given as its
  path. That a snapshot is complete and never changes is what lets a job treat its
  tree as fixed.
* `get_index_status` is how a client sees a job; it reads the stored status.
* A chat: Gateway slot → MCP call with its attempts → `orchestrate`: session and
  preferences from Redis, episodes, routing, the question appended, the cache, the
  plan's tasks, the model, the answer appended, cache, audit and episode.
* Files → entities and relationships → links across files → what the Graph Query agent
  and the Code Analyst answer about them.

PROJECT.json lists every component with its status, and every hazard at the line
where it bites; a hazard no property covers says why.

## 2. Modules

| Module | Models | Role |
|---|---|---|
| `IndexJobStore` | `job_store.py` | abstract: every store operation is atomic |
| `RedisIndexJobStore` | `redis_job_store.py` | detailed: one action per Redis command; implements `IndexJobStore` |
| `JobLifecycle` | `IndexJobStatus` as a client sees it | abstract: registered once, runs once, ends once |
| `IndexerJobs` | `service.py` around a job's work, `coordination.py` | detailed: replicas, sweeps, calls, tasks, locks, crashes; implements `JobLifecycle` with one replica |
| `IndexPipeline` | the work itself, `graph/repository.py`, `semantic/store.py`, manifests | one action per call on a store |
| `GitAcquisition` | `repository/git_acquisition.py` | one action per Git command or uninterrupted run of file system calls |
| `ConversationMemory` | `orchestration/memory.py` | abstract: every turn is appended at once |
| `QueryPlanning` | routing, plan execution, synthesis (`orchestration/`) | operators: what a plan is and what its tasks may return |
| `Subsequences` | comprehensions with a condition | one operator, which the proofs can open |
| `ChatTurns` | `orchestrate`, `redis_memory.py`, `operational_state.py` | detailed: one command, task or model answer per step; implements `ConversationMemory`, extends `QueryPlanning` |
| `Gateway` | `gateway/app.py`, `gateway/service.py`, `mcp/client.py` | requests, clients that leave, and the MCP call of each |
| `PythonParser` | `indexing/ast_parser.py` | operators: a file's entities and relationships |
| `SymbolResolution` | `graph/resolution.py` | operators, on top of `PythonParser` |
| `GraphQueries` | `graph/query_service.py` | operators: traversals, search, rank fusion |
| `GraphSearch` | the Graph Query agent's tools | a question to any finite graph and its answer, against reference definitions |
| `CodeAnalysis` | `analysis/service.py` | operators, on top of `PythonParser` |
| `CodeSearch` | indexing, and the Code Analyst's tools | extends `GraphSearch`, `SymbolResolution` and `CodeAnalysis`: from files to answers |
| `MC*` | | instances for TLC |
| `*_proofs` | | theorems and their proofs |

The layers compose by assumption and guarantee. `IndexerJobs` treats a store operation
as one step: `RedisIndexJobStore` justifies it. `IndexPipeline` runs one
job at a time: `IndexerJobs!OneWorkerPerRepository` justifies it, for locks that
are not outlived. Its tree only changes by edits of a mounted checkout:
`GitAcquisition!SnapshotImmutable` justifies it for acquired ones. `CodeSearch` reads
an index nobody writes. `Gateway` takes the Orchestrator's `chat` for one tool
that may be run at most once, and `ChatTurns` starts a turn at any time, as a
gateway's slots allow.

### RedisIndexJobStore

`Calls` are coroutines that call the store once each. `call[c]` holds the
operation, its arguments, the value its GET returned and the next command.
`dirty` is what Redis remembers for WATCH: the callers between WATCH and EXEC
whose key has been modified since. `Touch` adds to it, and the EXPIRE of a `get`,
a caller's or the sweep's, counts as a modification, as it does in Redis. `Commit`/`Retry` are the two
outcomes of EXEC. `Expire` is the TTL of the string; the active set has none.
A job's value is its status and one counter that stands for all of them.
`sweep` is the `fail_interrupted` loop; what it does with a job depends on the
value its GET returned, however old that is by then. The abstract module has no atomic
`fail_interrupted`: the in-process store makes its updates under one lock, Redis one
after another, so the interface promises no more than that.

### IndexerJobs

A call's id is also the job id it proposes and the token its task locks with
(each is a fresh uuid4). `claim`, `status`, `active` and `lock` are Redis;
`phase`, `todo` and `victim` are one process's readiness flag and the sweep
under its asyncio lock; `call[c].at` and `task[c].at` are where the coroutines
are. `StoreFailures` lets commands raise, along the path the code takes then: out
of the tool call (at "raised" if it had claimed an identity), out of the task before its
`try` or out of its handler (at "raised"), or into the handler.
`Crash(p)` ends a process's coroutines and brings it back cold. A lock expires
under a working task only if `Overrun`.

Left out: the claim's TTL of seven days and the expiry of job strings; a command
that raises has had no effect (a lost reply is not modelled); the twenty polls of
a duplicate are one.

### IndexPipeline

`members` are the AT_REVISION links, `node` what the shared entity of a symbol
was last written with, `vectors` the Qdrant points by revision, file and symbol,
`manifest` the Redis hash. A content stands for its sha256; `SymbolsOf` is the
parser, and contents in `Broken` do not parse. Files are numbers because the job
takes them in the order of their sorted paths. `job.at` is the next call of the
loop; the round's file is the first one left. `index_file` is a second actor
that takes no lock. The scroll and the upsert of a vector carry-forward are one
step: the source's vectors cannot change in between to a different content of
the same recorded hash. The scroll asks for 1,000 points and never for the next
page, so `Scrolled` returns any `ScrollLimit` of a larger file's points, and a copy
that is cut but not empty keeps the job from embedding the file. A job may run again for the same revision and mode,
which the idempotency claim delays but does not exclude (another mode, another
path, or the claim's TTL).

Left out: relationships, snapshot provenance, counters (so rename detection,
which only counts), and `latest_revision`.

### GitAcquisition

One repository ID, since IDs share neither a directory nor a lock. `lock` is the
`asyncio.Lock` of the ID, `cache` the bare `.git-cache` (how far its setup got, its
origin, `FETCH_HEAD`, lock files Git left), `snapshot` the directories under
`revisions/`, `call[c].staging` a call's staging directory. Between two awaits
file system calls are one step: `Enter` looks at the cache and creates it, `Stage`
looks at the destination and makes the staging directory, `Publish` validates,
marks and renames. Git and the remotes are external: a command takes effect,
is refused (`~Accepts`), or is cut short (`Cut`, `Crash`) with or without its
effect, then perhaps leaving the lock file that makes Git refuse later checkouts
or fetches. Refs move at any time (`Push`). `seen` is a history variable: the
commits a call's ref has named since the call began.

Left out: the checks of the arguments, the commit's time, the agent's read-only
tools, and cancellation of a call (its thread would go on without the lock;
whether the MCP server cancels calls is the library's choice).

### ChatTurns, ConversationMemory, QueryPlanning

A turn is one run of `orchestrate`, `pc[t]` the await it is at: `ReadContext`
(`get_context`), `ReadPreferences`, `RecallAndAnalyze`, the WATCH loop of
`append_turn` twice (`WatchSession`, `CommitUser`, `CommitAnswer`), `LookupCache`,
`RunTask` once per operation of the plan, `Synthesize`, `StoreResponse`, `AppendAudit`,
`RememberEpisode`. `session` is what Redis holds, `read[t]` what the turn last
saw or wrote, `scope[t]` the effective repository and revision it fixed at the
start. `intact[t]` is Redis' WATCH; like `RedisIndexJobStore`, an EXPIRE by another turn's
`get_context` breaks it. WATCH and GET are one step, since a write between
them breaks the WATCH as any later one does. The preferences, episodes, cache
and audit stores swallow their errors, so each of their steps may do nothing.
`Fail` is an error of a session command, a cancelled call, or the worker's death.

`QueryPlanning` is the text processing as control: a query is the phrases
it contains, the names in it, whether it refers to the conversation. `Classify`,
`ExtractEntities`, `ConceptNames` and `RouteToAgents` are the rules in their order;
`TaskOutputs` is the set of outputs an agent's success, failure or time-out
allows; `SynthesizeResponse` and `Enhanced` decide evidence, `partial` and which
citations survive. `Catalog`, `HitLists` and `Grounded` are what the graph, the
vectors and the model may answer.

Left out: rendering, the content of sources and of audit records, the snapshot
provenance added to evidence, and the set-up without an agent executor.

### Gateway

`pc[r]` is where a request's handler, generator or WebSocket loop is, `phase[r]`
where its MCP call is. They are apart because the gateway runs a chat in a task of its
own. A streaming client can leave at a yield (`DropStream`), in the loop
(`CancelStream`), or before the framework has taken the generator's first step
(`AbandonStream`); a WebSocket client while receiving (`ClientLeaves`) or while an
event is being sent (`WorkingSendFails`). `inflight` and `executed` hold
attempts: a message is delivered or lost, also after the client gave it up.

Left out: the read-only endpoints, correlation ids, and the per-request sessions of the
MCP library.

### PythonParser, SymbolResolution, GraphQueries, GraphSearch, CodeAnalysis, CodeSearch

A name is a sequence of its parts and a file a sequence of statement records, so
that `a.b.c`, prefixes and suffixes are `SubSeq`s. `Parse` folds the visitor over the
statements. `ResolveLocal` and `Across` are the two stages of resolution, the second
with the table of imports (`ImportAliases`). `Traversed` and `TraceImports` give every
answer a traversal may give. Its roots are a set: the entity with the asked ID (none,
if the identifier is a qualified name, which is found and has no rows), or every
module of the asked name in any repository, their rows merged under one LIMIT.
Neo4j returns a row per trail (`Trails`, the walks that
repeat no edge), in any order, and any rows of them under a LIMIT; `PathRelations` is the
loop that takes each relationship from the first row that holds it. `HybridSearch` adds
fractions of 60 + rank exactly. `Locate` is the analyst's search for a name.

`GraphSearch` asks a graph one question: `Traverse` is `get_dependencies`,
`get_dependents`, `find_related` and `trace_imports`, `Search` is `hybrid_search` with any
answer of the semantic store. Its references are `Within`, breadth-first reach, and `NoWorse`,
which of two entities a ranked list prefers. It knows nothing of how a graph is made, so
its theorems hold for any. `CodeSearch` extends it: a program is
indexed and then asked one question, of the Graph Query agent (`Query`, for the programs
in `Queried`) or of the Code Analyst (`Analyze`, for those in `Analyzed`). Its reference is `Meaning`, Python's binding rule (scopes from
the inside out, imports where they stand).

Left out: `execute_query` and the Cypher check, expansion of semantic queries,
`compare_implementations`, snippets, control flow, docstrings, star imports, calls
of expressions; a search matches whole parts of a name, not substrings.

## 3. Runs

| Run | Question | Result |
|---|---|---|
| `job_store` | Does the WATCH loop lose an update, or the two keys of a job disagree? | holds |
| `jobs` | One replica that may crash, on a store that may fail: does every job follow its life cycle and end? Does the sweep fail only interrupted jobs? | holds |
| `replicas` | Two replicas, failing commands, a crash, outlived locks: who holds the lock, and is a request still answered with one job? | holds |
| `sweep_race` | Two healthy replicas: does the second one's sweep spare the first one's jobs? | violated |
| `pipeline` | What do the indexes hold after any sequence of jobs with one failure, one index_file, one upgrade, one edit, and scrolls that cut? | holds |
| `acquisition` | Acquisitions with failing, killed and refused commands, a killed agent and moving refs: what is published and answered, and can the next call go on? | holds |
| `lost_path` | Is every discovered path in the graph after a COMPLETED job? | violated after a failed job |
| `stale_path` | Are only discovered paths in the graph after a COMPLETED job? | violated when a revision name is reused |
| `chat` | Two turns of one session: is the memory atomic, its scope of one piece, and the cache free of the conversation? | holds |
| `gateway` | Clients that leave anywhere, lost and late messages: do slots come back, do tools that change something run once, does every request end? | holds |
| `gateway_disconnect` | Is a chat's task cancelled when its client has left? | violated at a send |
| `code` | Are names resolved as Python binds them, do analyst and graph agree, are traversals and fusion right? | holds |

**acquisition.** Two calls, two remotes, two refs, three commits of which one is
not valid, one push and one cut: enough for a first and a second acquisition
that differ in remote and ref, a ref that moves between two commands, and a call
that follows a crash. The cache is the weak part, which `CacheUsable` delimits:
as long as nothing is cut short it is always usable, but a first acquisition cut
between `mkdir` and `remote add`, or a checkout killed with its lock file, leaves
a cache that refuses every later acquisition of that ID until it is deleted.

**sweep_race.** `_ensure_job_store_ready` says it marks "tasks left by a prior
process". The active set does not say whose a job is. The second replica's first
call fails the first replica's running job. With one replica the property
holds, and is proved.

**lost_path.** A job writes file f at revision r2 (the shared node now has r2's
hash) and fails before the manifest; the manifest still records (a, r1). An
INCREMENTAL job for r3, where f is a again, matches the manifest, looks at r1 for
nodes with hash a, finds none, links none, and completes. The vectors have a
fallback for an empty carry-forward; the graph has not. A FULL job repairs it
(`FullJobRepairs`).

**stale_path.** Removed paths come from the per-repository manifest. Revision r2
lacks f: its job drops f's manifest. If f is then deleted from the checkout
indexed as r1, re-indexing r1 no longer knows f is to be removed. Acquired
snapshots are immutable and never meet this; a mounted checkout does.

**gateway_disconnect.** The WebSocket loop cancels the chat only when `receive()`
returns the disconnect. If the client leaves while the status "working" is being
sent, `send_json` raises, the `finally` cancels only the receiving task, and the
chat runs on, holding an Orchestrator call nobody waits for. `RequestEnds` shows that it ends
on its own; `SlotsAccounted` that no slot is held meanwhile.

**code.** While the properties were written, TLC showed where the code is weaker than
Python, and each such case is now a condition in the property, next to the
line it comes from: `from p.m import f` is recorded under `p`
(`resolution.py:150`), so `f` is found only if its name is unique; the package of an
import inside a function is computed from the function's name
(`resolution.py:174`), so its DEPENDS_ON is missing or wrong; the table of imports has
no scopes; `trace_imports` follows only IMPORTS, whose targets have no
outgoing edges, so it never exceeds depth 1 (`query_service.py:230`); the exact hits of a search are
limited before those of other revisions are dropped (`query_service.py:98`); a
top-level name that is also a nested definition's is always "ambiguous"
(`analysis/service.py:372`); definitions in blocks are indexed but never located, and a
method in a block of its class is not among the methods the analyst lists
(`analysis/service.py:253`). The first of these falls short of the docstring
(`resolution.py:81`: "Resolve unambiguous imports, aliases, inheritance, and calls across
one revision"), and no run is spent on it; of the others no document promises more.

### Properties worth a word

* `ScopePairsStayTogether`: the scope is two fields merged one by one, on
  every append, from requests that may leave either out. The revision of one request
  under the repository of another would answer from the wrong code without any error.
* `CachedIsContextFree`: a cached response goes to other sessions, so it must be what a
  plan made without any context returned, with every task successful at the key's scope.
* `SlotsAccounted` also says where a slot is lost for good: a stream whose client
  leaves before the generator's first step.
* `ResolutionFindsBinding` has a reference definition of its own, and its conditions
  (`Unambiguous`) read the import statements of a file and the definitions of the
  revision, never the resolver's table: a wrong entry in that table exempts nothing.
* `AnalysisAgreesWithIndex`: what the analyst locates is indexed under the name it gives;
  it lists the calls the graph has (and those of nested definitions); the methods it lists
  of a class are the graph's except those defined in blocks; and the only definition of a
  name is located unless the file defines something in a block.
* `CompletedGraphMatches`, `FullJobRepairs` and `CompletedVectorsMatch` say under
  which disturbances each promise survives: the graph's needs an undisturbed
  history for INCREMENTAL jobs, survives failures and index_file for FULL ones,
  and the vectors' survives either kind of disturbance alone. A completed job leaves
  all vectors of a file with at most `ScrollLimit` symbols; of a larger one a copy may leave
  `ScrollLimit` of them, never fewer, and never any of another content.
* `ManifestBacked` is why carry-forward is sound: a manifest's entry is matched by
  nodes of that hash and analysis version at that revision.
* `ReadIsCurrent` is why EXEC may overwrite a whole JSON document.
* `ClaimGetsJob` locates the two ways an identity is blocked: the claiming
  process died in the call, or creating the job raised there.
* `RegisteredJobEnds` excepts only jobs stranded by a store error: the task raised before
  its `try`, or could not record its end. These wait until their process dies.

### Bounds

Three calls are enough for a claim, a duplicate and an unrelated job of the same
repository; two identities make a FULL and an INCREMENTAL job compete for one
lock; one crash, and commands that raise in the sweep that follows, let a recovery be
interrupted. Three callers on two jobs give
WATCH loops that abort each other, one more modifying call, and the sweep. Two
revisions of two files, run in any order and any number of times, give
growth, shrinkage, appearance, removal, unchanged and broken files, and a `ScrollLimit` of
one point makes a file of two symbols larger than a scroll; `lost_path`
needs a third revision. `MaxFailures`, `MaxToolCalls`, `MaxEdits` and
`MaxCrashes` bound their events; jobs are not bounded. Two turns on one session
are what a lost update or a mixed scope needs; their four questions are a lookup in
either of two repositories, one that only the conversation explains, and a comparison
with half a scope; `MaxChanges` bounds expiries and changes of preferences to one. Three
requests, one slot and one retry give a refusal, a slot taken over, a late first
attempt; `MCLoads` chooses their kinds. `code` tries every way to put six fragments, one
of them twice, into three files of a package or into none, which combines relative and absolute
imports, `__init__`, aliases, nested definitions and definitions in blocks, also in a
class; these are 15,224 programs with the four that are queried. The analyst is asked about
132 of them: those that fill two files with all fragments, and the four. The four, of which
one has a file that does not parse and one two files of the same module name, are queried
to depth 2 with LIMITs of 3 rows
and 2 hits, fewer than some of the questions have; `Kinds` are the two types
`find_related` is asked for. The semantic store answers with up to two of all the entities
it may know, in any order, relevant or not. Symmetry is used in `job_store`, `replicas` and `chat`, which have no
liveness property. Deadlock is not checked where all calls may have returned.

### Fairness

`FairSpec` has weak fairness on a process's sweep and on each call's and task's
next step: the event loop runs every coroutine that can move, and a client that
polls `get_index_status` gives a restarted process the tool call that makes it
sweep. Nothing forces a call to arrive, a lock to expire, an error or a crash.
`RegisteredJobEnds` adds the premise that sweeps do not raise for ever: an error leaves the
readiness flag down, and the next tool call sweeps again.
`Claim` waits for the readiness that the fair sweep provides.

In `GitAcquisition` a call's commands are weakly fair (each ends at its timeout at
the latest) and taking the lock is strongly fair, since an `asyncio.Lock` wakes its
waiters in order.

In `Gateway` each MCP call, each handler, and each stream's client is weakly fair:
an attempt ends by its timeout, the event loop runs what is ready, and a client takes the
event it was sent or is found to have left. Nobody has to send a request, a message need
not arrive, and nobody has to leave.

## 4. Proofs

All theorems hold for every value of the constants under the `ASSUME`s of their
modules.

* `RedisIndexJobStore_proofs`: type correctness, `ReadIsCurrent`,
  `ListedIsUnfinished`, and that the Redis store implements the atomic one. The
  invariant `StoreInv` adds to the types that a caller that is not dirty has seen
  the current value, and that an applied call has returned, so no call is
  applied twice.
* `IndexerJobs_proofs`: type correctness; `WorkingHoldsLock`, for any number of
  replicas and crashes and with failing stores; and, if no task outlives its
  lock (`~Overrun`), `OneWorkerPerRepository` from it: two workers of one
  repository would both be the lock's holder. `SameIdentitySameJob` holds because a
  claim is never replaced: a call past `Claim` either made its identity's claim or
  answers what it reads there (`FollowsClaim`).

  With one replica, `UnfinishedIsActive`,
  `SweepFailsOnlyInterrupted` and that `IndexerJobs` implements `JobLifecycle`,
  with crashes and failing stores. The invariant `LifeInv` says that calls and
  tasks exist only in a ready process, hence never beside a sweep; that the
  sweep's victim is still unfinished; that nothing is stored before the call that
  creates it; and which status a job has at each point of its task. Without
  `SingleReplica` the first of these fails, which is what `sweep_race` shows.

* `IndexPipeline_proofs`: type correctness, `HistoryRetained`, `NodesAreLinked` and
  `ManifestBacked`, for any revisions, files and trees and any number of jobs, failures,
  calls of `index_file` and edits. `Shape` adds to the types what is known at each
  call of the loop: the job works on the tree it parsed, which is its revision's; it
  removes only files that tree lacks, and only once no file is left; it carries forward
  only from an entry with the file's own hash. `ManifestBacked` excepts the file
  the job is busy with, so it is not inductive: `ManifestInv` adds that between the graph
  write and the manifest that file is in the graph with the hash about to be recorded.

  Then `FullJobRepairs`, `CompletedGraphMatches` and
  `CompletedVectorsMatch`: "linked = defined" is two inclusions with different reasons.
  `LinkInv`: without edits no link exists that the tree does not define, since a
  carry-forward links only nodes whose hash is the file's own (and a node holds
  only symbols of its hash). `CompletionInv`: the files a job has passed are linked
  completely, a FULL job's by writing and an INCREMENTAL one's also by
  `ManifestInv`, and stay so, since nobody removes a file the tree has.
  The vectors are stronger in one way and weaker in another: `VectorInv` says that
  without edits a file's vectors serve its tree (`Serve`: all of them, or a scroll's
  limit) or there are none, so a carry-forward from any revision is right if it is not
  empty, also one that was cut (`ScrolledFacts`); `StoredInv` that they are there
  once the file is passed, which needs that failures and `index_file`'s delete-then-upsert
  do not both occur.
  The assumptions are that there are a revision and a file (`RepositoryAssumption`,
  else there is no job to speak of) and that the values for "none" are no contents or records
  (`AbsentAssumption`), and a scroll returns at least one point (`ScrollAssumption`).

* `GitAcquisition_proofs`: type correctness and all six safety properties, for any
  number of calls, pushes, cuts and crashes. `IInv` says what is known of a call
  at each point: between `Enter` and its end it holds the lock; from the first
  fetch on the cache is bound to its remote; after the fetch FETCH_HEAD is a
  commit its ref named (this is what the lock protects from other calls'
  fetches); before the rename its staging directory holds the whole tree.
  `SnapshotComplete` and `OneRemote` are part of it, and immutability follows because
  only `Publish` writes a snapshot, where none was. `SetupInv` adds, for
  `CacheUsable`, that only the call that sets the cache up sees it half set up.

* `Gateway_proofs`: type correctness, `SlotsAccounted` and `MutatingCallsOnce`, for any
  number of requests, slots and retries. The invariant `IInv` adds that the attempts on
  their way or executed are those made so far, which for a tool that is not
  retried is the first one. Slots are conserved because a step of one request moves a slot
  exactly when it moves that request into or out of `Held` (`StepBalances`).
* `ChatTurns_proofs`: type correctness, `ScopePairsStayTogether`,
  `CachedIsContextFree`, and that the Redis session memory implements the atomic
  one, for any number of turns and sessions and any questions. `IInv`
  says that an unbroken WATCH has seen the current value, and that the scopes a turn
  and its session hold were named together. `AtomicMemory` assumes that `NameLists`
  holds the names of every turn (`NamesListed`): the abstract module needs the set only for
  TLC to enumerate. `Bounded` adds to the types the lengths at each point of a turn
  (an append may exceed the maximum by one only before its trim) and that every
  plan and its outputs are sequences.
  `CacheInv` follows a turn from its question to the cache: a question that does not refer
  to the conversation is analysed as it would be without one (`ContextFree`, from
  `AnalysisApart`); the outputs so far are those of the first tasks of that plan, in
  the turn's scope (`Sound`); and what `Cacheable` admits is only stored under a key with that
  scope. It rests on what routing and execution return for every question
  (`PlansAreLists`, `FoundWasAskedFor`, `OutputsAreAttributed`), and these on lemmas about
  `Subsequence`. A question's names are sequences of names
  with a case-folded form (`RequestAssumption`).
* `Subsequences_proofs`: lemmas about `Subsequence`, for lists of any length: what is kept
  is in the list, all of what was to be kept is, and in the list's order
  (`SubsequenceEmbeds`). Induction takes an operator the provers cannot instantiate, so
  these and the other facts about recursive functions are proved by the least
  counterexample (`Least`).
* `GraphSearch_proofs`: `TraversalIsBoundedReach` and `FusionRespectsLists`, for any graphs
  that are finite and hold one entity for an ID (`GraphsAssumption`: MERGE) and any natural
  limits and depth (`LimitAssumption`). The state machine is one question, so the invariants need
  no strengthening but `index \in Graphs`; the work is in the operators.

  A traversal, from any set of roots: a trail never leaves the reach (`TrailsReach`). That it misses nothing needs,
  for each edge that starts within the reach, a trail that ends with it: a shortest walk to
  the edge visits nodes at strictly growing distances, so it repeats no edge
  (`GeodesicGrows`, `GeodesicsExist`, `EdgesLieOnTrails`). Trails are finitely many, so rows
  that are distinct and not cut off by the LIMIT are all of them (`RowsAre`), and the loop
  over the rows keeps each relationship once (`PathRelationsGather`, row by row).

  A search: fractions are ordered (`AboveOrders`) and adding keeps the order (`PlusOrders`);
  `Sorted` is a permutation in that order, because an element has strictly fewer before it than
  one behind it has (`SortedOrders`); an entity that no list prefers less and some
  list prefers more has the larger sum (`FusedOrders`). `SearchRespectsLists` adds the filter by
  revision and the limit, after `FoundOnce` and `RerankKeeps` have shown that both lists hold an
  entity once.

Only model-checked: the liveness properties (`RegisteredJobEnds`,
`ClaimGetsJob`, `AcquisitionEnds`, `RequestEnds`), which are out of the prover's reach,
and `ResolutionFindsBinding` and `AnalysisAgreesWithIndex`: the parser and the analyst
recurse over statements inside statements with RECURSIVE operators, which the provers
do not take, and what they compute for every file is an induction over that data.

## 5. Not modelled

* Readers of snapshots (`SourceStore`, the Repository agent's read-only tools) and
  their fallback from a snapshot to the mounted checkout; cancelled acquisitions, which the
  MCP library decides on.
* Relationships and snapshot provenance in `IndexPipeline`; how the links of `SymbolResolution` change when an INCREMENTAL
  job carries a file forward.
* `execute_query` and its Cypher check: a filter over text, on what Cypher is. The
  expansion of semantic queries and the prompts: wording.
* Schema statements, driver and settings, logging, the golden evaluation, the
  browser's code: no state or order of their own.
