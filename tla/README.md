# Verification of zoan-llm-backend

TLA+ modules that model the service, TLC configurations that check them on small
instances, and proofs about them for every value of their constants that TLAPS
checks. Paths are relative to the repository's `src/`. `PROJECT.json` names, for
every definition that models code, the lines it stands for; for every run, what it
shows; for every property, a mutant of the model that the property refutes.

## 1. The system

A Python process serves one gRPC call, `Completion`: it takes a message, a list of
agent configurations and a conversation id, compiles a LangGraph graph of agents for
it, runs the graph and streams what it says. A web application (FastAPI) carries the
process and answers a health check. Next to it the process indexes the files of a
bucket in a vector database, driven by notifications from Kafka.

| Part | State it keeps | Operations | Interacts with |
|---|---|---|---|
| Completion stream: `handler/grpc/completion.py`, `action/completion/grpc.py`, `base.py` | a lock per conversation in a dictionary; a lock for its cleanup; a generator and an event loop per request | take a request, find and try the lock, build, stream, release, clean up | graph builder (call), client (stream, cancellation), other requests (lock dictionary) |
| Graph builder: `internal/graph/builder/graph.py`, `agent.py`, `chat_model.py` | a compilation lock | load prompts, look up, build, cache, answer | graph cache, prompt service, LangGraph |
| `MemCache`, `GraphCache`: `internal/cache/` | items with the time they were stored; two locks | get, put, get_or_create, remove, clear, cleanup, statistics | every request's thread |
| Game workspace: `internal/graph/built_in/tools/game_generator.py`, `helper/minio_games.py` | a directory per conversation, versions of it in a bucket | load, read, write, edit, build, clean up | tool calls of the same answer (directory), MinIO |
| Conversation: `internal/graph/memory.py`, `builder/graph.py`, `built_in/tools/primary_agent.py`, `primary_agent.py` | the messages of a conversation, in checkpoints; the messages, steps and attempts of a run | start from the newest checkpoint, call models and tools, summarize, hand over, report, retry, save | completion stream (drives the run), the agents, the checkpoint database |
| Context images: `built_in/middleware/base.py`, `helper/context.py` | the URLs a run has shown, if it has a context | scan, download, inject | the messages of a run |
| Library indexer: `services/connector/kafka_service.py`, `handler/consumer/`, `action/cdc_handler/`, `internal/vectorizer/` | a Kafka position; points in Qdrant | poll, dispatch, delete points, load, insert points, commit | Kafka, MinIO, Qdrant, other instances (consumer group) |
| Process life cycle: `main.py`, `kafka_service.py` | a server, a consumer, their threads, a stop flag | start, signal, stop, close, join, exit | all of the above |
| Chat title webhook, tool builder, module client, app preview, monitoring, models, configuration | none of their own | one HTTP request each, or declarations | |

What is hard in it:

* **Interleaving.** Requests run in a pool of threads and share the lock dictionary,
  the compilation lock and the cache; the tool calls of one model answer run in
  threads that share a directory; the poll thread hands work to an event loop in
  another thread; shutdown races with the start of what it shuts down.
* **Sequences of calls.** Agents hand over in the middle of their tool calls, report
  back, are summarized and tried again; what one run leaves is where the next begins.
* **Failure.** A client goes away while its generator waits at a `yield`; a
  decorator returns an exception object instead of raising; an upload stops halfway
  and is reported as done; handlers swallow what goes wrong.
* **Crashes and redelivery.** The process is restarted (`restart: unless-stopped`)
  with its directories kept; commits are asynchronous, so notifications come again;
  checkpoints are written behind the run that makes them.
* **Time.** Cache entries expire between two regions of a lock; joins and grace
  periods give up.

What makes each part correct:

* Stream: one request at a time works on a conversation; its lock is always given
  back; the dictionary does not grow; a client sees content chunks and then exactly
  one last chunk; every request leaves its worker.
* Cache: live entries stay; racing creators agree on one item; nothing is served
  after its time.
* Builder: nothing is compiled twice; an answer belongs to the request that gets it;
  one agent that cannot be built does not cost the others.
* Workspace: what a call answered stays unless another call works on the same file;
  the number of versions names the newest, and only the newest is built over.
* Conversation: no model is shown a call without its result; what a client got an answer
  to is remembered; a run ends.
* Images: the latest ones first, and the limit is not used up by repeated or missing ones.
* Indexer: no notification is passed over; once all is handled the index shows what
  the bucket holds, and it never goes back to an older version.
* Life cycle: the process exits when asked to; work handed over is answered.

## 2. Modules

| Module | Models | State and actions in the code |
|---|---|---|
| `StreamContract` | the abstract promise to a client | `Open`, `Send`, `Close`, `Cut` of a stream, seen from outside |
| `CompletionStream` | the completion stream | `pc[r]` is where request r's thread is; one action per step between two accesses to shared state; a lock object is named by the request that created it |
| `CacheContract` | the abstract promise of the cache to its users | a map that forgets what is too old; a call is asked, takes effect in one step, and is answered |
| `MemCache` | `mem_cache.py` | a region under `_cache_lock` is one action; a call of several regions is one action per region; a clock |
| `GraphBuilder` | `get_compiled_graph` with its cache | one action per step under the compilation lock; expiry, clearing and the publication of prompts at any time |
| `GraphAssembly` | `build_graph` on a list of configurations | one action per turn of its loops, which keep their place as a position in their list |
| `GameWorkspace` | the game generator's tools | `call[c]` is a tool call with its local variables; one action per access to the directory or the bucket |
| `Conversation` | runs of the graph on one conversation | `pc[r]` is the step of the graph that request r is in; one action per step of the graph, per call of a tool, and per checkpoint that reaches the database or does not |
| `ContextImages` | the image hook and its helper | one action per entry looked at |
| `LibraryIndexer` | the consumer, its handlers and the index | `pc[c]` per consumer; the partition is a log with a committed position |
| `Lifecycle` | `main.py`, start and stop of the consumer | one variable per thread |

`CompletionStream` implements `StreamContract` (the module instantiates it with a
refinement mapping; the run `stream_safety` checks `KeepsContract` and
`CompletionStream_proofs` proves it). `MemCache` implements `CacheContract` in the same way:
what the cache has is its live entries (`Content`), and a thread between two regions has asked
for something and not been answered (`Asked`); the locks, the cleanup's list and the expired
entries have no counterpart (`KeepsContract` of `cache_safety`, proved in `MemCache_proofs`).
`GraphBuilder` sees the cache as a dictionary whose entries may vanish at any time, which is what
`CacheContract` lets a caller see who does not look at the clock; making that a refinement is in
the plan.
`Conversation` is what a request of `CompletionStream` runs while it holds a conversation's
lock, one chunk being what a step says. The two findings below mean that runs of a conversation
may overlap, so it lets them, up to `MaxOverlapped`, and remembers who did; a client that goes
away (`Abandon`) and a death of the process are the ends that `CompletionStream` knows as well.
`GraphAssembly` gives it its agents: one primary agent that every other one reports to.
`Lifecycle` takes from `CompletionStream` that a request leaves its worker
(`EveryRequestEnds`). `LibraryIndexer` lets a process die anywhere, which covers every way
`Lifecycle` lets it exit.

`MC*.tla` give TLC a symmetry set, which the runs without a liveness property use
(`stream_safety`, `cache_safety`, `workspace_safety`, `images_injection`); in `MCGraphBuilder` it
is there for larger instances without liveness. The other runs use the module itself.
`*_proofs.tla` hold the theorems. A definition whose name begins with `Mut` is not part of a
specification: it is the form a plausible bug would give the definition after it.

Abstractions throughout: a message, a chunk, a prompt or a configuration is a member of a
small set; logging and wording are left out; a file is the set of passages in it, and
folders inside the game's directory are left out; embeddings are not modelled beyond
"the object as it was when it was read".

## 3. Runs

Passing runs, with their bounds and why these are enough.

| Run | Shows | Bounds |
|---|---|---|
| `stream_safety` | lock discipline; an entry is cleaned up unless an abandoned generator took its lock along; no KeyError in the cleanup; the contract is kept | 3 requests, 2 conversations, 2 workers, 1 chunk: a third request is what it takes to create a second lock object for a conversation; the second conversation shows they do not disturb each other |
| `stream_ends` | every request is taken and ends | 3 requests on one conversation and 2 workers: the pool is full and one request waits for it; the conversation's lock is busy, or left behind for good; no chunk but the last |
| `cache_safety` | the cache is a map on which each call acts at once, so that racing creators agree; live entries pinned, nothing old served | 2 threads, 2 keys, a time to live of 1, time to 3, 2 items: an entry can be stored, expire, and be replaced while the other thread is in the middle of any call |
| `builder_safety` | no second compilation, an answer has its own prompts and hashed configuration, every call returns | 2 callers, 2 hashed configurations, 2 versions of the prompts. One value for what is not hashed: no property depends on it |
| `assembly_result` | `build_graph` is its definition over the whole list | lists of 3: a primary agent and two that clash |
| `workspace_safety` | what an answered call wrote stays; the count of versions is the newest version; an older version is not written again | 2 calls, 1 file, 2 passages, 2 versions, 1 failure, 1 crash: a skipped version needs no third one. Files only meet in calls that go through all of them |
| `indexer_crash` | nothing lost, quiescent means indexed, an object never has two sets of points, the index never goes back, every notification is handled at last | 2 consumers, 2 objects, 2 notifications, 1 crash, 1 failing call, 1 rebalance: a notification can be handled twice, late, and by both consumers at once, while the other object shows that it is not disturbed |
| `conversation_runs` | calls and results stay paired, an answered run is remembered, every run ends | 2 requests one after the other, one with images, a recursion limit of 5, 2 attempts, 1 summary, 1 failing call of the database, 1 crash: the primary agent uses a tool or hands over before it answers, its messages are summarized, and the first run is answered, given up or killed before the second reads the checkpoint |
| `images_injection` | the limit falls on the oldest images and is used up by different ones only | no context, as the service runs it; 3 images, 3 messages of 2 entries, a limit of 2 instead of 10: reached, with repeated, empty and failing entries before it |
| `lifecycle_safety` | one message at most after the stop flag, one at a time, to a loop that is there; the process exits; a message handed over is answered | 2 requests; everything else is finite |

Deadlock is checked except where the system may stop: a finished log of notifications, an
exited process, a graph that is built, a hook that has raised, a conversation whose requests
are over.

`QuiescentMeansIndexed`, `OneSetOfPoints` and `NeverGoesBack` leave out the objects that are `disturbed`: those
whose last rewriting failed, was late or was not the only one. `OldVersionsStay` leaves out what
follows a build that answered without a file (`hollow`), and runs in which the agent may have
been told a wrong number (`blurred`): a listing that failed, two calls about versions at once, a
death in a build. `UndisturbedEditsStay` leaves out files that two calls worked on at once
(`mixed`), `AnsweredIsRemembered` runs that were not alone (`overlapped`),
`CleanedUnlessAbandoned` the locks of abandoned generators, which `stream_released` is about. In
each case the code does lose the property there, and what is left is as much as it keeps. The
hazards that are just these cases have a note instead of a property.

`conversation_runs` has no overlapping runs (`MaxOverlapped = 0`), which would take TLC too
long; the proofs about `Conversation` cover any number of them. With a recursion limit of 5 a
handoff comes before the primary agent has added anything else; that a handoff in the middle of
its turn keeps calls and results paired is shown by the theorem `CallsPaired` only.

Bounds that are not in the code: `MaxChunks`, `MaxTime`, `MaxItems`, `MaxPrompts`,
`MaxEvents`, `MaxCrashes`, `MaxFaults`, `MaxMoves`, `MaxVersion`, `MaxConfigs`,
`MaxMessages`, `MaxEntries`, `MaxSummaries`, `MaxOverlapped`. `MaxWorkers`, `TTL`,
`MAX_IMAGES`, `RECURSION_LIMIT` and `MAX_ATTEMPTS` are the code's or LangGraph's own, scaled
down.

Runs that end in a counterexample: each checks what a comment says against what the code
does.

| Run | What happens |
|---|---|
| `stream_exclusion` | the cleanup deletes the lock another request has looked up and not yet taken; a third request makes a second lock, and both work on the conversation |
| `stream_released` | a client goes away; the event loop is closed under the generator, whose `finally` has not run: no request of the conversation is left, its lock is held and its entry in the dictionary for good, and every later request is refused as busy |

Other deviations met while modelling. The modules have the behaviour; no run is spent on it.

* `get_stats` (`mem_cache.py:256`) and `get_non_expired_keys` (`:299`) read outside the
  lock what other threads change: the statistics need not add up, the iteration may raise.
  The class calls itself "Thread-safe" (`:15`, `:231`). In `MemCache`: `StatsLen`, `Iterate`.
* For three types of error the decorator of `build_graph` returns an exception object
  (`exception_handler.py:69`; "Re-raise as-is", `:122`), which is cached and answered as a
  graph (`graph.py:231`). In `GraphBuilder`: `Failure`.
* The hash leaves `model_kwargs` out (`graph_cache.py:132`): configurations that differ only
  there share a graph. In `GraphBuilder`: `Rest`.
* `build_agent` passes `is_primary` to a function without that parameter (`agent.py:200`,
  `chat_model.py:75`): no custom agent is ever built. In `GraphAssembly`: `DropCustom`.
* An agent whose name is taken makes the whole graph fail (`graph.py:179`), against "Continue
  with other agents rather than failing completely" (`:119`). In `GraphAssembly`: `NameTaken`.
* The number of version folders is taken for the newest version (`minio_games.py:28`); after
  a build that put no file into its version the two differ. In `GameWorkspace`: `Listed`,
  `hollow`. A listing that fails counts as no versions (`:34`): `StartsWithV1`.
* A build whose upload failed is reported as done (`game_generator.py:491`): `UploadEnds`.
* An agent that fails is tried again from the beginning, and what it has streamed is streamed
  again (`grpc.py:49`). In `Conversation`: `AgentFails`.
* An edit writes back the whole text it read (`game_generator.py:327`), and with it takes
  away what another call wrote in between: `Read`, `Flush`, and `mixed` in the property. The
  clean-up removes files that other calls have open, and what they write is lost
  (`game_generator.py:524`): `Unlink`, `bound`.
* The handlers log and drop what goes wrong, and the notification is committed
  (`library.py:102`; "after message is processed", `kafka_service.py:182`). In
  `LibraryIndexer`: `CallFails`.
* "Extract images once" (`middleware/base.py:11`) takes a context that remembers what was shown,
  and the graph is streamed without one (`action/completion/grpc.py:47`): every call of the hook
  shows the same images again. It scans every message, not only those of tools
  (`helper/context.py:42`). The hook is off by default. In `ContextImages`: `HasContext`, `Return`.
* `close()` returns with the background thread at work: the join gives up after five
  seconds (`kafka_service.py:206`), and `start_consumer` clears a stop flag that was set
  before it (`:199`). "gRPC server stopped" (`main.py:105`) is logged while requests are
  served. In `Lifecycle`: `JoinTimesOut`, `ClearStop`, `StopServer`.

## 4. Fairness

Weak fairness, per thread, of the steps the thread can take by itself; nothing that the
surroundings decide (a client's cancellation, a crash, a new call, the signal to stop, the
passing of time) is fair.

* `CompletionStream`: a worker thread that can run runs. It never waits: the lock is tried
  without blocking, the cleanup lock is held for two steps. At a `yield` either the transport
  asks for the next chunk or the client is gone and it throws the iterator away. A graph's run
  ends because
  LangGraph's recursion limit is set (`base.py:259`) and its model calls have a timeout.
* `GraphBuilder`: a thread inside a call goes on. Python's locks are not fair, so
  `EveryCallReturns` claims a return only while no new calls keep coming; the prompt service
  answers or times out.
* `LibraryIndexer`: a live consumer runs, and a dead process is started again
  (`docker-compose.prod.yml`, `restart: unless-stopped`).
* `Conversation`: a run that is begun goes on: models and tools answer or time out, and the
  thread that writes checkpoints runs. That it ends follows from the recursion limit and the
  retry policy; the mutant `MutAgentFails` shows a run that an endless retry keeps.
* `Lifecycle`: threads are scheduled, a handler's coroutine ends, a request leaves its
  worker (`EveryRequestEnds`). The join's timeout is what makes `ShutdownEnds` true: without
  it the mutant shows a poll thread whose stop flag was cleared after it was set.

## 5. Proofs

All theorems hold for any number of threads, keys, requests, files, events and so on, under
the named assumptions of the modules (the bounds are naturals, special values are not
elements of the sets they stand beside, `Files` and `Keys` are finite). TLC evaluates the
assumptions in every run.

* `CompletionStream_proofs`. The invariant is built in layers, each proved inductive with
  the ones below: types; a request holds a lock of its own conversation and the dictionary
  maps a conversation to one of its locks (`RefsOK`); an abandoned generator never runs
  again; a lock has one holder, which is where it may have it (`LockDiscipline`); one
  request at a time is in the cleanup, so that the entry it has seen is there when it
  deletes it (`DeletesAnEntry`); every entry is the lock of a request that will clean up or of
  an abandoned generator (`Accounted`), from which `CleanedUnlessAbandoned` follows; the chunks
  already sent fit the place of the thread (`ChunksOK`). From these follows the refinement of
  `StreamContract`, where every action maps to a step of the contract or to a stutter.
* `MemCache_proofs`. Types with what a call has in hand; stamps lie in the past and a stamp
  read before creation is no later than the store (`TimesOK`); from these
  `LiveEntriesArePinned` and `ServedItemsAreYoung` as properties of steps. `ContractKept` is the
  refinement of `CacheContract`, step by step: a call is asked where it begins; `Enter`,
  `Collect`, `Sweep` and the `Leave` of a `get_or_create` are stutters, the cleanup because it
  deletes only what `Content` has forgotten already (`TimesOK` again: a cleanup's time is never
  ahead of the clock); `Check` is `Find` if it hits and a stutter if it does not; `Store` is
  `Find` or `Offer`; a tick maps to a tick, which takes out of `Content` what expires in it.
* `GraphBuilder_proofs`. Types, and one inductive invariant: whoever is past the lock holds
  it (`HolderOK`), a cached graph was compiled from its key (`CacheKeyed`), a caller about to
  store has the lock and the key is still missing (`CompilesOnlyMissing`; expiry and clearing
  only remove entries), and a caller's answer matches its own configuration. The module also
  proves `GraphAssembly`, for requests of any length: `AssemblyTyping`, and
  `AssemblyIsAsDefined`. Its invariant is that the agents collected so far correspond one to one
  to the configurations that join among those the loop has passed (`Built`, a bijection that
  grows by one pair in `AddInternal`), that the first primary configuration leads (`Led`), and
  that the nodes are the supervisor and the agents added, under names of their own (`NodesOK`).
  A name that is taken is then the supervisor's or that of another configuration that joins
  (`TakenMeansNotBuildable`), and a graph that compiles has exactly what joins
  (`CompiledAsDefined`).
* `LibraryIndexer_proofs`. Types, with a message in hand inside every handler.
  `NoEventLost` is inductive with: everything before the message a consumer has in hand was
  handled (`PrefixHandled`), because a consumer starts at the committed position and commits
  only what its handler has returned from. `NeverGoesBack` holds because what a consumer is
  about to write is at least the newest version indexed (`WritesNewest`), unless two
  rewrite the object at once, which marks it (`OverlapIsMarked`). `QuiescentMeansIndexed`
  follows from `OwedInv`: an undisturbed object has a message still to be fetched that
  rewrites it (`Due`), or the owner has that message in hand (`Coming`), or is between delete
  and insert with nothing in the index and the current version in hand (`Under`), or the
  index shows what the bucket holds (`Settled`). `OneSetOfPoints` holds because only the one
  that has deleted an object's points inserts them (`OneSetInv`): there are none left then, unless
  another rewriting came between, and that is marked. What holds a lost partition together is
  `LateIsRepeated`: whatever a consumer rewrites after it lost the partition was not committed,
  so the next owner will rewrite it once more.
* `GameWorkspace_proofs`. Types. `NoVersionIsSkipped`: unless a build came out empty,
  the versions in the bucket are exactly 1..n for some n, what the agent was told is at most
  n, and a build in progress is of a version up to n + 1 (`NInv`); the count is then the
  newest. `OldVersionsAreSafe`: as long as nothing told the agent a wrong number, it was told n
  itself, and the one call about versions works on n or builds n + 1 (`KInv`). `EditsStay`:
  the files that two calls touch at once are marked (`Apart`); so the handle of any other
  open file is still the file's (`Bound`), and the text an edit will write back has all that
  earlier calls left but what it replaces (`TextKeeps`).
* `Conversation_proofs`. Types. `CallsPaired` with `PInv`: messages, what an agent has
  added to them, and every checkpoint on its way are paired; joining paired sequences,
  summarizing (never between a call and its result) and dropping a handoff's calls keep them so.
  `Remembered` with `RInv`: a run that is over has nothing on its way (`AtRest`), checkpoints
  are numbered in the order in which they were made (`Stamped`), a run that is alone is the only
  one at work (`Alone`), and what it has on its way is newer than what is there (`Newer`); so the newest checkpoint of an
  answered run reaches the database or the run fails (`Own`), and everything made after it
  began from it (`Others`).
* `Lifecycle_proofs`. The poll thread exists exactly while its launcher says so
  (`Launched`) and after the stop flag it is in its last round (`LastPoll`); from these
  `OneMessageAfterStop` and `HandsOneMessage`.
* `ContextImages_proofs`, with or without a context. Types: what the hook is about to scan is the
  messages it was given, flattened, from the last to the first. `NewestImagesFirst` with
  `LookedAt`: each entry the scan has passed is known, is no URL, or could not be loaded, and it
  stops only at the limit or at the end; what a call has downloaded is distinct (`Apart`).
  `FlattenSeq` of the community modules is recursive, and an induction theorem with a predicate
  for a parameter is out of reach; its lemmas are proved by taking the least length at which they
  fail, a set of naturals, to which the principle of the least element of
  `WellFoundedInduction` applies.

Only model-checked: liveness (`EveryRequestEnds`, `EveryCallReturns` of the
builder, `EventuallyHandled`, `ShutdownEnds`, `HandedOverIsAnswered`, `RunsEnd`), which the
prover does not reach. Every invariant and every property of steps that a passing run checks is a
theorem as well.

## 6. Not modelled

* The order of the cache's two locks: a region under `_cache_lock` calls nothing that locks, and
  is one step.
* The text of chunks, prompts and tool answers; the conversion of a chunk is modelled as
  possible failure only.
* `GraphCache`'s registry of configurations: nothing in the service fills it. Two of its
  methods (`graph_cache.py:216`, `:291`) raise on every call.
* The chat title, which the web application keeps; the tool answers whatever the webhook does,
  and is one of the tools of `UseTool`. The store beside the checkpointer: no tool uses it.
* `call_agent` on an agent that ends with a tool's message: no tool of the agents returns
  directly.
* The toolset of custom agents and its limits (`builder/agent.py`, `builder/tool.py`): a
  custom agent is never built.
* Embeddings, document conversion, HTTP clients, LangGraph, gRPC, Kafka, MinIO and Qdrant
  themselves; the last five are modelled as the code uses them and marked external.
* `action/completion/legacy`, `internal/graph/legacy`: not imported. Generated gRPC code.

## 7. Plan

Done, in this order: the completion stream with its contract; the library indexer; the
cache and its contract; the graph builder; the game workspace; the assembly of a graph; the life
cycle; the image hook; the conversation with its memory; the proofs of every safety property.

Left, the most important first:

1. `GraphBuilder` on `CacheContract`: the builder's cache as an instance of the cache's promise,
   with a refinement mapping in place of "an entry may vanish at any time".
2. The game signal: `Conversation` with `GameWorkspace`, from a build's answer through
   the chunk conversion (`base.py:80-188`) to the client; a signal names a version that the
   client can load, which a build that stopped halfway does not give.
3. `Lifecycle` with `LibraryIndexer`: what an exit in the middle of a handler leaves behind.
4. An abstract index (each object's points are those of a version it had, or none) that
   `LibraryIndexer` implements; `OneSetOfPoints` and `NeverGoesBack` are what it takes.
