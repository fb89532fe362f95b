# Verification of agent-memory-layer

A TLA+ development kept beside `agent-memory-layer`, a proxy that stands between
an agent and a model backend, remembers finished turns in SQLite, and injects
what it remembers into later requests.  It models the stateful core of the
program, checks it with TLC on small instances, and proves with TLAPS, for every
value of the constants, the safety properties that matter most: of the store, the
searches in it and the threads that save into it, the vector array, the embedding worker's
queues, the sticky cache and the prompts built from it, the trimming of histories, the
injection budget, the capture of streamed answers, the calendar and the shutdown.

Paths are relative to the repository (`src/src/memory_store.cpp` is the store's
implementation); `PROJECT.json` maps every definition to its lines.

## 1. Inventory

| Component | State | Operations | Module |
|---|---|---|---|
| **Memory store** `memory_store.cpp` | SQLite tables `memories`, `memory_dates`, `memory_sentences`, `facts`; RAM `cache_`, `facts_cache_` | insert, touch, evict, remove, purge_expired, store_sentences, insert_fact, remove_fact, load at start | `MemoryStore` |
| **Ranked search** `memory_store.cpp` | reads cache and FTS table under two locks | search, search_hybrid, rank fusion | `HybridSearch` (over `MemoryStore`) |
| **Save pipeline** `proxy.cpp` | `save_queue_`, `fact_queue_`, drop counters | enqueue_save, saver_loop, enqueue_fact_extraction, fact_loop, admin DELETE | `SavePipeline` (over `MemoryStore`) |
| **Vector index** `memory_store.cpp` | `embeddings_`, the offsets in `cache_`, `emb_dim_`, `holes_count_` | append on insert and load, holes on delete, recompact | `VectorIndex` (implements `VectorMap`) |
| **Shutdown** `proxy.cpp`, `main.cpp`, `logger.h` | `stop_`, `svr_ptr_`, two condition variables, three kinds of threads, the log's mutex | signal handler, stop, shutdown, joins, destructors | `Shutdown` |
| **Embedding worker** `embedding.cpp` | queue of HIGH and NORMAL jobs, promises | embed (10 s), worker_loop (batches of 8), shutdown | `EmbeddingQueue` (implements `EmbeddingService`) |
| **Sticky injection** `sticky.cpp` | LRU cache key → block | get, put, inject, apply_history, filter | `ChatRequests` |
| **Retrieval and injection** `proxy.cpp`, `injector.cpp`, `retrieval.h` | none between requests | which block goes where; how many lines fit; how a side is split and compressed | `ChatRequests`; `InjectionBudget`; `MemorySides` |
| **History trimming** `history.cpp` | none (pure) | trim old turns to a budget | `HistoryTrim` |
| **Request handlers** `proxy.cpp` | per request | chat completions and messages, plain and streamed; passthrough and listings | `ChatRequests`, `AnswerCapture`; the last two not modelled |
| **Temporal expressions** `temporal.cpp` | none (pure) | calendar arithmetic and windows; recognizing phrases | `Calendar`; the latter not modelled |
| **Configuration** `config.cpp` | the options | parsing and checks | those of the budget in `InjectionBudget` |
| **Fact extraction parser**, scripts, benchmarks, vendored code | — | — | not modelled |

How they interact.  A request handler asks the embedding worker for a vector
(HIGH), searches the store, injects what it found, forwards the request, and puts
the finished turn on `save_queue_`.  The **saver thread** takes one turn at a
time: embeds it (NORMAL), asks the store for a near duplicate, touches the
duplicate or inserts a new memory, stores its sentences, evicts down to the
namespace's cap, queues a fact job, and purges once an hour.  The **fact worker**
asks the backend for facts and stores them.  The **admin endpoints** list and
delete while all of this runs.  Everything meets in the store.

What makes it hard:

* *Two locks.* Writers hold `db_mutex_` for a whole operation, but each SQL
  statement commits on its own; readers take only `cache_mutex_`.  So readers see
  the middle of operations, and a crash leaves the middle of one in the database.
* *Copies.* The cache repeats the tables, `facts_cache_` repeats `facts`; no
  transaction ties them and each deletion repeats its effect by hand, in its own
  order.
* *Answers used late.* `find_duplicate`'s id is used by `touch` after both locks
  were released; a fact job carries the id of a memory for as long as it waits.
* *Bounded queues* that lose jobs at either end, an embedding that may not come,
  threads that wait for each other at shutdown.

What correctness means, component by component:

* store: cache and tables agree whenever no operation is running; no row hangs
  off a deleted memory at any statement boundary; readers never meet a memory the
  table has not had; a deleted id never means another memory; facts have one
  latest value per key, chains of supersession run forward, deletions take the
  derived facts with them; eviction ends at the cap;
* pipeline: near-identical turns are merged; a fact stays with the memory its turn was
  saved as or merged with; every turn is accounted for and settled in the end;
* vector index: every live entry's offsets lead to its own vectors, through
  recompactions and restarts; the waste is bounded;
* shutdown: every thread terminates and no accepted turn is lost silently;
* embedding queue: every caller gets one answer, batches keep to their bound,
  HIGH before NORMAL;
* searches: an answer names no memory that was gone before the call, none of another
  namespace, none twice, and ranks as its two rankings agree;
* sticky cache: the LRU list and the map are one cache, within capacity; a
  follow-up finds the blocks its earlier turns were sent with;
* answers: what is saved is what the client was sent, however the stream was cut;
* pure parts: budgets are kept and enough, no text is lost when a side is split, a
  trimmed history still starts where the backend accepts it, dates are right.

`PROJECT.json` lists every hazard at its line with the properties that cover it.

## 2. Plan

All of this is done; what each step leaves is named.

1. `MemoryStore`, `MemoryStoreProofs` — the store statement by statement, with
   crashes.
2. `SavePipeline`, `SavePipelineProofs` — saver, fact worker, purge, admin, over
   `MemoryStore`.  Its safety is proved, its liveness is not.
3. `VectorMap`, `VectorIndex`, `VectorIndexProofs` — flat array, holes,
   recompaction, shown to implement the map, by TLC and by proof.
4. `EmbeddingService`, `EmbeddingQueue`, `EmbeddingQueueProofs` — priorities, batches,
   time-outs, promises, the condition variable and its shutdown, shown to implement a
   service in order, by TLC and by proof; liveness.
5. `HistoryTrim`, `ChatRequests`, `ChatRequestsProofs` — trimming, sticky cache and the
   handler of a chat request, for several clients.
6. `Shutdown`, `ShutdownProofs` — the life of the process, signals at any moment;
   liveness.
7. `HybridSearch`, `HybridSearchProofs` — searches beside a changing store; its
   behaviours are shown to be the store's.
8. `InjectionBudget`, `AnswerCapture`, `Calendar`, `MemorySides`, `AlgorithmsProofs` —
   token budgets, streamed answers, date arithmetic, splitting and compressing of texts.

Left: the facts' own search; the recognition of temporal phrases.

## 3. Modules and the code

### MemoryStore

State.  `memories`, `memoryDates`, `sentences`, `facts` are the tables; ids come
from `nextMemory` and `nextFact`, which, being AUTOINCREMENT, survive deletions.
`cache` is `cache_`: since an entry is appended when its row gets its id and the
id grows, the vector's order is the order of ids, and the model keys the entries
by the memory they were built from; the entry's own `id` field is kept apart,
because `purge_expired` overwrites it with -1 (`Hole`) and leaves the entry.
`factsCache` is `facts_cache_`.

Granularity.  Every mutating operation holds `db_mutex_` throughout, so `pc`,
`cur`, `victims`, `todo` describe the one operation in progress.  Each SQL
statement is a step, since it commits by itself and a crash can fall after it;
each section under `cache_mutex_` is a step, since a reader can come between.
`facts_cache_` is guarded by `db_mutex_` alone, so its update belongs to the step
of the statement before it.  `store_sentences` is the exception: its rows commit one by
one, too, but the model only keeps which memories have any, which the first decides.

| Code | Actions |
|---|---|
| `insert` + `store_memory_dates` + `add_to_cache` | `InsertRow`, `InsertDate` (one a day), `AddToCache` |
| `touch` | `TouchRow`, `TouchCache` |
| `store_sentences` | `StoreSentences` (one step, see below) |
| `evict` | `Evict` (choice of victims), `EvictDates`, `EvictRow`, `EvictFacts`, `EvictCache` |
| `remove` | `Remove`, `RemoveFacts`, `RemoveRow`, `RemoveCache` |
| `purge_expired` | `Purge`, `PurgeDates`, `PurgeRow`, `PurgeFacts`, `PurgeCache` |
| `insert_fact` | `InsertFact`, or `InsertRival` then `Supersede` |
| `remove_fact` | `RemoveFact` |
| process death, constructor | `Crash`; `Open`, `BackfillDate`, `LoadCaches` |

Abstractions.  A text is the set of days it mentions; vectors and full-text index
are left out (`VectorIndex` and `HybridSearch`); time is in days, the unit in which the eviction
score adds an access.  SQL errors other than the foreign-key one are not
modelled.  A victim loop's order is free, the code's order is by score.

### SavePipeline

Extends `MemoryStore`: `saver` and `worker` say where the two threads stand,
`owner` who is inside a store operation (`db_mutex_`), the queues and counters are
the code's, `fate` is a history variable with what became of each turn.  Store
steps are `MemoryStore`'s own actions.  `SaverLookup` (`find_duplicate`) needs no
`db_mutex_` and reads the cache as it is in the middle of somebody's deletion,
exactly as the code does.

| Code | Actions |
|---|---|
| `enqueue_save` | `EnqueueSave` (full: the oldest job is lost) |
| `saver_loop` | `SaverTake`, `SaverLose`, `SaverLookup`, `SaverTouch`, `SaverInsert`, `SaverSentences`, `SaverEvict`, `SaverFacts` (with `enqueue_fact_extraction`; full: the new job is lost), `SaverTimeout`, `SaverHousekeeping` |
| `fact_loop` | `WorkerTake`, `WorkerExtract`, `WorkerInsert` |
| `DELETE /admin/memories/:id`, `/admin/facts/:id` | `AdminRemove`, `AdminRemoveFact` |

A text is a whole turn, user side and answer.  Whether two turns are near-identical is
decided by the code on the user sides alone, by their cosine and `dedup_threshold`; the
model is given the cosines (`Closeness`, in whole steps, between one text as asked and
another as stored), so turns with other answers, or with a question that is only alike,
are close (`Close`), and what is close to the same turn need not be close to one another.
`find_duplicate` prefers the closest entry and, of equals, the first (`Preferred`).  A
fact's value is the text of the turn it was drawn from, so a fact shows its origin: after
a merge the fact job carries the new turn's texts and the old memory's id
(`proxy.cpp:355`), and its fact stays attached to a memory whose own text it was not
drawn from.  `FactsKeepTheirSource` therefore asks for the memory the turn was saved as
or one it is close to.

### VectorMap and VectorIndex

`VectorMap` is what the array is for: a map from memories to their two vectors,
where one can be added and some forgotten, and nothing else changes.  `VectorIndex`
is how `memory_store.cpp` does it: entries with two offsets into one array of
floats.  A float is named by the memory, the side and the position it belongs to, so
that reading a wrong one shows.  All of it is guarded by `cache_mutex_`, therefore
each operation's part is one action: `Insert` (`add_to_cache`), `Erase` (the end of
`evict` and `remove`, with `should_recompact` and `recompact_embeddings`), `Purge`
(which marks the entries and keeps the vectors), `Reopen` and `LoadRow` (the
constructor and `load_cache`, row by row).  What happens between the statements on
the tables is `MemoryStore`'s matter.

Recompaction copies `emb_dim_` floats for every entry.  `Reopen` may choose another
embedding model, whose vectors have another length; then a copied slice may be a
neighbour's or reach past the array (`Garbage`).

The refinement mapping reads the array: `map` is, for each entry, what a reader finds
at its offsets (`ServedVectors`).  A purge, a recompaction and a reload of everything
are stutters or forgettings of the map, never changes of a remaining vector.

### EmbeddingService and EmbeddingQueue

`jobsHigh` and `jobsNormal` are the two queues, `caller` one record for each thread
that calls `embed`, `worker` the place of `worker_loop`.  `mutex_` is held by the
worker exactly while it stands between its test of the wait's predicate and the wait
itself (`at = "tested"`), and otherwise within single actions.

| Code | Actions |
|---|---|
| `embed` | `Call` (push under the mutex), `Notify` (after it), `Return`, `TimeOut` |
| `worker_loop`, waiting | `WorkerTest`, `WorkerBlock`, `WorkerTake`, `WorkerLeave`; `WakeUnasked` for a spurious wake-up |
| `worker_loop`, a batch | `Decode`, `Answer`; `EncodeSingle` for a job alone and in the serial fallback; `EncodeTooLong` for the encoder's assertion |
| `shutdown` | `SetStop`, `NotifyStop`, `Join` |

A text is its number of tokens, an embedding is the text it was computed from, and an
empty vector is `NoVector`; a decode may fail.  A caller that gives up leaves its job
behind with a promise nobody holds (`for = None`).  `Call` stops with `SetStop`: the
proxy, whose threads call `embed`, is destroyed before the worker is shut down
(`main.cpp`).  Loading the model comes before all this: `main.cpp` refuses to start
without one, so `ready_` holds (`README.md:416` speaks of passing requests through
instead, which is true of the proxy's code and is not reached).

`EmbeddingService` is what all this is for the callers, without queues, batches or
locks: each call knows the calls of its priority that were made before it and are still
open (`ahead`), and is answered, with its own text's embedding or none, when there is none
left; saves are answered only after they were admitted (`Admit`), which happens when no
search waits, to at most `kMaxBatchTexts` of them, the first in their line, and not again
before those are answered or given up.  So a search waits for one batch of saves at most,
and never for another search made after it.  The mapping (`Service`) reads the places of
the promises: ahead of a call are those in hand when its own is queued, and those before it
in the same list (`Before`); admitted are the saves in hand.  `Ask`, `Return`, `Answer`,
`GiveUp` are the callers' views of `Call`, `Return`, of a promise that is kept, and of
`TimeOut`; taking a batch of saves is `Admit`, of searches a stutter, as are the
notifications, the decoding, the fallback and the jobs nobody waits for.  `End` is the
encoder's assertion.

### HistoryTrim and ChatRequests

`HistoryTrim` is `trim_history` as operators on a sequence of messages; what a message
weighs is a constant function of its content.  `ChatRequests` is the handler of
`POST /v1/chat/completions` with the sticky cache.  `conversation` is what the client
has and sends, `request` the handler's local state at the points where other handlers
may come between, `lru` and `entries` the two structures of `StickyCache`.  `sent` and
`putFor` are history variables for the properties: the last prompt of a conversation, and
the question whose latest block a cache entry is.

| Code | Actions |
|---|---|
| the agent: next question, tool result, back to an earlier question | `Ask`, `ToolResult`, `Rewind` (external) |
| parsing, `trim_history`, `extract_last_user_message`, `extract_conversation_context` | `Receive`; `Refuse` when they throw |
| `apply_sticky_history`, one earlier turn with its `StickyCache::get` | `Lookup` |
| `retrieve_and_inject` after that, the omission notice, posting | `InjectNothing`, `InjectMemories`, `InjectFacts` (each ends in `Forward`) |
| the backend's answer, or none | `Answer`, `Unreachable` |

A block is the hits it shows, in order, whether it lists facts, and how many messages it
reports as omitted; how its lines are written (and that a budget cuts some off at the end)
is left to a choice of a prefix.  A search returns any ranking of memories.  A hit is a
memory and the id it goes by (`Hits`, `Served`): its own, or -1 (`Hole`) once
`purge_expired` has overwritten it in the store's cache (`Purge`; `memory_store.cpp:1065`,
copied to the result at 645).  The exclusion of what was shown compares these ids
(`Unshown`), so a memory purged after it was shown is shown once more, under -1; and a
block that shows one purged memory excludes all others from the later ones.  What the
store does besides is `MemoryStore`'s.  A key is the agent and
the original messages up to the turn: hashing is taken to be free of collisions.  The
part of a request after its last `get` is one step, since nothing another handler does
to the cache is read after it; its `put` is the one shared effect.  Content that is
not a string never reaches `inject_sticky_block`: the handler has thrown before, which
is the finding of `tool_turns`.  A client sends a request when a question or a tool's
result is last, so there always is a question.  The turn that `Answer` finishes goes to
`enqueue_save`, which is `SavePipeline`'s.  The list of recent injections that the
admin page shows is left out: nothing reads it but that page.

### HybridSearch

Extends `MemoryStore` with `query`, the one call in progress.  `PlainSearch` is
`search`; `DenseSearch`, `LexicalQuery`, `Fuse` and `Deliver` are `search_hybrid` at
the points where its locks change: the dense ranking is read under `cache_mutex_`
alone, so it may be taken between any two of the store's steps; from the SELECT to the
end the call holds `db_mutex_`, so `LexicalQuery` waits for an idle store and `Write`
(everything that takes that lock) waits for the call.  `Copy` keeps whose entry a
result was copied from beside the id it bore, which a purge may have overwritten.
`Gone` is a history: the ids whose deletion was complete when the call began.

Scores are left out: a ranking is any injective sequence of what the filter lets
through.  The full-text table is exactly the rows of `memories`, which its triggers
(`memory_store.cpp:82`) make it.  The fused score is the code's sum of reciprocal
ranks, scaled to whole numbers (`Weight`).

### Shutdown

`main` is where the main thread stands, from the model's loading to the end of
`main()`; what is built, published, bound and destroyed follows from it (`PointerSet`,
`ServerAlive`, `IsRunning`, `stop_`).  `pool`, `saver`, `worker` are the request threads
and the two loops.  A loop that has tested its predicate and not yet gone to sleep is
`tested`: it holds its mutex, so pushes wait for it, but `stop_` and the notifications
of `shutdown()` do not, since the code takes no mutex there.  `handler` is a signal
handler on top of a thread, which stands still beneath it: it logs, reads `svr_ptr_`,
and calls `stop()` on what it read; a server that is no more may do anything, which is
nothing or a crash.  The handlers are installed when the proxy and its threads exist, and
`g_proxy` is never cleared (`main.cpp:13`): a signal after `~MemoryProxy` reads the
pointer of a destroyed proxy, again with nothing or a crash.

| Code | Actions |
|---|---|
| `main`, `run`, `~MemoryProxy` | `NoModel` or `Build`; `Register`, `MainLogs`, `Listen` or `CannotBind`, `Clear`, `Leave`; `SetStop`, `NotifySaver`, `NotifyWorker`, `JoinSaver`, `JoinWorker`; `EndEmbedder`, `EndStore` |
| cpp-httplib's accept loop and pool (external) | `Accept`, `Drain`, `PoolJoined` |
| a request | `PoolLogs`, `Answered`, `Forget`, or `PushTurn` and `NotifyTurn` |
| `saver_loop`, `fact_loop` | `SaverTest`, `SaverSleep`, `SaverTimeOut`, `SaverTake`, …; `WorkerTest`, `WorkerSleep`, `WorkerTake`, `WorkerDrop`, `WorkerLeave`, … |
| `signal_handler`, `stop` | `Signal`, `HandlerLogs`, `HandlerLoads`, `HandlerStops` |

`LogFree` is the mutex of `log()`.  What a turn is saved as is `SavePipeline`'s.

### AnswerCapture

A backend's answer in the two handlers, plain (`Answer`, `BackendError`,
`Unreachable`) and streamed (`Chunk`, `End`).  A streamed line is a head, a tail and a
newline, and chunks end after any of them: the chat handler reads each chunk by itself
(`ReadChunk`), the messages handler keeps what has no newline in `pending_sse`
(`ReadPending`, `LinesRead`).  `End` may come at any time: the result of the streamed
`Post` is not looked at.

### InjectionBudget

From the options (`MaxInject`, `Options`) over `retrieve_and_inject`'s guard and choice of
k (`Guard`, `Retrieve`) to the loops that write facts and memories while they fit
(`WriteFact`, `FactsEnd`, `WriteMemory`, `MemoriesEnd`).  A text is its length in bytes.
The plain, compressed and sticky formatters run the same loop over lines that are
shortened differently, never beyond what `truncate` leaves.

### MemorySides

`split_memory_sentences` and `compress_memory_side` on sequences of bytes, a byte being
what the splitter takes it for (a letter, the first or a later byte of a wide one, a
space, …).  A unit is a span, and the vectors of units are sets of them: spans that are
apart have their order.  `RawUnits` reads the lines from the first on, `AddLine` one of
them; `SplitLong` cuts what is too long; `MergedUnits` and `SplitSentences` merge what is
too short.  `Split` is the saver's call, after which units without a vector are not
ranked; `Select` tries one ranked unit; the scores only order them, so the order is any.
`SidesAssumption` asks that the texts are UTF-8, as `SafeEnd` needs: they come out of
parsed JSON.

### Calendar

The conversions of `temporal.cpp`, with C++ division and remainder, and the windows of
the relative phrases.  Beside the program's day number walks a wall calendar
(`Tomorrow`, `Yesterday`), which turns its pages one at a time and knows nothing but the
lengths of months.

### The MC modules

The instances: `Mentions`, `Tokens`, `Size`, `Weight`, texts and the bounds of each client
as definitions, and the symmetry of keys, values and memories.  All other constants are in
the `.cfg`s.  `MCAlgorithms` walks four modules that share nothing in one run: `running`
says which, the other three rest.

## 4. Runs

| Run | States | Shows |
|---|---|---|
| `store_memories` | 2,643,840 | cache coherence, no dangling rows, cache never ahead, deleted for good, eviction at the cap: two namespaces, three memories, two mentioned days, TTL on, a crash anywhere |
| `store_facts` | 713,061 | facts cache is the table; supersession runs forward; each crash costs at most one outdated active fact; every deletion takes its facts (both caps and TTL reached), with a crash anywhere |
| `pipeline` | 1,896,225 | saver, fact worker, purge and admin in every interleaving: close turns merge but behind a purged entry, facts stay where their turn went, every turn is accounted for and (liveness) settled |
| `vector_index` | 23,273 | with one embedding model the array implements the map, and its waste stays below the threshold: seven memories, a threshold of five vector pairs, purges, restarts |
| `embedding_queue` | 634,823 | one search thread and two saving threads: each waiting call has one promise, no wake-up is lost; the worker implements `EmbeddingService`: own answers, each priority in order, one batch of saves at most before a waiting search; searches are answered, saves when searches cease, and a stopping worker first finishes its jobs |
| `requests` | 1,936,845 | two clients over a cache of two entries: list and map are one cache; a follow-up's prompt extends the one before; no memory is shown twice, unless purged in between; a trimmed window is whole and never reaches back |
| `shutdown` | 278,931 | two request threads, two signals: accepted turns are taken before the saver leaves, nothing is destroyed under a thread that uses it, only late fact jobs go unsaid, and a process told to stop ends, but for named races |
| `search` | 4,720,308 | searches between any two statements of the store: lexical hits are found in the cache, deleted memories are not answered, answers are readable and name no id twice, fusion keeps what both rankings agree on |
| `algorithms` | 4,110,033 | streams of four lines cut anywhere; every day of 261 years around 1970 and of 261 around a day 2000 years before; all combinations of budget options; texts of up to six pieces |
| `purge_served`, `mixed_models`, `tool_turns` | – | three statements of the source, its docs or tests that the code does not keep; see `findings` |

Bounds.  `MaxMemory`, `MaxFact` bound the ids ever given out, `MaxCount` the access
counter, `MaxNow` the days, `MaxCrashes` the crashes, `MaxTurns` and `MaxDeletes` the
environment of the pipeline; all stand in guards.  Three memories over two
namespaces with caps of one make eviction take one and, after a crash between
insert and evict, two victims, leave an id gap, and let a deleted id meet its
successor; three facts are a chain of two supersessions; two days let a TTL of one
expire a memory while a younger one lives.  The pipeline's queues hold one job, so that
three turns overflow both; of its three texts the first and the second are close, and less
so the second and the third, but not the first and the third, so that entries of either
kind compete for a merge and two memories a third is close to are kept apart.  `CHECK_DEADLOCK` stays on in the runs of the store, the
pipeline, the searches, the array and the requests: pending time, deletions and
housekeeping keep those systems going, and none stops.  In `VectorIndex` vectors have
two floats and the threshold is twenty, so that both conditions of
`should_recompact` occur, alone and together, also on an emptied cache.
`store_facts` uses the symmetry of keys and of values, which are only compared.

In `EmbeddingQueue`, `MaxQueued` bounds each queue and `MaxAbandoned` the jobs left by
callers that gave up; texts have no token, few, as many as a batch takes, and too many,
so that a batch leaves out a sequence, overflows into the serial fallback, and meets the
assertion.  Deadlock is not checked there: after shutdown or the assertion the worker
has ended.  One search is enough to be overtaken by saves, and two saves to be one batch
or to be out of order; the order of several searches, whose queue is handled by the same
lines, and larger batches are the theorem's (`WorkerIsService`).

In `requests`, `MessagesOfOne` and `MessagesOfOthers` bound the conversations: each begins
with a system message; the first client has three questions, the other one, which is
enough for the second client to push a block of the first out of a cache of two.  A message
weighs one token and a tool call without words four; the budget is five and the target
three.  So three plain questions with their answers, and two with a tool call between, are
within the budget, and what a follow-up keeps is checked through them; a call without words
brings a conversation above it, also in its last turn alone.  One memory is purged, at any
moment.  Windows that are trimmed and still hold two questions are not reached; they are
the theorems'.  Each client is an agent of its own: two that share an agent (or send no
`X-Agent-Id`) and begin alike share their keys and overwrite each other's blocks, which
nothing in the documentation excludes.

In `search`, `Candidates` (3, in the code at least 50) is above `TopK` (2), as there; with
three memories each ranking can hold all, so that the cut to `top_k` and the hits one
ranking lacks occur; a day that passes lets the purge leave an overwritten id among the
live ones.  In `shutdown`, two request threads with three turns fill both queues; two
signals may meet on one or on two threads.  Deadlock is not checked: the process ends.
In `algorithms`, four lines give a chunk that begins inside one, holds one and ends inside
a third; `Span` is 47,700 days on both sides of 1970 and of a day 2000 years before it,
past the leap days of 2000 (which is), of 1900 and 2100 (which are not), and past the
year 0; the budgets and texts are just below, at and above what the tables ask for; units
of seven bytes, fragments of three and texts of up to six pieces (letters, a two-byte
character, white space, stops, bullets, fences) make long spans, merges, open fences and
cuts beside a wide character; each of the walks ends, so deadlock is not checked.

A consequence of `purge_served` is not run on its own: a purged entry keeps its vector
and, being first, wins `find_duplicate` over a live memory that is no closer; its id
of -1 then means "no duplicate".  `NoDuplicateMemories` names that exception.  In a
hybrid search the purged entries share the id -1, so their reciprocal ranks add up to
one fused score that can outrank every live memory; `AgreementKept` speaks of the others.

Other consequences of the code that are visible in the models:

* a crash between `insert_fact`'s INSERT and UPDATE leaves two active facts for a key,
  and later inserts retire only the older; `ActiveFactsPerCrash` is what remains true;
* after a crash among an insert's date rows the other days are never stored:
  `backfill_memory_dates` skips a memory that has any date row (`memory_store.cpp:180`);
* a deletion between `find_duplicate` and `touch` makes the turn one that is logged as
  merged and stored nowhere (`proxy.cpp:353`);
* a fact job that waited while its memory was deleted stores a fact that refers to
  nothing, and that no later deletion takes along (`proxy.cpp:319`);
* a turn that is merged leaves its answer nowhere, and its fact with a memory that may
  have another (`proxy.cpp:355`); deleting that memory deletes the fact;
* a memory that is purged after a block showed it goes by -1, is not excluded by the id
  the block remembers, and is shown once more (`sticky.cpp:167`); while the block
  that did so is remembered, searches for later turns of that conversation pass over every
  purged memory, whether it was shown before or not;
* a second request for the same question (a retry, the next step of a tool loop)
  retrieves anew and replaces the turn's block, so that prompts of one turn may
  differ; the next question extends the last of them;
* the trimmed window is computed anew on each request, so it moves again as soon as the
  retained turns outgrow the target, also far below the budget (`history.cpp:47`),
  although `README.md:94` wants to "avoid shifting the retained window every turn";
* a signal before the server listens is lost: `svr_ptr_` is empty, or `stop()` finds a
  server that is not running, and `listen` goes on to serve;
* `main` returns 1 when the model does not load (`main.cpp:50`), although `README.md:416`
  promises "Graceful degradation: if embedding model fails to load";
* a streamed answer begins with status 200 before the backend is asked, and a stream that
  breaks off is saved as far as it came (`proxy.cpp:950`); a chat line cut by a chunk
  boundary is forwarded and missing from the memory;
* an unstreamed chat answer with empty text is saved, a messages answer is not; a
  streamed chat turn is saved by its conversation although the last question has no
  text, an unstreamed one is not (`proxy.cpp:882`, `:950`);
* facts are written before memories from one budget, and the guard's division by k
  leaves out header and footer, so both can cost calibrated memories without a word;
* the check at the start reckons without `--absolute-dates` (`proxy.cpp:1155`) and can
  announce an explicit budget as sufficient that is not;
* `truncate` cuts inside a multi-byte character (`injector.cpp:19`), unlike
  `truncate_utf8`; a JSON body with half a character cannot be dumped, so such a memory
  turns a request without `--compress-memories` into a 500;
* short fragments are merged into the unit before them without limit, so units can
  exceed the 300 bytes that `split_long_span` keeps to.

Fairness.  `FairPipelineSpec` has weak fairness of each of the saver, the fact worker
and whoever is inside the store: threads are scheduled, SQL statements return, and
`embed` gives up after ten seconds (`embedding.cpp:94`).  Weak fairness is enough
although both threads compete for `db_mutex_`: admin deletions are finitely many in the
model and only delay, and a fact answer is finite.  In the code a thread could in
principle lose the race for the mutex for ever against an endless stream of requests; the
run does not claim otherwise.

`EmbeddingQueue`'s `FairSpec` has weak fairness of the worker's own steps, of the steps
of shutdown once it has begun, and of each thread's `Notify`; none of time-outs, calls or
spurious wake-ups.  `CallsAnswered` promises an answer to a search, and to a save if
searches cease, since the code serves saves only when no search waits; a save that waits
ten seconds is lost.
`NotifyStop` without the mutex can fall between the worker's test and its wait; the
worker then sleeps until something else wakes it, so `ShutdownDrains` promises that
the jobs get done and not that the worker ends.

`Shutdown`'s `FairSpec` has weak fairness of each thread and of a signal handler once it
runs: backend calls and embeddings time out, and so does the saver's wait of thirty
seconds; nothing makes requests, signals or spurious wake-ups come.  `ShutdownEnds` is
about stops that found the server listening, and names what it excepts: a wake-up of the
fact worker that fell between its test and its wait (it has no time-out), a handler that
waits for the log its own thread holds, and the crash of a handler that used the server
or the proxy after its end.

Each property has a mutant in `PROJECT.json`: a plausible slip in the code (a cache
update forgotten, foreign keys off, ids reused) under which TLC finds it violated.
The mutants' operators stand in the modules just before the definition they change,
and nothing else uses them.

## 5. Proofs

`MemoryStoreProofs` proves, from `StoreAssumption` alone and for every value of the
constants:

| Theorem | Property |
|---|---|
| `TypeCorrect` | `TypeOK` |
| `NoDanglingRowsEver` | `NoDanglingRows` |
| `CacheCoherentEver`, `CacheNeverAheadEver` | `CacheCoherent`, `CacheNeverAhead` |
| `DeletedMemoriesStayDeleted` | `DeletedForGood` |
| `FactsCoherentEver`, `DeletionsTakeFacts` | `FactsCoherent`, `DeletionTakesFacts` |
| `SupersessionForwardEver` | `SupersessionForward` |
| `ActiveFactsPerCrashEver` | `ActiveFactsPerCrash` |
| `OneActiveFactWithoutCrash` | `OneActiveFact`, assuming `MaxCrashes = 0` |
| `EvictReachesCapEver` | `EvictReachesCap` |

The argument.  `CacheCoherent` only speaks of the moments when `pc` is idle; to be
inductive it needs what is true in the middle of each operation.  That is added in
layers, each proved from the ones before:

* `TypeInv`: the types, and that `cur` names a row while one is being inserted,
  touched or superseded;
* `OpInv`: what `victims` and `todo` mean at each `pc` — in the row loops the victims
  still in the table are among those to do, afterwards none is;
  `TableInv`: ids are below the counters, date and sentence rows have their memory,
  and only mention days the memory's text mentions;
* `CacheInv`: which entries there are (`EntriesInv`), that every row but the one being
  inserted is served and every live entry is a row or a victim (`ServedInv`), and that
  an entry agrees with its row in all the operation has not touched (`AgreeInv`);
* `FactsInv`: outside the fact loops and the supersession the two fact tables are
  equal; in a loop the table has lost exactly what derives from the victims already
  handled; in a supersession it has one fresh row more;
* `ForwardInv`: supersession points to younger facts;
* `CountInv`: the active facts of a key, not counting the new row of a supersession in
  progress, are at most one more than the crashes, and the fact such a supersession
  is about to retire is active, so that retiring it makes room for the new row;
* `EvictInv`: while an eviction runs, the rows of its namespace that are no victims are
  exactly as many as the cap lets stay, which the passes, taking victims only, cannot
  change.

`OneActiveFactWithoutCrash` is the case of no crash; its hypothesis is needed: a
crash between `InsertRival` and `Supersede` leaves a second one.

`VectorIndexProofs` proves, from `IndexAssumption`:

| Theorem | Property |
|---|---|
| `IndexTypeCorrect` | `TypeOK`, with any set of models |
| `ArrayIsVectorMap` | `IsVectorMap`, the refinement, assuming one length `D` (`Dims = {D}`) |
| `WasteBoundedEver` | `WasteBounded`, assuming one length |

`OwnInv` says that each entry's offsets lead to its own floats inside the array, and
what makes a new or reloaded memory one without an entry; `RepackedAt` computes, by
division with remainder, what recompaction puts where, and `PlaceOfOne` that the
place determines the entry.  `WasteInv` adds that `holes_count_` never counts fewer
vector pairs than are wasted: the purge only makes it count too many, and an
unrecompacted deletion is below the threshold by `should_recompact`'s first test
alone.  The hypothesis of one length is needed: `mixed_models` is the counterexample
with two.

`EmbeddingQueueProofs` proves, from `QueueAssumption`:

| Theorem | Property |
|---|---|
| `QueueTypeCorrect` | `TypeOK` |
| `NoLostWakeUpEver` | `NoLostWakeUp` |
| `JobsMatchCallsEver` | `JobsMatchCalls` |
| `OwnAnswersEver` | `OwnAnswers`, which `IsService` includes |
| `WorkerIsService` | `IsService`, the refinement |

`SleepInv` says that the queues the worker found empty stay empty while it holds the
mutex before it waits, and that a job pushed while it sleeps has a caller that is yet
to notify.
`PromiseInv` says, as long as the process lives, that a caller without an answer has its
promise in exactly one place (`OnePromise`), with its own text (`OwnText`); it is
inductive together with `IdleInv` and the type.  For `OwnAnswers`, `JobSeqIncreases`
shows that the sequence numbers of the jobs that have tokens grow with their places, so
no two share one, and `BatchedIsOwn` that the embedding read back for a job is of its
own text.

For `WorkerIsService`, `ServiceInv` adds to these that a caller that is not idle has a text
(`AskedInv`), so that the service's `Waiting` is the queue's `Pending` (`WaitingIs`).  Each
action then is a step of the service or a stutter (`StepServes`), by what it does to the
places of the promises: nothing (`SameLines`), the end of one (`OneSettled`, under
`FulfilIsAnswer` and `TimeOutIsGiveUp`), a new one behind all of its priority (`CallIsAsk`),
or the front of one queue moved into the worker's hands (`TakePlaces`).  The last keeps
everyone's order (`TakeKeepsOrder`); of saves it is an admission (`TakeIsAdmit`): the jobs
taken are no more callers than jobs, since a caller has one promise, those ahead of a
caller taken are taken too, and the other queue is empty, so that no search waits.
`JobsMatchCalls` is needed throughout: with two promises for one call a place would not
say who is ahead.

`SavePipelineProofs` extends `MemoryStoreProofs`:

| Theorem | Property |
|---|---|
| `PipelineUsesStore` | `PipelineSpec => Spec` of `MemoryStore` |
| `FactsKeepTheirSourceEver` | `FactsKeepTheirSource` |
| `NoDuplicateMemoriesEver` | `NoDuplicateMemories` |
| `TurnsAccountedEver` | `TurnsAccounted` |

The threads change the store by its operations alone (`ThreadsCallStore`, from
`ThreadsInv`: what they hold are jobs, and ids that were given out), so the store's
invariants hold beside them.  What is added says what a thread still knows of the store
when it comes back to it, having let `db_mutex_` go in between:

* `OwnerInv`: the thread inside the store is the one whose operation is at `pc`, and the
  saver inside it has already gone on to where it waits for the return;
* `SourceInv`: wherever an id is on its way to a fact (in the saver's hands, in the fact
  queue, in the worker's hands), the memory it names, if there still is one, has the text
  the fact will be drawn from or one that text is close to (`Holds`).  It lasts because ids are not given out again
  (`NamesForGood`) and because a cache entry, which a merge goes by, says what its row says
  (`TextInv`);
* `LookupInv`: between `find_duplicate`'s "none" and the insert, made without the mutex,
  nobody adds a close entry, since the saver alone adds rows (`OnlySaverAddsRows`); each
  close entry there is has been overwritten by a purge or stands behind one that was, in
  closeness or in place (`HoleBefore`), and what a purge has overwritten stays overwritten
  (`HolesStay`), which is the exception `NoDuplicateMemories` makes;
* `AccountInv`: the queue holds the queued turns in their order, the saver the one that is
  held, and the counter the dropped ones, which are older than any queued.

`ChatRequestsProofs` proves, from `RequestAssumption` and `HistoryAssumption`:

| Theorem | Property |
|---|---|
| `CacheIsOneEver` | `CacheIsOne` |
| `DroppedStaysDroppedEver` | `DroppedStaysDropped` |
| `WindowIsWholeEver` | `WindowIsWhole` |
| `FollowUpExtendsEver` | `FollowUpExtends`, assuming `Sticky` and that no two clients are one agent (`AgentsApart`) |
| `NoMemoryTwiceEver` | `NoMemoryTwice`, in every mode |

At any capacity, zero included, the LRU list names each key of the map once and nothing
else.  `Enumerates` says that of a list and a set; moving to the front, pushing and
dropping the last keep it, and `EnumeratedSize` gives that the list is as long as the map
is large, which makes the test of the map's size in `put` a test of the list's.

The trimming adds up the tokens of sets of messages.  What a sum over a set is needs an
induction; since a lemma with an operator as parameter cannot be used, the proofs speak of
the least number of a set of counterexamples (`LeastNumber`, `AllNumbers`), which exists
because the order of the naturals is well-founded, and build the function of the partial
sums (`SumExists`, `SumUnique`).  From that, sums grow with the set and with the history
(`WeighMonotone`, `WeighSame`), so the first user message from which on all fits can only
move on, and the window counts as much as the part of the history it was taken from
(`WeighImage`, `WindowTakes`).  `NthOrders` and `RankOrders` give that taking messages by
their positions keeps their order.

For the follow-ups `FollowInv` says of each client (`ClientOk`): what was sent shows, at
each user message, what the cache has for its key, as long as it has the key (`SentOk`);
what a request has looked up so far is what the cache has or had (`Hist`), and is either
what was sent there before or was since given up (`Follow`).  Steps of other clients only
take keys of this one away (`Kept`), because keys begin with the agent, and that cannot
break any of the three (`ClientKept`).  Both hypotheses are needed: with the block in the
system message or above the last question the next prompt is another, and clients that
share an agent overwrite each other's blocks.  The `requests` run satisfies both.

`NoMemoryTwice` needs more than that a search excludes what the request has shown: the
blocks of two earlier turns must be apart already. `OnceInv` says so of the cache
(`Chain`): of two questions of a conversation, if the key of one begins like the key of
the other, and the entry of each is what it was given last, the entries have no hit in
common. It holds because the later turn's request looked the earlier key up and excluded
what it lists (`Lookups`, `EarlierShown`), and because no question that counts comes after
the one that is being answered, which is how retries and turns taken back keep it
(`Counts`, `ChainPosted`). Entries that others overwrite lose their mark, which can only
help (`KeptMarks`). A prompt whose blocks are the turns' own then shows apart entries
(`LitOnce`), and a block of other hits put anywhere, and the notice that lists none, leave
it so (`InjectOnce`). Purges change what the next search serves and nothing that was shown
or remembered. That no hit is shown twice is the property (`OnceShows`): two hits of one
memory differ in the id, so one goes by the memory's own and the other by -1. Clients may
share an agent here. That the blocks are the turns' own is a condition of the property,
and TLC shows what becomes of it otherwise: in a larger instance, of seven messages and
four entries, a trimmed window begins like an earlier one, overwrites its key, and a
memory is shown twice.

`HybridSearchProofs` extends `MemoryStoreProofs`:

| Theorem | Property |
|---|---|
| `SearchOnlyReads` | `SearchSpec => Spec` of `MemoryStore` |
| `LexicalHitsFoundEver`, `ResultsWereThereEver`, `ResultIsOwnEver` | `LexicalHitsFound`, `ResultsWereThere`, `ResultIsOwn` |
| `AgreementKeptEver` | `AgreementKept` |

A search only reads, so the store's invariants hold with searches running, and what a
ranking in hand still means is all that has to be added (`SearchInv`): its ids were live
when the call began or are rows now, ids gone by then never come back (from `TableInv` and
the counter), and while the call holds `db_mutex_` the store is idle.  `LexicalEntry` is
the heart: with an idle store `CacheInv` gives each row exactly one live entry, which is
what `find_if` looks for.  `AgreementKeptEver` needs no more of the weights than that they
fall strictly with the rank: ahead in every ranking is then ahead in the sum.

`ShutdownProofs`, from `ShutdownAssumption`: `ShutdownTypeCorrect`, and the theorems of
`AcceptedTurnsTaken`, `UsersGoneFirst` and `SilentFactsAreLate`.  `ServingInv` says that
requests are handled only while the server serves, `LeavingInv` who has left and what main
has waited for, `OwedInv` that from the stop on the unsaved turns only become fewer and
pay for each fact job queued after the worker left.

`AlgorithmsProofs` is about the four modules that share nothing.  Injection budget,
from `BudgetAssumption`, for any options and lengths: `BlockWithinBudgetEver` from
`BlockInv`, the estimates of the lines written exceed a quarter of their bytes and fit
(`TokensExceed` makes a sum of estimates an estimate of the sum); `CalibratedFitEver` from
`FitInv`, which pays for each line `MaxLineTokens` out of a budget that holds one for each
memory offered (`BudgetSuffices`, `LinesAreBounded`).

Captured answers, for streams of any length: `CaptureTypeCorrect`,
`MessagesSavedWholeEver`, `ChatLosesCutLinesEver`.  `PendingInv` says that `pending_sse`
begins where the last whole line ended, `ChunksInv` that a chat handler has captured the
lines inside which no chunk ended; `PendingLines` and `ChunkLines` do one chunk.

The calendar, for a walk of any length: `DatesAgreeEver` (`DatesAgree`) and
`WindowsRollOverEver` (`WindowsRollOver`).  A date has a place: an era of 400 years, a
century of it, four years of that, a year of those, a month from March on, a day.  On the
places the nested divisions of `days_from_civil` and `civil_from_days` are sums
(`DayNumber`, `YearBack`, `MonthBack`), the conversions are each other's inverse
(`RoundTrip`), and the last day of a month is followed by the first of the next one
(`MonthEnds`, `DayAfter`), leap days included.  `DateInv` says that the walking page is the
program's date and that the weekday keeps count; it is inductive by `FollowsByOne`.  The
windows then follow from what begins after a month (`SuccessorBegins`) and before one
(`MonthBeforeIs`).

The sides of a memory, for texts of any length, any caps and any order of the scores:
`SidesKeepTheTextEver` (`SidesKeepTheText`), from `SidesAssumption`.  `Covers` says of
spans that they are apart, begin and end where characters do, and leave out nothing but
white space between two places.  Trimmed spans cover what was trimmed (`PieceCovers`), and
spans of parts that meet cover the whole (`CoversBoth`).  From there it goes the way of the
code: the parts of a long span (`SplitLongCovers`; `SplitPointIs` finds a character's
first byte within the last four, so every cut moves on), the sentences of a line
(`SentencesCover`), the lines (`AddLineReads`, with `ReadTo` for what has been read, an
open code block included; `RawCovers`), the merged units, of which at most the first is
short (`MergedCovers`), and the result, where a short unit is the only one
(`SplitKeepsText`).  The two recursions are functions over bounded sets of places;
`PartsExist` and `ReadExists` build them up to the n-th place, by `AllNumbers`.

That nothing more fits at the end needs that a side grows with every unit selected, which
is not obvious: a unit between two others also saves a mark.  It saves at most one
(`OneMarkLess`), which is four bytes longer than a space, and costs its own bytes, three
or more once short units are merged, and a space (`SizeGrows`).  `SidesInv` says that the
units tried and left out do not fit beside those selected so far; `SizeGrows` keeps it.
`JoinedSize` adds up the cardinalities of the sets of bytes, spaces and marks written, and
`BytesGrow` and `PartsFinite` give what a unit more does to them.

Only model-checked: liveness (`TurnsSettle`, `CallsAnswered`, `ShutdownDrains`,
`ShutdownEnds`), which is out of the prover's reach.

## 6. Not modelled, and why

Disk errors and failing SQL statements (the code logs and goes on; no document says
what should hold then).  Cosines, boosts, decay and bm25: floating-point scores; the
searches take any ranking.  `search_facts`, listings, statistics, exports and the
passthrough handler: they read and change nothing.  The regular expressions of
`temporal.cpp` and the parser of extracted facts: text in, values out, without state; what
they may return is a choice or a constant.  HTTP, JSON and the backend: I/O; what they can
answer is a choice in the models.  Most options: the constants of the modules they belong
to.  Conversations with system messages elsewhere than at the beginning: `trim_history` is
modelled for them, no client of the model sends them.  Scripts, benchmarks and the vendored
libraries: no state of the running program that a property could be about.
