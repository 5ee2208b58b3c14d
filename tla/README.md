# Verification of opencode-mem

TLA+ models of opencode-mem (the Rust workspace under `src/source/crates`),
checked with TLC on small instances and, for the parts named below, proved with
TLAPS for every value of the constants. `PROJECT.json` lists the runs, the
source lines each definition stands for, the findings and the hazards.

## 1. The system

opencode-mem keeps an AI coding agent's memory in PostgreSQL. Two kinds of
process share one database:

* `serve` (crates `cli`, `http`): an axum server that the hooks call, with a
  queue poller, cron tasks and an operator's API. Requests run concurrently and
  their futures are dropped when the client goes away.
* `mcp` (crates `cli`, `mcp`): a JSON-RPC server on stdin/stdout that handles
  one request at a time, with the same maintenance loop in the background.

Both are restarted by hand or by a supervisor, at any time, in any number.

| Component | State | Operations | What makes it correct |
|---|---|---|---|
| Pending queue (`storage/pg_storage/pending.rs`, `storage/pending_queue.rs`) | table `pending_messages`: status, retry count, claim time | queue, claim, complete, fail, release stale, retry, clear | no message is lost or handled twice without a timeout; the retry budget bounds attempts; dead letters stay dead |
| Queue processor (`http/handlers/queue_processor.rs`, `queue.rs`) | semaphore permits, poller loop, task set, `processing_active` | poll, spawn, process, startup recovery, operator's requests | permits come back; a waiting message is served |
| Life cycle of `serve` (`cli/commands/serve.rs`) | phase of the process | start, drain, join, exit, crash | nothing in memory is needed to recover |
| Circuit breaker (`storage/circuit_breaker.rs`, `PgStorage::guarded`) | four atomics per pool | `should_allow`, `record_success`, `record_failure` | opens only on consecutive failures; one probe; recovers |
| MCP tool handlers (`mcp/handlers`) | - | gate, service call, record again, buffer, flush after recovery | degraded answers while the database is away |
| Pending writes (`service/pending_write_queue.rs`) | bounded deque, `flushing` flag, in each process | push, pop, push back, flush | buffered writes reach the database once it is back, in order |
| Deferred migrations (`PgStorage::try_run_migrations`, `InfiniteMemoryService`) | `migrations_pending` of each pool | run at start, on recovery, by a retry loop, on a missing relation | one runner; never forgotten; applied in the end |
| Infinite memory (`service/infinite_memory_service`) | events, three levels of summaries, leases, retries | store, lease, summarize, link, release | every event is summarized once; leases end; counts agree |
| Session summaries (`service/session_service.rs`) | sessions, summaries, placeholders | complete, summarize, sweep: claim by placeholder, generate, delete | every quiet session gets one summary; no stale placeholder |
| Observation pipeline (`service/observation_service`) | observations, vectors, their knowledge | compress, create or merge, embed, extract, enrich, sweep, delete | no lost facts when two writers merge; references stay valid |
| Context injection (`http/handlers/context.rs`, `observation_service/injection.rs`) | `injected_observations` | choose, dedup, record, check for echoes, clean up | a session's echo of what it was shown is not stored |
| Knowledge (`service/knowledge_service.rs`) | knowledge rows, confidence, usage | save (insert or merge), link, read, count a use, decay, archive, delete | uses keep a row, confidence is accounted for, no duplicates |
| Search and timelines (`service/search_service`, `http/handlers/search`) | none | hybrid search with fall-backs, timeline | nothing is missing in an answer that several queries make up |
| Maintenance (`service/maintenance.rs`) | tick counter | spawns the periodic jobs every n-th tick of 5 s | jobs of two ticks or processes may overlap |
| Core algorithms (`core`) | none | compute_merge, union_dedup, filters | a merge keeps what both rows say |
| LLM client (`llm/client.rs`), embeddings | none | retry with backoff | bounded retries |
| HTTP routes, CLI hooks and import | none | translation of requests | not a matter of state |

How they interact: hooks POST to `serve`, which queues tool calls; the poller
claims rows and spawns tasks that call the observation pipeline; this asks the
LLM, checks for echoes, writes observations and knowledge, and sends the event
to infinite memory. Everything that touches the database goes through
`PgStorage::guarded` and so through the breaker; when it refuses or the database
is away, writes go to the pending writes. The maintenance loop of every process
works on the same tables as the requests, by tasks it does not wait for.

Hard behaviour: tasks that outlive their visibility timeout or lease; crashes
between a claim and its end; startup recovery of one server while another runs;
claims whose answer is lost; the interleaving of the breaker's four atomics;
probes that never report; writes buffered while a flush runs; two sweeps that
claim one session; merges of rows that somebody has read and not yet written;
answers put together from several queries. The list with lines is `hazards` in
`PROJECT.json`.

## 2. Modules

| Module | What it is | Theorems in |
|---|---|---|
| `WorkQueue` | what the queue promises: a message waits, is worked on, and ends done, dead or cleared | |
| `PendingQueue` | the table, the servers with their permits, pollers and tasks, the operator, crashes | `PendingQueueProofs` |
| `CircuitBreaker` | the four atomics, the steps of every kind of caller, time, the database | `CircuitBreakerProofs` |
| `DegradedWrites` | the buffer of writes, requests, flush tasks, triggers, over a breaker whose calls are atomic | `DegradedWritesProofs` |
| `Migrations` | both services' flags, attempts, recovery hook, retry loop, missing relations | `CircuitBreakerProofs` |
| `Digest` | what infinite memory promises: events stay, a summary is made at once from one window of one session | |
| `InfiniteMemory` | events and summaries of three levels, leases, overlapping runs | `InfiniteMemoryProofs` |
| `SessionSummaries` | sessions, placeholders and summaries, overlapping sweeps and requests | `KnowledgeProofs` |
| `Observations` | the pipeline from message or saved text to row, vector and knowledge; the sweeps | `ObservationsProofs` |
| `Knowledge` | saves that insert or merge, links, uses, the lifecycle sweep | `KnowledgeProofs` |
| `ContextInjection` | what a session is shown, the record of it, the echo check | `ContextInjectionProofs` |
| `Retrieval` | timelines, searches and the choice of knowledge, over rows that change | `RetrievalProofs` |

`MC<Module>` are the instances TLC checks. Definitions named `X_Y` are slips of
`X` (a dropped guard, an off-by-one, a missing reset). Nothing uses them; each
shows that some property tells it from the code. The proofs about `Migrations` stand
with those about the breaker whose recovery it follows, and the proofs about
`SessionSummaries` with those about `Knowledge`; a module of proofs extends both, so
the two modules of a pair have no name in common (`MNext`, `SNext`, ...).

In every module a process, task or request has a `pc` where an `.await`, a
statement or a transaction separates two steps; `faults` bounds how often a query
fails, an answer is lost, a process dies or a client deletes, and is the bound
named `MaxFaults`. Variables called history are written and never read by what
models the code.

### PendingQueue

`row` is the table by id, `nextId` its sequence, `slot` what each permit of a
server's semaphore is used for (free, reserved by the poller or by the
operator's request, or held by a task with its message and next step). `poll`,
`admin`, `phase` and `active` are the poller's place in its loop, the operator's
request `process_pending_queue`, the life of the process and the switch
`processing_active`. Actions carry the names of the functions
(`claim_pending_messages`, `complete_message`, `fail_message`,
`release_stale_messages`, ...) or of the loop's parts (`PollReserve`,
`PollClaim`, `PollSpawn`, ...).

The visibility timeout is a step of the row that may come at any moment after
its claim, so a task may always be late. `SKIP LOCKED` lets a claim pass over a
row that another statement may hold. A claim may commit and its answer be lost.
`Crash` takes a whole process with everything in its memory. Nothing ties a row
to its task, as in the code: `complete_message` and `fail_message` go by the id.

Left out: `release_messages` (no caller), `permanent` failures (never requested
by the code), rows that cannot be parsed, and what `process_pending_message`
does with a message beyond its Ok or Err (that is `Observations`).

### CircuitBreaker

Each load, store, swap and compare-exchange of `should_allow`,
`record_success` and `record_failure` is a step. A call is guarded
(`PgStorage::guarded`), or a `Handler` (asks `should_allow`, makes guarded
calls, records again), or `Bare` (the knowledge service's tasks, which record
no error but unavailability), or `Cancelled` (its future may be dropped at the
query). The backoff's anchor has an age in ticks that saturates at the largest
backoff, and the failure count saturates at the threshold: no comparison of the
code tells more.

### DegradedWrites

`buffer` and `flushing` are the fields of `PendingWriteQueue`; a request walks
through `gate` (the MCP handlers' `cb_fast_fail_write`), `call` (the guarded
call's `should_allow`), `query`, `record`, `push` and `after` (the end of
`handle_tool_call`); a flush task through `pop`, `write` and `leave`. Requests
of `serve` skip the gate and run concurrently. The poller flushes only after it
has claimed messages (`PollerClaim`, which leaves `claimed`) and only if it then
finds the circuit closed (`PollerFlush`). A breaker call is one step and
its backoff may be over at any moment. `line` remembers, apart from the code's
own variables, which writes were answered "buffered" and are not settled. The
content of writes is left out. Whether an unavailable database has taken a write
all the same is not visible to anybody, and not modelled.

### Migrations

`service` says which of the two services it is: they have the same flag and
compare-and-exchange but not the same ways to it. `op` are concurrent calls,
`hooks` the recovery hooks that were spawned, `attempts` who is running the
migrations, `loop` the retry loop of `InfiniteMemoryService::new` with its
doubled `delay`, `watching` the MCP tool calls that saw the circuit not closed
when they began. Calls ask the breaker (`Ask`), but for the reads of infinite
memory, which go to the database unasked (`ReadUngated`). The breaker is atomic here.

### InfiniteMemory

The four tables are one function `rows` with a level. `run` holds a run's level,
sessions and the batch it has claimed: `Start`, `ClaimSession`, `Compress`
(LLM call and transaction), `CompressFails` (with the release), `NotYet`,
`NextLevel`, `Abort` follow
`run_full_compression` and `run_compression_pipeline`; a lease may run out under
a run (`Over`), a window's release
may fail, and a transaction may commit and its answer be lost. `covers` and `overrun` are
history: which rows each summary was made of, and which rows lost their lease to
another run. So are `tries`, how often the LLM was asked about a row, and `lapses`,
the faults after which the code may have asked and not counted it: an aborted run,
a release whose error is ignored, a lease that runs out under a run.

`Digest` is what a reader may rely on: items with a level, a session and a time, and
for each summary the items it was made from. It knows of no runs, leases, retries or
links. `InfiniteMemory` implements it with `known` the rows without what coordinates
the runs, `made` the history `covers` and `loose` the history `overrun`.

### SessionSummaries

`summary` is the kind of a session's row (none, a placeholder, a stale one, a
text, the text of an error, the mark that there was nothing to say). A sweep
walks through list, check, drop of a stale placeholder, claim, load, LLM, save
or delete, with queries that may fail at each; a request through
`complete_session` or `summarize_session`. Placeholders age at any moment, so a
live sweep may be taken for a dead one.

### Observations

`row` has, per id, the facts of its sources, the title's owner, whether the text
is enriched, and whose text its vector is of. A `Task` is a queue worker or a
`save_memory` request: read candidates, ask the LLM, insert with up to five
titles or merge, embed, extract knowledge, enrich. A `Sweep` merges a pair it
found in a snapshot, or embeds a row that had no vector. What the LLM and the
filters decide is a choice.

### Knowledge

`rows` is `global_knowledge` by the id of the save; `call` a save's transaction
(exact title, lock, similar title, similar vector, insert or merge with what it
read), `sweep` the two statements of the lifecycle, `reads` the tasks that
count uses after an answer. `used` is history: the answers with a row whose use
was not lost with its task, to be compared with the column `usage_count`. The advisory lock serializes the searches for
similar titles. Confidence counts in steps of 0.05, time in weeks, both of
`decay_confidence`.

### ContextInjection and Retrieval

`ContextInjection`: `request` reads rows, then the similar pairs among them,
merges them by the union-find of `deduplicate_by_embedding`, and records what is
left; `check` reads the ids injected into its session, then their vectors, then
stores or drops the observation. Sweeps repoint records, clients delete rows,
records grow old and are cleaned up between any two queries. `Find`, `Union`,
`Compared` and `Joined` are the union-find with its two loops, as recursive
functions; that find also halves the paths it walks moves no root and is left out.
Rows of one time are listed in any order. A threshold of 0 or less switches the
deduplication or the check off, as in the code.

`Retrieval`: a timeline reads its anchor and its two sides; a search tries the
semantic and hybrid ranking and falls back to words; a context
lists knowledge, chooses by tiers and counts the uses of what it showed. All
three share the rows, which are inserted, merged and deleted meanwhile; both
merges may move the time of the row they keep. A query has four lists: the ranks
for any of its words (`Text`, the OR of v2), for all of them (`AllWords`, the AND
of v1 and of the search by text), the similarities (`Vector`) and the keywords
a row has (`Overlap`). Scores are natural numbers, to which one scale and one shift
per list bring the code's `f64`s; what normalization makes of a list does not
depend on either. Normalized scores are fractions (`Share` of `Spread`), weighed
exactly: two totals are compared over a common denominator. The rounding of
floating point, which could make a tie of two totals, is left out. Times are
distinct, so the side of a timeline is a set: `Latest` and `Earliest` are the
`ORDER BY` with its `LIMIT`. An order in which knowledge is listed is a function to
places. A side counts as full (`Full`) one short of `MAX_QUERY_LIMIT`, since that
caps the query and the anchor takes one of its rows.

## 3. What the runs check

| Run | Instance | Shows |
|---|---|---|
| `PendingQueueTwoServers` | 2 servers with a permit each, 1 message, 2 retries, 1 operator retry | types, the budget's guards agree, done means handled, attempts bounded, no overlap before a timeout, dead letters stay |
| `PendingQueueLive` | 1 server, 1 permit, 2 messages | refinement of `WorkQueue`; messages are served; orphans with retries left recover |
| `BreakerMixed` | a bare, cancellable call and a handler's call, threshold 2 | types; a half-open circuit has a probe; the circuit closes for good, or its probes never report or are used up by handlers |
| `DegradedFlush` | a concurrent request, a handler, 3 writes, 2 flush tasks, capacity 2 | one flush, writes kept in order, emptied on recovery under load |
| `MemoryRuns` | 2 runs, 3 events of 2 sessions (one the LLM never answers for), 6 summaries, 2 levels, 2 retries, 1 fault | exclusive work, one parent per row, counts agree, calls of the LLM bounded by retries and lapses, refinement of `Digest`, every row settles |
| `SessionSweeps` | 2 sweeps, a request, 1 session, 1 fault, 1 failed LLM call | placeholders are owned, summaries kept, every quiet session settles |
| `ObservationMerges` | a message, a saved text, 2 workers, a sweep, 1 fault | facts kept, answers stored, sources exist, vectors current |
| `KnowledgeLifecycle` | 3 saves (2 of one title, 1 similar), 2 sweeps, 14 weeks, 1 fault | confidence accounted for, no row archived whose counted use was forgotten, sources kept, inserts are news, a pass archives |
| `MigrationsApplied` | 3 calls, one without the hook, 1 outage, 1 fault | one attempt at a time, never forgotten, infinite memory is migrated |
| `MigrationsDeferred` | 2 calls, no outage after the start, no fault | violation: `PgStorage`'s deferred migrations may never run |
| `ContextEchoes` | 4 observations, a session, a request, a check, cap of 2 ids, 1 fault | echoes are dropped; one row per topic, the best |
| `ReadAnswers` | 4 observations, 2 searches with 4 lists each, timelines of 1+1, 5 entries listed in 3 orders in contexts of 4, 1 fault | timelines without gaps, better rows first, every entry is used |

The type invariants of the modules checked by one run are conjuncts of an
invariant of that run, except those of the queue and the breaker.

Why the bounds are enough to meet the cases:

* Queue: two servers let a late task and a new one hold the same row; two
  messages let the claim choose, skip and batch; two retries reach a takeover
  before and at the limit; an operator's retry gives a late task a row with a
  fresh budget.
* Breaker: a handler and a background call are the callers of one `mcp` process
  that can meet between each other's atomics; threshold 2 separates "first
  failure" from "opens"; the largest backoff is twice the least, so that
  doubling happens and meets the cap. That the circuit opens on consecutive
  failures only is proved for any number of calls.
* Writes: capacity 2 with three writes fills the buffer with a write in a
  flush's hand; two flush tasks are what `start_flush` has to prevent.
  `DegradedFlush` mixes callers that live in different processes: it allows more
  than either.
* Infinite memory: two runs are enough for any race on a row; two events of a
  session make a window of more than one; the poisoned session stands beside the
  good one so that it could hold it back. Widths of 1 and 2 put two windows into
  one of the next level. Faults are fewer than the retries: more faults use the
  retries up, in the code too. All events come at one
  time; that a summary mixes no two sessions and no two windows was checked once
  without the poisoned session and with events at two times, and is proved.
* Sessions: a placeholder is fought over by at most two sweeps at a time, and a
  request is the third writer. One session, since no statement touches two.
* Observations: merges need two rows and somebody late: a sweep against a task, a
  task against a task. Two titles stand for the five.
* Knowledge: the three saves have every relation two saves can have (same title,
  similar, and both by way of a third); the clock jumps by 7 weeks twice, so a
  row decays from the initial confidence to below the floor and reaches the age
  for the archive.
* Context: the chain 1-2-3 is what a union-find must join, observation 4 is an
  echo exactly at the threshold; a cap of two ids is met.
* Retrieval: sides of one row are full or not, twins on both sides of an anchor
  can merge across it; contexts show four of five entries, so one always waits.
  The lists of a search disagree with each other, have gaps, ties and steps of
  different width, and a limit of 1 cuts them short of the rows there are. The
  proof has no such bounds.

Deadlock is not checked where clients may stop and nothing else is left to do.
Symmetry is used in safety runs only.

### Fairness

* Queue: a stopped server is started again (the documented supervisor), a
  drained one exits, the poller's loop runs, tasks end because their calls have
  timeouts, leases expire because time passes: weak fairness. `PollReserve` and
  `PollClaim` have strong fairness: other requests may hold the permits and the
  database may be away, but not for ever. The operator has none; the liveness
  properties assume that it leaves processing switched on from some moment on.
* Breaker: maintenance and pollers call for ever, a call that began runs to its
  end, time passes. The database may come and go as it likes; the property
  assumes that it is back for good.
* Pending writes: requests and flush tasks run, the MCP client keeps calling,
  maintenance keeps calling the database, and a poller that has claimed messages
  goes on to look at the circuit (weak). That it claims any depends on the load
  and is not assumed: `PollerClaim` has no fairness. `FlushedOnRecovery` has it as
  its premise (`[]<>claimed`); without the premise TLC finds the property false,
  since an idle `serve` process never flushes.
* Migrations: calls end, the loop sleeps and tries, outages end (weak). Asking
  has strong fairness per call: clients go on sending, and after a backoff it is
  as often one of theirs that comes first as a background task's.
* Infinite memory: runs go on, time passes, and a lease that nobody holds runs
  out.
* Sessions: sweeps run, hours pass, placeholders age. Nothing is assumed of
  clients.
* Retrieval: a request that runs goes on (weak); contexts are asked for again
  and again however many other requests there are (strong).

### Finding

`MigrationsDeferred`: "Deferred migrations will run on first successful
connection via recovery hook" (`pg_storage/mod.rs:86`). The hook runs only when
the circuit was not closed; if fewer than three calls failed before the database
came back, it never opened, and the migrations never run.

### Known divergences, seen while modelling

The models have them; the properties allow for them, and no run is spent on
them.

* `source/README.md:31` names "DLQ + visibility timeout" as crash recovery; a row taken over
  for its last attempt is not claimable (`pending.rs:58`) and is released only
  when some server starts. `OrphanWithRetriesRecovers` asks for the others only.
* `circuit_breaker.rs:59` says when a probe may be made; `record_failure` makes
  OPEN visible before it writes the anchor (line 150), so that a call in between
  measures from an older anchor and probes at once.
* `circuit_breaker.rs:9` describes one probe that decides; the MCP handlers ask
  `should_allow` themselves (`mcp/handlers/mod.rs:70`) and use the probe up
  before the query. A failure of theirs is recorded twice.
* The repository's own `README.md:383` says "automatically recovers on reconnect"; a background
  task that is the probe and fails otherwise (`knowledge_service.rs:175`), or a
  dropped request, leaves the circuit half-open for ever. The second and third
  disjuncts of `RecoversOrProbesFail` are these two cases.
* `pending_write_queue.rs:4` says the queue is flushed on recovery; `serve`
  flushes only when its poller has claimed messages (`queue_processor.rs:170`),
  and the MCP server misses recoveries that happen between two of its requests
  (`dispatch.rs:89`). `FlushedOnRecovery` holds under load: messages are claimed
  again and again.
* `release_infinite_events` charges a retry for a failed attempt, but its own
  error is ignored (`pipeline.rs:131`), and a run that ends or crashes after it
  asked the LLM charges nothing. `TriesBounded` grants one call more for each.
* A use is counted by a task after the answer; the sweep may archive the row in
  between. `UsedStays` excepts exactly the uses that are such a task still.
* `injection.rs:39` caps the injected ids at the "most recent"; the query has no
  order. A check that meets more ids than the cap is excused in `EchoesStopped`.
* Beyond `MAX_QUERY_LIMIT` entries of knowledge, those of least confidence are
  never listed, whatever `context.rs:95` says of rotation.
* A timeline whose anchor was moved or deleted after it was read drops the
  nearest newer row.
* An observation summary of a session that fails for an unreadable list becomes
  the text of the error, and no later sweep replaces it; `SessionsSettle` counts
  it as settled.
* A merge revives archived knowledge with its old age: the next sweep archives it
  again.

## 4. What is proved

All for any servers, permits, messages, limits, callers, thresholds, capacities,
runs, sessions, saves, sweeps and faults, under the `ASSUME`s of the modules,
which TLC evaluates in the runs: a permit belongs to a server; limits are
positive; kinds of callers are subsets; ids are distinct; a title is the same as
itself; `None` and `NoWrite` are no id, row or write; the similarity of two vectors is
symmetric; the rows at the start are finitely many; an order of knowledge gives each
entry a place of its own; scores are natural numbers, and a query has a keyword. `theorems` in
`PROJECT.json` lists the results; in each module an `IInv` (or a part of the
module with an invariant of its own) is inductive and the theorems follow.

* `PendingQueueProofs`, in three parts.
  - The budget. What one step may do to a row is one predicate, `RowMove`, and
    lemma `RowStep` shows that every action does only that. `BudgetInv` (types;
    ids beyond the sequence are new; the three budget conditions of
    `RetryBudgetAgrees`; a waiting row was handed out as often as its retry count
    says) is inductive. `RetryBudgetAgrees` alone is nearly so;
    `AttemptsBounded` needs `AttemptsCharged`, which ties the claims counted in
    the history to the retries charged in the row.
  - The tasks. `NoOverlapBeforeTimeout` is not inductive: that a held row cannot
    be claimed follows only from `TaskHoldsRow` (a task's row is in processing
    with a live lease, or was overdue at some time), which is proved together
    with it in `TaskInv`.
  - The refinement. Every step of the queue is a step of `WorkQueue` or a stutter
    under the mapping `Seen`; the initial states map to its initial states.
* `CircuitBreakerProofs`. `TypeOK` needs `LoadedBackoff` (a probe about to store
  the double holds a backoff that is at least the minimum). `HalfOpenHasProbe`
  is inductive with it: only `Exchange` enters the half-open state, and the
  probe stops answering for it only in the step that leaves it. The threshold
  (`OpensOnThreshold`, for guarded calls of any finite number) follows from
  `CountCovered`: the failure count and the failures about to be counted never
  exceed the failed queries in the history.
* `DegradedWritesProofs`. `OneFlush` is inductive once the flag is part of it:
  one task at most is not gone, and the flag is set exactly while one is not. A
  flush starts only with the flag clear (`StartsOne`), a task keeps it on the way
  (`GoesOn`) and clears it when it ends or panics (`Ends`). `KeptInOrder` rests
  on it, and on `OnceEach`: no write is buffered twice, nor both buffered and in
  a request's hand. Only so does taking the settled write out of the history
  leave the others where they are in the buffer; the lemmas on sequences without
  repetitions say this for a head, for a tail and for the oldest that a full
  buffer drops.
* `InfiniteMemoryProofs`, in four parts.
  - The leases. `IInv` adds to `Exclusive` and `CountedOnce` what they rest on:
    `BatchesHeld` (a row in a run's hands is leased, has no parent and a try left,
    unless its lease was overrun) and `CoveredLinked` (a row that a summary covers
    has a parent). That no row is claimed twice is then a matter
    of the lease, and that no claimed row is covered already of the missing
    parent. One lemma per action; the failed queries and lost answers are actions
    like the others.
  - The calls of the LLM. `TriesBounded` is not inductive: it must count the calls
    about to be made, too. `CallsInv` says of each row that the calls made, and one
    more for each run that holds the row (`Asked`), are no more than the retries charged
    to it and the lapses, but for one call that is not yet charged or never will be
    (`Uncounted`: the row has its summary, or its lease and a holder); and no more
    than `RetryLimit` and the lapses. A claim finds retries left and nothing
    uncounted; every other step that hands a row back charges it, links it, did not ask,
    or is a lapse (`CallsKept`).
  - The counts. `CountsAgree` compares the stored count of a summary with what a
    drill-down finds. `CountInv` adds that levels rise by one from a row to its
    parent (`Levelled`), that a row's parent was made from it and, but for
    overruns, is so still (`Parented`), and that a count is the sum of the counts
    it was made from (`CountsSum`). That the sum is also the number of events
    below needs the children to be disjoint (`CountedOnce`) and is shown level by
    level. The sum is a fold over a finite set. Its laws (it takes one element
    after the other, in any order; the cardinality of a union of disjoint parts
    is the sum of theirs) are proved without an induction rule: a set for which a
    law failed would have a smallest such subset (`SmallestSubset`, from the
    library's theorems on well-founded relations), and that one has an element to
    take away.
  - The refinement. Under the mapping every step of a run is one `Summarize` (the
    transaction, its answer lost or not) or a stutter; an event is an `Arrive`, and a
    lease that runs out under a run a `Loosen`. A window is all of one level
    (`Levelled`), one session and one span of time, and has a first row
    (`BucketAlike`); that no item of it is in another summary unless it is loose is
    `BatchesHeld` with `CoveredLinked` (`HeldUndigested`), and that an item in a
    summary is never loosened is `CoveredLinked` again: it has a parent, and its
    lease is not asked for.
* `SessionSummaries`, in `KnowledgeProofs`. A placeholder is owned (`Owned`, while nothing has
  failed), and a sweep at work on a session that has its text by now is
  overtaken (`AllOvertaken`). What a sweep may do to its own session is
  `SweepMoves`, what everyone else may do `OtherMoves`. A claim makes its sweep an
  owner whoever else has claimed the session, and an owner leaves the session
  only by the statement that replaces or deletes the placeholder; after a failed
  query or a crash nothing is claimed of placeholders, but `AllOvertaken` stays.
* `ObservationsProofs`. Every statement on the table but two is a `RowsGrow`:
  rows and facts stay, and the row written takes what the task brings. The two
  are the sweep's merge, where the row kept takes the facts of the row deleted by
  the same transaction, and the client's deletion, which the history names; so
  no other fact leaves (`FactsKept`). `SavedIsStored` needs
  `Safe`: a task past its write has left its fact somewhere, though its row
  may be merged into another, purged or deleted before it answers.
  `SourcesExist` needs `Found`: the row that a task is about to name in
  knowledge was there at its last look, or is among those that went meanwhile.
  `VectorsCurrent` is its own strengthening once stated as `Old \subseteq Read`.
* `Migrations`, in `CircuitBreakerProofs`. `FlagIsLock` is the reason for `OneAttempt`: at most one
  task runs the migrations, and none while the flag is set. `NeverForgotten` is
  inductive with it: whoever clears the flag is an attempt, and the only attempt
  that ends without setting it again has applied them or panicked in
  `PgStorage`. `MigrationsTyped` splits the types into `Truths` and `Domains`.
* `KnowledgeProofs`. `RowMove` lists what a step may do to a row. Confidence: each
  move is `Gentle` (it loses no more than the weeks `updated_at` moves over and
  gains no more than the uses it counts), and a gentle change keeps a row
  `Sound`. Three action properties rest on `LookStands`: a save about to
  insert has still no row like it, a save about to merge has still read what the
  match says. The first follows from `OneHolder` (the advisory lock lets nobody
  else insert or merge; what others may do revives no row), the second from the
  row lock (`LockedRowKept`). `PassArchives` needs two facts more, in `PassInv`:
  a row that nobody used, saved or linked again has lost a step for every week
  its `updated_at` moved over (`Faded`), and between the two statements of any
  sweep every live row has been decayed up to now (`UpToDate`), by that sweep or
  another. A row old enough for the archive has then faded below the limit,
  however the clock jumped. `UsedStays` is proved from `UsesKnown`: the answers whose
  use was not lost are those in the row's `usage_count` and those with a usage
  task. No statement on a row but `update_knowledge_usage_batch` changes the
  count, whatever a save read before its merge, and an insert meets no row and starts
  from no uses (`RecordKept`, `UsesKept`); the sweep archives at a count of 0,
  so what is left is with tasks. TLC checked `PassInv` and `CountInv` on the instances
  of their runs, and on larger ones, before they were proved.

* `ContextInjectionProofs`, in two parts.
  - Echoes. `EchoesStopped` compares what a check saves with what its session was
    shown. It needs `Known` (what was shown in the last 24 hours is on record as
    fresh), `ForeignKey` (what is on record is stored), `Distinct` (a check brings
    a row of its own, not yet stored) and `DueKept`: until the check has read the
    vectors, all that it must recognize is stored with its vector and, once it has
    read the ids, among them. A merge repoints the record before it deletes the row
    and a deletion takes what is due with it, so nothing is due that a check could
    not find.
  - Topics. `OnePerTopic` is about the union-find of `deduplicate_by_embedding`,
    for any number of rows. Its forest is described by the root and the distance to
    it of each node (`Forest`); `Find` walks as many steps as there are nodes, which
    reach the root because the distances fall and the roots' trees cannot be longer
    than that. A union joins two trees and no others (`UnionJoins`), so after both
    loops two rows have one root exactly if no set closed under the links tells
    them apart (`Partition`, `Merged`; `TreesAreTopics`). The best row of a tree
    exists, since noise and time order the rows totally and the tree is finite
    (`BestExists`), and it alone is shown. The loops are recursive functions over
    an interval; `LoopKeeps` proves what a loop keeps by its least counterexample,
    which does without an induction rule.
* `RetrievalProofs`. A request's record, the rows touched since it began and the
  times of the others are `Good` together, and stay so under any change of the rows,
  which adds them to the touched ones (`GoodKept`). For a timeline, `Older` and
  `Newer` say of each side as it is read what `TimelineComplete` says of both at the
  end, and `Anchored` that no untouched row but the anchor has its time, also after
  the anchor went. One side is a matter of counting (`OlderSide`, `NewerSide`): the
  query takes one row more than the side, the anchor is the first of them, and
  what the query left out has as many nearer rows as its limit. That so many rows
  are taken is `FirstOnes`, by a bijection from the rows to the numbers of rows
  ahead of them. For a search, `TextRead` keeps of the first of its two lists that
  no better row is missing. A row that all lists put above another one is then in
  every list that has the other. Normalization is strictly monotone on a list of
  unequal scores, since the least and the greatest of a finite set exist
  (`MinIsLeast`, `MaxIsGreatest`), and gives at least as much to the better row on
  any list, more than nothing to a row that is on it (`ShareOfBetter`). Brought to
  a common denominator, no list's share turns the totals round and one list puts them
  apart (`ScaledUp`, `WeighedUp`; `PlainUp` with the keywords), and a ranking puts the
  greater total first (`RankedFirst`). Scores may be any natural numbers, and their
  number is not bounded.

Only model-checked: the liveness properties (`WaitingIsServed`,
`OrphanWithRetriesRecovers`, `RecoversOrProbesFail`, `FlushedOnRecovery`,
`EveryRowSettles`, `SessionsSettle`, `MemoryMigrates`, `EveryEntryIsUsed`). Fairness
and ENABLED are out of TLAPS's reach. Every invariant and every action property
that a run checks is a theorem.

## 5. Not modelled, and the plan

Not modelled, and why:

* Routes, parsing of arguments, formatting, the CLI's hooks and import: stateless
  translation. The import checks for a title and saves, one entry after another.
* What a language model or an embedding answers, and the filters on text: their
  decision is a choice in the models. The client's retry loop is bounded and
  touches no state; its configuration is read field by field under separate
  locks, so a change in between may mix two configurations for one call.
* The tick counter of the maintenance: its jobs are enabled at any time, which is
  more than it allows.
* Search by full text alone over several kinds of rows (`unified_search`) and the
  drill-down listings of infinite memory: read-only, one query each.
* Durability of PostgreSQL, and isolation below the statement: statements and
  transactions are steps, and row locks order them.

Next, in this order:

1. `union_dedup` against a reference definition over all small inputs.
2. A composition of `DegradedWrites` with `Knowledge`, to tell whether a flushed
   save that was applied before its answer was lost is merged and not doubled.
