# ChainLens: TLA+ models, checks and proofs

ChainLens indexes an Ethereum chain into PostgreSQL and serves analytics from
it. This directory holds TLA+ models of the program, the TLC configurations
that check them on small instances, and TLAPS proofs of the main results for
every instance. `PROJECT.json` is the index: which definition stands for which
lines, what each run checks, which bug each property detects, and the hazards
the properties are aimed at.

## 1. Inventory

### Components

| Component | State | Operations | Talks to |
|---|---|---|---|
| Main loop (`main.rs`) | cursor in memory, current batch | read cursor, poll head, start batch, receive, rewind, join, shut down | all below |
| Head watcher (`pipeline/head_watcher.rs`) | none | poll `latest`/`safe`/`finalized` until it works or shutdown | node |
| Workers (`pipeline/worker.rs`) | the number being fetched | take a number under a mutex, fetch and decode, send | main, sequencer, node |
| Sequencer (`pipeline/sequencer.rs`) | reorder buffer, `expected` | insert, drain, final drain | workers, main |
| Committer (`pipeline/committer.rs`) | locals of one call | fetch block, test linkage, roll back or fetch receipts, decode, commit | node, store |
| Reorg handling (`reorg/`) | none of its own | `detect`, `find_ancestor`, `rollback` | node, store |
| Store (`store/postgres.rs`, `migrations/`) | chain tables, `indexer_state`, `reorgs` | `commit_block`, `last_indexed_block` | PostgreSQL |
| Decoding (`decode/`) | none | pair receipts with transactions, check log indices, decode transfers | |
| Shutdown (`shutdown.rs`) | cancellation token | cancel on SIGINT/SIGTERM | main, watcher, background |
| Background processor (`intelligence/background.rs`, `persist.rs`) | queue of 100, derived tables | analyse a committed block, write results | main, store |
| RPC client (`rpc/`) | rate limiter, probe result | call with retry, back-off and timeout | node |
| Caches (`api/cache.rs`, `intelligence/cache.rs`) | bounded maps with expiry | get, set, evict, clear | API |
| API, WebSocket (`api/`) | broadcast channel, limiter | queries, pages, subscriptions | store |
| Graph, clustering, analytics (`intelligence/`) | none | read-only queries and classification | store |
| Scheduler (`pipeline/scheduler.rs`) | none | not called by the program | |
| Configuration, connection, metrics, logging | none | start-up and output | |

### What is hard in this code

* **The node moves.** Every RPC call may see another canonical chain: the block,
  the ancestor search, the receipts and the next batch are read at different
  moments.
* **One hash decides.** `detect` and `find_ancestor` read the hash in the cursor
  row, not the stored block at the height they are looking at.
* **Failures in the middle.** A call fails, a worker gives up, an
  acknowledgement is lost, re-reading the cursor fails, the process is killed.
  main answers every error in the same way: it goes on with the next number.
* **Three bounded channels in a row**, which main fills completely before it
  receives anything, and abandons while it still owns the receiver.
* **Conflict handling.** `ON CONFLICT DO NOTHING` keeps the older row while the
  cursor moves, and cascades reach some tables only.
* **Two writers of derived data.** The background processor works through a block
  in single statements while main commits and rolls back, and the API explains
  transactions and writes the same table from another process.
* **Answers and rows of the wrong type.** The node's hashes where a block's
  transactions are expected, an `INT4` read as `i64`, text bound to `NUMERIC`: a
  call that looks like the others fails, or panics, for every input.
* **A channel main waits on.** The announcement of a block blocks while the
  processor is behind; the processor may be slow, panicked or gone.
* **Retries under a shared limiter**, and a client that pages through a table
  which changes under it.
* **`select!` with patterns.** A branch whose pattern does not match is disabled
  for the round, which decides what a lagging or broken WebSocket client sees.

### What makes each part correct

* Store and committer: the stored blocks are one linked chain without gaps up to
  the cursor, each with exactly its own transactions and logs (I1); the cursor
  moves with the data and memory agrees with it (I2).
* Reorg handling: deletes only what is orphaned; stops when it cannot decide (I5).
* Main loop: reaches the head of a chain that has settled.
* Pipeline: in order, once, without hole, without deadlock.
* Background processor: the transactions of the stored blocks are explained at
  least once, and main is never held up for good.
* RPC client: transient errors only are retried, up to the limit; the rate holds
  over all clones; every call returns.
* API: a second writer takes nothing away; pages give no row twice and miss rows
  only where they end.
* Cache: bounded, never stale. Event stream: in order, and without gap for a
  client that keeps up. One that does not is told nothing of what it misses.
* Graph and clustering: exactly what a reference definition says.

## 2. Modules

| Module | Models | Notes |
|---|---|---|
| `Chain` | the Ethereum node (external) | a tree of blocks, one branch canonical; `NodeMove` switches it |
| `Store` | the chain tables and the two transactions that write them | extends `Chain` |
| `Indexer` | `main.rs`, `committer.rs`, `detect.rs`, head watcher, shutdown, crash and restart | extends `Store` |
| `IndexedChain` | abstract: what the `blocks` table promises | implemented by `Indexer` |
| `Pipeline` | one batch: main, workers, sequencer, three channels | processes interleave freely |
| `Delivery` | abstract: what main may expect of one batch | implemented by `Pipeline`, used by `Indexer` |
| `RpcClient` | `rpc/`: clones of one client, shared limiter, retry loop, probe | discrete time; below the `EthClient` trait that `Indexer` uses |
| `Intelligence` | operators: explanation of a transaction, classifications and labels that rest on counts | no state; used by the next three |
| `AddressGraph` | `graph.rs`, `clustering.rs`: the two breadth-first searches | one queue entry a step |
| `Background` | `background.rs`, `persist.rs`, the table `transaction_actions`, and main's side of the channel | extends `Intelligence` |
| `Api` | `handlers.rs`, `routes.rs`: endpoints next to the indexer | extends `Background` |
| `Cache` | `api/cache.rs`, `intelligence/cache.rs` | one action per locked operation |
| `WebSocket` | `api/websocket.rs` | one select loop per client |
| `Services` | `Cache` and `WebSocket` in one process | they share nothing |
| `MCIndexer`, `MCBackground`, `MCApi`, `MCAnalytics`, `MCServices`, `MCData` | constants for TLC | |
| `IndexerProofs`, `PipelineProofs`, `RpcProofs`, `BackgroundProofs`, `ApiProofs`, `AnalyticsProofs`, `SearchProofs`, `ServicesProofs` | theorems | `ApiProofs` builds on `BackgroundProofs`, `SearchProofs` on `AnalyticsProofs` |

### How `Indexer` corresponds to the code

The main task is sequential; `pc` says where it is. Each await that reads or
writes something others can change ends an action:

| `pc` | code |
|---|---|
| `boot` | before `last_indexed_block` in `main` |
| `loop` | top of the loop |
| `watch`, `safe`, `finalized` | the three calls of `fetch_head` |
| `recv` | `seq_rx.recv()` |
| `fetch`, `detect`, `ancestor`, `rollback`, `receipts`, `commit` | the calls of `commit_block` in order; `ancestor` is one iteration of `find_ancestor` |
| `rewind` | main after `Ok(true)` |
| `failed`, `ambiguous` | main in the `Err` branch; `ambiguous` is `ReorgError::DepthExceeded` |
| `hung` | main awaits tasks that cannot end |
| `closing`, `down` | after the loop; no process |

A database transaction is one action because PostgreSQL makes it one: nobody
else writes these tables. A crash may come before or after it (`Crash`), and its
acknowledgement may be lost (`LoseAck`).

Heads and ancestors are asked for with `full_transactions = false`. The node then
lists hashes, and `BlockResponse` (`rpc/types.rs:104`) wants objects: for a block
with a transaction the call fails, always (`Readable`). The watcher asks again
until latest, safe and finalized block are empty all at once (`WatchHead`,
`WatchSafe`, `WatchFinalized`, `WatchFails`), and the ancestor search ends in an
error at the first block with a transaction (`FindAncestor`). The distances of
the safe and the finalized block are the constants `SafeLag` and `FinalizedLag`. So
the instances put empty blocks where a head is to be read. Everything behind
that call, and the calls of the workers and the committer, which ask for whole
transactions, is not affected.

The batch is represented by its contract: the numbers `batchNext..batchLast`
arrive in order, and the channel closes early only in front of a number whose
worker may fail. `Pipeline` implements that contract (`RefinesDelivery`), so the
interleavings of the workers need not be repeated inside `Indexer`. `Break` is
the contract's `Leave` and `Join` in one step: how many numbers are still
released decides whether the join ends.

Data are reduced to what the properties distinguish. A block is its hash; its
transactions, the number of logs of each and the number of transfers a log
decodes to are constants. A log row keeps its key and the block it was emitted
in (`origin`). All other columns are left out.

`Faults` selects the disturbances of a run: `rpc`, `worker`, `db`, `ack`,
`reread`, `signal`, `crash`.

### How `Pipeline` corresponds to the code

One process per worker, one for the sequencer, one for main; `fetchQ`, `workQ`
and `seqQ` are the `mpsc` channels, closed when their senders are gone. A worker
waiting under the receiver's mutex is `idle`: who holds the mutex makes no
difference to which numbers are taken. The sequencer's `draining` and `final`
are the two calls of `drain_buffer`. Numbers are relative to the first of the
batch.

### How `RpcClient` corresponds to the code

Each holder of a clone has a program counter: `limited` is `rate_limit.wait()`,
`sent` the POST under way, `sleeping` the back-off, `returned` the end of `call`.
A tick of the clock is the limiter's interval, so the limiter regains one cell
per tick up to its burst. `Responses` is everything `reqwest` and the node may
come back with, `ExecuteOnce` how `execute_once` classifies it. The payload is
its shape only: a block lists transactions or hashes, and what does not exist is
`null`. `HttpRpcClient::new` probes before anybody else calls (`phase`).

### How `Background` and `Api` correspond to the code

`proc` is the statement `process_block` comes to next, and `Commit` and `Rollback` of
main come between any two. The queries of one analysis function are one step,
since they only read. `Explain` picks the next transaction; SQL leaves the order
open and no property depends on it. Main is reduced to commits of linking blocks
and rollbacks to any height: `Indexer` shows when it does which. `lost` remembers
the heights whose explanation was cut short, to state `ExplainedUnlessDropped`
exactly. `Refused` is a statement that fails for a reason of its own, `Close("dead")`
the panic of a task, `Crash` the death of the process.

Only the first loop of `process_block` writes anything (see section 3,
Disagreements): `analyze_address` and `detect_anomalies` fail on every call,
what `analyze_contract` computes is refused when it is inserted, and
`analyze_block` panics for every stored block. These are the steps
`AnalyzeAddresses`, `AnalyzeContracts`, `DetectAnomalies` and `AnalyzeBlock`. A
processor in the model is therefore dead after its first block unless that was
rolled back meanwhile, a statement failed or the process restarted, and the
properties say what holds all the same.

`transaction_actions` has a sequence as key, so it is a bag: its
`ON CONFLICT DO NOTHING` never applies. Its rows go with their transaction
(`ON DELETE CASCADE`), and a row for a transaction that is gone is refused by the
foreign key and the error dropped (`ActionsWith`).

Main's way out is split where the code can wait: `LeaveLoop` ends the loop,
either at once or with the joins of `main.rs:214-215` ahead (`joining`), `EndJoins` is
their end, which nothing guarantees, `Stop` and `Exit` are what follows.

`Api` adds one request at a time: `ExplainRequest` reads and computes, `WriteActions`
inserts in a statement of its own. The inserts of the other endpoints are refused
like the processor's, so they are answers only, among them a panic for each
block that is read (`get_block`) and for each trend that is not empty. A client
reads a history page by page, with the limits in `PageLimits`, which the handler
cuts to `MaxPage` (500). It goes on until a page is empty. These two kinds of
requests touch different tables and are not mixed in one behaviour.

### How `WebSocket` corresponds to the code

`loop` is what `handle_socket` waits for: `both` branches of the `select!`, the
`socket` or the `channel` alone after the other branch did not match, or `sending`,
the end of a `socket.send(..).await`. `Receive` takes an event from the channel into
`out`, `Write` ends the write; while it lasts neither branch is polled, and events
pile up behind the loop until `Lag`. A client may stop reading (`stalled`) and hold
the loop in the write for as long as its connection is up. After `Lag` the loop
listens to the socket only, until the client says something. Events the channel
has dropped are not mentioned to anybody.

### How `Intelligence` and `AddressGraph` correspond to the code

A chain is a sequence of blocks with their transactions and transfers; each rule
is a set comprehension for its query and the Rust code after it. Calldata is its
selector and length, and what a branch of `explain_transaction` slices from it
is a range of bytes. The thresholds are the fields of `Limits`, so an instance
can scale them down. Only rules on counts are modelled, which are integers in
the code; sums of wei and averages go through `f64` (section 5). `Classifications`
are the rules of `analyze_address` as they are written; the function fails before
it returns them.

`AddressGraph` keeps the queue, the visited set and the results of a search. A
query with `ORDER BY count DESC LIMIT k` may return rows of equal count in any
order (`Results`), and the search must be right for all of them. The graph's
transaction queries have `FanOut` rows (20), the clustering queries `ClusterFanOut`
(10).

## 3. Runs

### Passing

| Run | Checks | Instance |
|---|---|---|
| `IndexerSafety` | `TypeOK`, `StoredChainLinked`, `CursorAtTip`, `RowsComplete`, `LogsOfStoredBlock`, `MemoryAgrees`, `RefinesIndexedChain` | heights 0..5, fork after 1, batches of 2, depth 1; faults rpc, worker, db, signal, crash; 35100 states |
| `IndexerPerTx` | `RowsComplete` | receipts one by one, heights 0..6, start at 1, fork after 2, batches of 4, depth 2; faults rpc, worker, db, crash; 103700 states |
| `IndexerLostOutcomes` | `RowsComplete` | one branch of heights 0..5 that grows and shrinks; faults ack, reread, worker, crash; 23508 states |
| `IndexerCatchUp` | `CaughtUp` | heights 0..6, a transaction in every other block, batches of 2, depth 4, no fault, chain only grows; 488 states |
| `PipelineBatch` | `TypeOK`, `InOrder`, `OnePlace`, `RefinesDelivery`, `Completes`, `JoinsWhenRestFits` | 3 workers, channels of 2, batch of 4, number 2 may fail, main may break off |
| `RpcClient` | `RetryDiscipline`, `RateCapped`, `ProbeSound`, `EveryCallReturns` | two clones, one retry, one request per tick, three calls after the probe; 129636 states |
| `Analytics` | `GraphExact`, `ClusterExact`, `LabelsAgree` | all databases of up to three transactions over seven pairs of addresses, and chosen ones of four; depths 1 to 3, room for 2 or 4 nodes; 90460 states |
| `Background` | `ExplainedUnlessDropped`, `MainGoesOn`, `ShutdownEnds` | channel of one, four commits over three competing first blocks that share a transaction, one of which makes the task panic, two rollbacks, two faults; 58728 states |
| `Api` | `PagesOnce`, `GapsOnlyAtPageEnds` | the same blocks, three commits, one rollback, one fault; two requests, or a walk with pages of one row or of three cut to two; 835053 states |
| `Services` | `SizeBounded`, `RecentKeysKept`, `NeverStale`, `EventsInOrder`, `EventsReachClients`, `BrokenLoopsEnd` | three entries for four keys, two instants; a channel of two events, two clients, three events; 79463 states |

`IndexerSafety` and `IndexerPerTx` include everything that can go wrong except
the losses of `IndexerLostOutcomes`, which break linkage: when main does not
learn that a block was committed, it goes on from an older cursor, and
`insert_block` keeps rows that no longer belong together. What survives even
then, on a branch without fork, is `RowsComplete`: the tables never hold a
partial block. (With a fork and a lost acknowledgement it does not survive.)
`RowsComplete` looks at blocks, transactions, logs and transfers. Of the transfers
of one log it asks for one only, and it does not look at `address_transactions`;
see Disagreements for both.

`LogsOfStoredBlock` holds in `IndexerSafety` because no two blocks of that tree
carry the same transactions; the hash check of `decode_transactions` then
rejects foreign receipts.

`CaughtUp` is about branches whose latest, safe and finalized block are empty
(`HeadReadable`), the only heads the indexer ever sees. It holds in
`IndexerCatchUp` in spite of the overlap of batches, because the ancestor search
ends in an error at the first block with a transaction: the repeated block
fails, and the next one links. Where the blocks below the cursor are empty this
is different, see below.

`ExplainedUnlessDropped` is at-least-once: the processor may have explained a block
that was rolled back, and explains its successor again because main announces
every commit after it. `SelectHashes` may run before a rollback and `Explain` or the
write after it, with another block under the number that shares some of the
transactions; what the processor leaves out then is on its way in the channel.

`ShutdownEnds` begins behind the joins of main. That main gets there is not claimed:
`Pipeline!JoinsAlways` is false, and `JoinsWhenRestFits` says when the joins end.

`GapsOnlyAtPageEnds` is about a client that goes on to an empty page.

`RecentKeysKept` has `MaxEntries - 1` and not `MaxEntries`: `set` evicts before it
inserts, also when it overwrites, so a full map shrinks by one. Recent means put
last: reading an entry does not keep it.

### Disagreements between code and documentation

Two runs check a statement of the documentation and TLC refutes it. The quotes
are in `PROJECT.json`.

| Run | Property | What the code does |
|---|---|---|
| `SpuriousReorg` | `StoredBlocksKept` | a batch starts at the stored tip, which does not link to itself: stored blocks are deleted although the chain only grew |
| `RealReorg` | `CaughtUp` | the abandoned branch stays stored, the new head is not reached |

Both instances put empty blocks wherever the counterexample polls a head or walks
ancestors, so that neither rests on the unreadable blocks.

More statements of the documentation are defined as properties of the modules
without a run of their own. Naming one of them in a cfg gives a counterexample:

| Property | Statement | What the code does |
|---|---|---|
| `Indexer!FailStop` | `docs/ARCHITECTURE.md:71` "halts loudly rather than guessing" | an undecidable reorganisation is logged and skipped |
| `Indexer!AddressRowsBacked` | `notes/SPEC.md:570` "no orphaned `address_transactions` rows remain" | the table has no foreign key and keeps rows of orphaned blocks |
| `Indexer!NoSilentStall` (in `IndexerCatchUp.cfg`) | `notes/SPEC.md:681` "No silent stalls" | at a head with a transaction the watcher asks for ever; with an `Undecodable` block every batch ends at the same place |
| `Indexer!LogsOfStoredBlock` (with `TxsOf <- MCTxsSame`) | `docs/ARCHITECTURE.md:55` | receipts are fetched by number and `block_hash` is not compared |
| `Pipeline!JoinsAlways` | `notes/SPEC.md:678` "Ctrl-C drains in-flight work" | breaking off with more blocks left than the channel holds never ends |
| `RpcClient!AnswersDelivered` | `notes/SPEC.md:433` | with `full_transactions = false` the node answers hashes where `BlockResponse` expects objects: a permanent error |
| `Background!EveryBlockAnalysed` | `README.md:26` "computed incrementally as blocks are indexed" | `analyze_block` panics at the first stored block (`mev.rs:63`), and blocks announced after a panic, a crash or a shutdown are not analysed later |
| `Background!IdempotentWrites` | `README.md:112` "idempotent writes, no sequences" | `transaction_actions` is keyed by a sequence and repeats the rows of a transaction explained twice |
| `Api!NoSkippedRows` | `notes/SPEC.md:713` "no duplicated or skipped rows" | the cursor is the block number alone: the rows of a block that did not fit the page are skipped |
| `Api!ShortPageIsLast` | the same, for a client that stops at a page shorter than it asked for | the handler cuts the limit to 500 (`handlers.rs:119`) without saying so: the short page is not the last |

Read off the code, without a property of its own:

| Statement | What the code does |
|---|---|
| `notes/SPEC.md:433` heads by tag | `get_block_number` (`http.rs:222-226`) and `find_ancestor` (`detect.rs:44`) ask for hashes and expect objects (`types.rs:104`): a permanent error for every block with a transaction. On a chain in use the indexer starts no batch. `Readable` models it. |
| `README.md:113`, `README.md:217` "reorgs clean up automatically" | not put to the test: apart from `transaction_actions`, whose rows cascade, no insert of `persist.rs` succeeds. Text is bound to `NUMERIC` and `TIMESTAMPTZ` columns without a cast (block analytics, anomalies, MEV events, profiles, statistics, relationships), and the error is dropped. |
| `README.md:26` analytics per block | `analyze_block` reads `tx_count`, an `INT4`, as `i64` (`mev.rs:63`) and panics for every stored block; `analyze_address` compares `BYTEA` with `LIKE` (`address.rs:115-119`) and `detect_anomalies` text with `NUMERIC` (`anomaly.rs:75-79`), and both always fail |
| `README.md:190` "LRU cache with TTL" | both caches evict the entry inserted first; `get` refreshes nothing, so an entry that is read all the time goes before one that was never read |
| `notes/SPEC.md:716` a 4xx for bad input, never a panic | the intelligence endpoints answer 500; `get_block` panics for every stored block, `trends.rs` reads a `DATE` as a string (64, 101, 131, 159) and panics for every trend that is not empty |
| `notes/SPEC.md:718` the API is read-only | several of its `GET`s try to write, and `explain` succeeds |

Also: `/status` computes its lag from `finalized`, which nothing sets; the export
joins `transaction_actions` and repeats a transaction per action;
`explain_transaction` panics on `transferFrom` calldata of 100 to 111 bytes, which
ends the background task until the next start; a `null` result arrives as a
permanent deserialisation error; a WebSocket client that was overtaken gets no
word of it, and no further event until it speaks.

The models show more consequences of the same causes. Other constants reproduce
the first three:

* `CaughtUp` in `IndexerCatchUp.cfg` with `TxsOf <- MCTxsNone`, so that ancestors can
  be read: every batch rolls back to genesis, and the indexer goes round for
  ever. With `MaxReorgDepth = 8`, `FetchQueueDepth = 2`, `Top = 8` as well, main hangs in
  the join. Both have a depth beyond the batch, like the defaults (128 and 32).
* `CaughtUp` with `BackfillFrom = 2`: an empty cursor never links to a block
  above height 1, so an index that starts there does not come off the ground.
* `StoredChainLinked` with `ForkAt = 0`: `detect` accepts any block at height 1
  and `insert_block` keeps the old row, so block 2 is stored over a block that
  is not its parent.
* After a rollback to a height above 0 the cursor's hash is 32 zero bytes, what
  `check_invariants.sql` reports as `cursor_hash_mismatch`.
* A failed commit of block 0 is followed by that of block 1, and 0 is never
  fetched again.
* Of the transfers of an ERC-1155 batch only the first is stored, since all
  share the key `(block_number, log_index)`.

### Bounds and why they are enough

* `Top`, `ForkAt`, `MinHead` (`MCIndexer`): the tree has one fork. Six or seven heights
  allow two batches that overlap, a fork below, at and above the cursor, and a
  branch with one block more than the ancestor search can walk. The node takes
  any prefix of either branch at any moment, in any order.
* `MaxReorgDepth` is 1, 2 or 4: the search succeeds at once, after a step, at
  genesis, not at all, and fails at a block it cannot read.
* `SafeLag`, `FinalizedLag`: the safe and the finalized block are other blocks than
  the latest where the chain is long enough, and genesis where it is not.
* `FetchQueueDepth` is 1 or 2, so that batches have 2 or 4 blocks and a break
  may leave as many blocks as the channel holds, or more.
* Transactions: one alone, two in one block, and both moved apart by the fork,
  so that a transaction changes block and position; the blocks around them are
  empty, so that there are heads the watcher can read. Creations (no recipient),
  transactions without logs and logs without transfers occur.
* `reorgs` keeps only the newest audit row; no code reads the table.
* `Pipeline` is bounded by the batch. Two workers suffice for overtaking, three
  fill the queue to the sequencer while one still fetches.
* `RpcClient`: `MaxCalls = 3` lets both clones retry at once, and one call again while
  the other still waits; `Rate = 1` makes every send wait for the limiter. The
  limiter has no queue: whoever asks first after a cell is free takes it, so a
  caller could be overtaken for ever by others that never stop calling.
  `EveryCallReturns` holds because the calls are bounded; it says that no retry,
  back-off or limit holds up a call by itself. `sent` and `ticks` saturate at
  `MaxTicks`, beyond which `RateCapped` says nothing; the theorem holds for every
  `MaxTicks` and `MaxCalls`.
* `Background`, `Api`: the rollbacks replace a block under a number that is queued,
  being explained, or done. A channel of one is full at the second block. One or
  two faults show each kind at each place. In `Api` two blocks of the history
  have one row and two, so that pages end within a block, between two, and
  where the handler cut the limit.
* `Analytics`: the thresholds are scaled to 1..4 in the order and proportion of the
  code's (`MCData`); `LabelsAgree` depends on that proportion (100 transfers of
  both directions against 50 of one). No address has more counterparties than the
  queries return, which `GraphExact` and `ClusterExact` need; what holds without it is
  proved below.
* `Services`: four keys for three places force an eviction and an overwrite in
  one behaviour. In a channel of two events two wait together, also while the
  loop writes one, and the third overtakes a client that got none.

No constraint or symmetry is used; state spaces are explored completely. The
deadlock check is off where the system ends or its bounded inputs run out.

### Fairness

* `Indexer!FairSpec`: weak fairness of `Step`, the actions of the process itself.
  tokio runs a ready task, and every call ends, with a timeout in
  `HttpRpcConfig` and a pool timeout in the database. Nothing is assumed of the
  node, of faults, of the operator or of restarts. That the announcement of a
  block does not wait for ever is `MainGoesOn` of `Background`, that every RPC call
  ends is `EveryCallReturns` of `RpcClient`.
* `Pipeline!FairSpec`: weak fairness of main, of the sequencer and of each worker.
  Channels and the tokio mutex are first-in first-out.
* `Background!FairSpec`: weak fairness of the processor and of main's waiting steps
  (announce, stop, exit). New blocks, rollbacks, signals, faults, and the end of
  main's joins need not come. Statements end because the pool has a timeout.
* `RpcClient!FairSpec`: the clock runs and each clone's next step is taken. A node
  that never answers is the `timeout` response of `reqwest`.
* `WebSocket!WsFairness`: a loop notices a broken stream and a failed write, and its
  write ends if the client reads. An event or a lag has its turn although the
  client may talk without pause (strong fairness): `select!` starts with a branch
  chosen at random. Clients need not say anything.

## 4. Proofs

TLAPS proves, for every block tree, every configuration, every subset of
`FaultKinds`, every number of workers, clones, clients and keys and every capacity:

| Theorem | States | Conditions |
|---|---|---|
| `IndexerProofs!TypeCorrect` | `Spec => []TypeOK` | none |
| `IndexerProofs!StoredChainStaysLinked` | `Spec => []StoredChainLinked` | `StableBase`, `OutcomesKnown` |
| `IndexerProofs!CursorStaysAtTip` | `Spec => []CursorAtTip` | same |
| `IndexerProofs!MemoryStaysInAgreement` | `Spec => []MemoryAgrees` | same |
| `IndexerProofs!BlocksImplementIndexedChain` | `Spec => RefinesIndexedChain` | same |
| `IndexerProofs!TransactionsOfStoredBlocks` | `Spec => []TransactionsExact` | same |
| `IndexerProofs!RowsStayComplete` | `Spec => []RowsComplete` | same and `ReceiptsTellBlocks` |
| `IndexerProofs!LogsStayWithTheirBlock` | `Spec => []LogsOfStoredBlock` | same and `ReceiptsTellBlocks` |
| `IndexerProofs!LogsStayConsistent` | `Spec => []LogsConsistent` | `StableBase`, `OutcomesKnown` |
| `PipelineProofs!TypeCorrect` | `Spec => []TypeOK` | none |
| `PipelineProofs!DeliveredInOrder` | `Spec => []InOrder` | none |
| `PipelineProofs!NumbersInOnePlace` | `Spec => []OnePlace` | none |
| `PipelineProofs!PipelineImplementsDelivery` | `Spec => RefinesDelivery` | none |
| `RpcProofs!TypeCorrect` | `Spec => []TypeOK` | none |
| `RpcProofs!RetriesDisciplined` | `Spec => []RetryDiscipline` | none |
| `RpcProofs!RateStaysCapped` | `Spec => []RateCapped` | none |
| `RpcProofs!ProbeStaysSound` | `Spec => []ProbeSound` | none |
| `BackgroundProofs!TypeCorrect` | `Spec => []TypeOK` | none |
| `BackgroundProofs!RestLeavesExplained` | `Spec => []ExplainedUnlessDropped` | none |
| `ApiProofs!ExplainedWithTwoWriters` | `ApiSpec => []ExplainedUnlessDropped` | none |
| `ApiProofs!PagesNeverRepeat` | `ApiSpec => []PagesOnce` | none |
| `ApiProofs!GapsAreAtPageEnds` | `ApiSpec => []GapsOnlyAtPageEnds` | none |
| `AnalyticsProofs!LabelsStayInAgreement` | `Spec => []LabelsAgree` | none |
| `SearchProofs!SearchesAreSound` | `Spec => []SearchSound` | none |
| `SearchProofs!GraphsAreExact` | `Spec => [](GraphRowsFit(chain) => GraphExact)` | in the statement |
| `SearchProofs!ClustersAreExact` | `Spec => [](ClusterRowsFit(chain) => ClusterExact)` | in the statement |
| `ServicesProofs!CacheNeverStale` | `Spec => []NeverStale` | none |
| `ServicesProofs!CacheBounded` | `Spec => []SizeBounded` | none |
| `ServicesProofs!RecentKeysStay` | `Spec => []RecentKeysKept` | none |
| `ServicesProofs!StreamInOrder` | `Spec => []EventsInOrder` | none |

The conditions of `Indexer` are on the environment, are stated there and assumed
by name in the theorems:

* `StableBase`: the node never replaces blocks 0 and 1; without it the fork at
  height 1 above is a counterexample.
* `OutcomesKnown`: no acknowledgement is lost and no re-read of the cursor fails.
* `ReceiptsTellBlocks`: receipts come from `eth_getBlockReceipts`, and two blocks of
  one height with the same transactions are the same, or empty. Receipts are
  fetched by number and only their transaction hashes are compared, so for twins
  that differ in their logs only both properties fail (`MCTxsSame` above).
  Receipts fetched one by one are of the branch the node is on at that moment,
  where the transaction may sit in another block; `IndexerPerTx` checks
  `RowsComplete` for that mode. `TransactionsOfStoredBlocks` and `LogsStayConsistent`
  hold in every mode: the transactions are the stored blocks' own, and what is
  stored of logs and transfers fits them.

The constants satisfy the named assumptions of the modules, which TLC evaluates
on every run:

* `ChainAssumption`, `BlockData`, `OnceOnABranch` (`Chain`): a tree of blocks with lists
  of transactions; no transaction is executed twice on a branch, since its nonce
  is used up. On different branches it may be anywhere.
* `IndexerAssumption`, `PipelineAssumption`: a queue depth of at least 1, since
  `mpsc::channel(0)` panics.
* `RpcConfig`: a rate of at least 1 (`NonZeroU32`); everything else is arbitrary.
* `BackgroundConfig`, `HashesIdentify`, `OnceOnABranch` (`Background`): as for `Chain`; a
  hash stands for one transaction, and the channel has room for at least one height.
* `ApiConfig`: the client asks for at least one row, and the handler's cap is at
  least one.
* `FiniteDatabases`, `SearchLimits` (`AddressGraph`): the tables are finite, with
  transactions and transfers between addresses; a cluster needs at least one
  transaction.
* `LimitsAreNumbers` (`Intelligence`), `LabelLimits` (`AddressGraph`): the label for token
  trading needs at least twice the transfers of the classification (100 against
  50), the one for contracts no fewer contracts (20 against 10).
* `CacheConfig`, `WsConfig`: times to live and bounds are numbers, also zero; a
  channel holds at least one event.

**The argument for `Indexer`.** The safety properties are not inductive: whether
a commit keeps the chain linked depends on what the committer found several
steps earlier, while the node kept moving. `IndInv` adds

* `Progress`: what main knows at each `pc`. The cursor is not above the block
  being committed; once the linkage test has passed, the cursor's hash is the
  parent of `block` until the commit (nobody else writes the cursor); a rollback
  goes to height 0 or to the cursor's own height;
* `Provenance`: every stored block was canonical once. With `StableBase` this
  fixes the blocks at the heights `detect` does not check.

`RollbackDropsAllOrNothing` is a consequence worth knowing: under these
conditions a rollback either deletes everything above genesis or nothing,
because `find_ancestor` can only match the cursor's own block or stop at 0.

**The argument for the rows.** `RowsComplete` and `LogsOfStoredBlock` follow from a
stronger statement: the tables are functions of `blocks`. `TransactionsExact`,
`LogsExact` and `TransfersExact` say that each table is the union of what its blocks
contain. For this to be inductive, `ON CONFLICT DO NOTHING` must never find an
older row in the way. The stored blocks lie on one branch (`BranchesAgreeBelow`:
branches that share a block share everything below it, by the least-number
principle), and on a branch no transaction repeats; a rollback cascades to
exactly the rows of the blocks it deletes. `ReceiptsOK` keeps in mind that the
receipts at hand are those of some block of that height, and `DecodedReceipts`
that those which pass the decoder are the block's own. Log indices are prefix
sums, which leaves no gap (`PrefixesHaveNoGap`).

`LogsConsistent` is what remains of this when the receipts may come from another
branch: logs are stored under stored blocks only and were emitted by their
transactions, the indices of a block leave no gap, and no transfer is without
its log. The tables are then no function of `blocks`; `AllFrom` says instead that
for each stored block there is one list of receipts, which the node served and
which passed the decoder's comparison (`Fits`), such that the block's logs and
transfers are those of this list. A block committed twice could mix two lists,
because the second insert skips the rows that are there; under the two
conditions that happens at heights 0 and 1 only, where receipts cannot be
anybody else's (`BaseReceipts`).

**The argument for `Pipeline`.** `InOrder` is inductive with the types alone.
The refinement needs to know that an ended sequencer stands behind the last
number or in front of a failed one. `Accounted` says where each number not yet
released is (to be sent, queued, with a worker, buffered, or one that may fail),
`Stages` what is empty when a stage has ended; together they leave only the
failed case (`SequencerEnd`). `OnePlace` needs `Ascending`: main sends in ascending
order, so what has left the first queue is below all that is still in it, and
that is below what main sends next.

**The argument for `RpcClient`.** `RetryDiscipline` is inductive with the types.
`RateCapped` is not: it follows from `CellsConserved`, by which the requests sent
and the cells left together stay within the burst and the time that has passed.
`ProbeSound` needs `ProbeInFlight`: while the receipts are probed nobody else uses
the call, so its outcome is the node's answer to that question.

**The argument for `Background`.** `ExplainedUnlessDropped` speaks of a moment at
which nothing is under way: the channel is empty and the processor rests. What
holds at every step is `ActionsOK`: a stored height whose explanation no fault cost
and which is not to come through the channel (`Coming`) has each of its
transactions explained (`Done`) or still on the list of the task at hand (`Due`). A
commit under the task's own height puts that height into `Coming` again, which is
why a stale list does no harm. A rollback deletes actions by hash, so `ActionsOK`
needs that no hash is in two blocks of the stored chain (`OnBranch`), or the
rollback could take the actions of a block it keeps. An explanation is written
in a statement of its own after the one that reads the transaction; in between,
`DraftOK` says that what is about to be written are the types of that very
transaction, whichever block it is in by then. `Control` holds the types of the
rest.

**The argument for `Api`.** Explanations: the invariant is that of `Background`. The
second writer only adds rows, also when it repeats what is there (`ApiWrites`), and
the other requests touch none of the processor's state (`RequestsChangeNothing`).
The walk: `address_transactions` only grows and the client only goes back, so all
it has read is at or above the block it asks for next (`RowsOK`), and each row that
was there at the start is read, of a block at which a page ended, or below the
block asked for next (`GapsOK`). A page that the handler cut ends like any other
(`PageFacts`); only the client's own wish to go on matters, which is why
`ShortPageIsLast` fails and this does not.

**The argument for the rules.** `LabelsAgree` holds on each database by counting:
the transfers either way are at most those of the two directions together
(`CountsCompare`), so more than `labelTokens` of them are more than `tokens` in one.
The counts are sums by `SumFunctionOnSet`, a recursive function on subsets;
`SumDefined` shows that it exists, and `FiniteInduction` (induction over the subsets
of a finite set, from the least-number principle) gives what the comparison needs
of it: removing an element, adding, and comparing.

**The argument for the searches.** The queue decides. `SoundInv` holds whatever a
`LIMIT` leaves out: each entry is a visited address with a number of steps in which
it can be reached (`Reached`), `found` repeats nothing and is what was visited, and
every address after the first brought `MinCount` interactions. Exactness needs
`ExactInv`, the reason breadth-first search may break off at the first entry out of
bounds (`Nearest`): the queue is in order and spans at most two levels, no entry is
nearer than it says, everything visited is within a step of the head, and, as long
as there is room, everything as near as the head is visited and what is visited but
not queued has all its neighbours visited. When the head is a level further on, the
level before it is complete. Once the node limit is reached only the part
that keeps a nearer address from missing remains, hence `Full`. `GraphRowsFit` and
`ClusterRowsFit` say of a database that no address has more (frequent) counterparties
in one direction than the query returns; beyond it the missing rows make the
result smaller, and `SearchSound` is what is left. Rows of equal count come in any
order, and the proof covers all of them.

**The argument for `Services`.** `NeverStale` speaks of what `get` returns and is not
inductive; `EntriesCurrent` is: every entry is what its key was put with last,
and its key is not dropped. With the types of times it implies `NeverStale`.
`SizeBounded` needs the map to be finite; the cases are those of `Victims`: room
left, one entry evicted, and an empty map whose limit is zero. `RecentKeysKept`
follows from `Recency`: the entries are put keys with their times, so when `set`
evicts an oldest entry of a full map, all other entries are its rivals
(`Rivals`), and rivals only grow in number until the key itself is put again.
`EventsInOrder` needs to know where a client stands. There is at most one event in
hand, the one right before the client's place in the channel (`OneInHand`), and
what is in hand or else next to be taken is right behind what the client was
given, unless it was overtaken, as long as its loop runs (`PendingBehindGot`). A
write to a broken connection loses what is in hand, but ends the loop.

**Only model-checked.**

* Liveness (`CaughtUp`, `Completes`, `JoinsWhenRestFits`, `MainGoesOn`, `ShutdownEnds`,
  `EveryCallReturns`, `EventsReachClients`, `BrokenLoopsEnd`), which is outside this
  prover's reach. Induction over data goes through sets here: the library's
  induction theorems take an operator as parameter, which the provers cannot
  instantiate, but the least-number principle applied to a set of numbers, or of
  subsets, is enough for recursive functions and folds.
* `RowsComplete` with lost outcomes, and with receipts fetched one by one what it
  says beyond `LogsConsistent`: that each transfer in the block's own receipts has
  its row. It depends on what the other branch's receipts contain.

## 5. Not modelled

* The way a statement fails. That the types of a Rust value and its SQL column
  disagree is modelled by how the call ends: always refused, or a panic (see
  Disagreements). This is read off the types in `migrations/` and the queries, not
  found by the models; were one of these statements repaired, its step here
  would have to be extended by what it writes.
* Rules on amounts: sums of wei and averages, which go through `f64` and six
  decimals (`address.rs`, `anomaly.rs`, `mev.rs`), and the trends. Their queries fail
  or panic before a result is returned, so there is no behaviour to check yet.
* Values, gas, addresses inside rows, descriptions and confidence values, the
  byte layout of ABI data, CSV and JSON output.
* Endpoints are modelled by what they write and by their status; the rankings of
  deployers and whales are single queries.
* `WsState::send` has no caller, and neither caches, authentication nor the rate
  limit are mounted in the router: `Cache` and `WebSocket` model what these parts
  do once they are used. `get_address_labels` has no caller either.
* `auth.rs`, `ratelimit.rs`, `cors.rs`, `logging.rs`, `docs.rs`: no state, or not mounted.
* `events.rs`, `interfaces.rs`: tables of known signatures. `alerting.rs` and
  `pipeline/scheduler.rs`: nothing calls them.
* Configuration, connection set-up, metrics and logging. `config.rs` accepts
  `worker_count = 0` (nothing is ever fetched) and `fetch_queue_depth = 0`
  (`mpsc::channel(0)` panics); the named assumptions of the modules exclude both.

## 6. Plan

Done: all components with state of their own, the analysis rules and searches,
and a proof of every safety property of the passing runs under the conditions
of section 4. What is left is what that section lists as only model-checked, and
the parts of section 5 should they get callers (alerting, scheduler, API
middleware).
