------------------------------ MODULE Indexer ------------------------------
(***************************************************************************)
(* The indexer process: startup, the main loop of main.rs, the commit of   *)
(* one block (pipeline/committer.rs) with reorg detection                  *)
(* (reorg/detect.rs) and rollback, running against a node that moves       *)
(* between any two calls and a database that keeps its state over crashes. *)
(*                                                                         *)
(* One batch of the fetch pipeline (workers and sequencer) is represented  *)
(* by what main receives from it: the numbers batchNext, batchNext + 1,    *)
(* ... in order, stopping early where a worker could not fetch or decode a *)
(* block.  Module Pipeline models the pipeline itself and shows that it    *)
(* delivers this.  What a worker fetched is dropped by main (only the      *)
(* number is used), so a worker matters only through success or failure,   *)
(* and the outcome is resolved when the number would be delivered:         *)
(* a worker that saw another branch is covered, because the node may move  *)
(* there and back at that point.                                           *)
(***************************************************************************)
EXTENDS Store

CONSTANTS
  BackfillFrom,     \* BACKFILL_FROM
  MaxReorgDepth,    \* MAX_REORG_DEPTH
  FetchQueueDepth,  \* FETCH_QUEUE_DEPTH, capacity of each channel
  BlockReceipts,    \* does the node support eth_getBlockReceipts?
  SafeLag,          \* how far the node's `safe' block is behind `latest', and
  FinalizedLag,     \* how far its `finalized' block is
  Faults            \* the events that may disturb a run, a subset of FaultKinds

FaultKinds ==
  { "rpc",      \* a call of the committer fails after its retries
    "worker",   \* a worker fails to fetch or decode a block, also because
                \* the node moved between its calls
    "db",       \* a database call fails and has no effect
    "ack",      \* a transaction commits but its acknowledgement is lost
    "reread",   \* re-reading the cursor after a rollback fails
    "signal",   \* the operator asks the process to stop
    "crash" }   \* the process dies and is started again

ASSUME IndexerAssumption ==
  /\ BackfillFrom \in Nat
  /\ MaxReorgDepth \in Nat
  /\ FetchQueueDepth \in Nat \ {0}
  /\ BlockReceipts \in BOOLEAN
  /\ SafeLag \in Nat /\ FinalizedLag \in Nat
  /\ Faults \subseteq FaultKinds

VARIABLES
  pc,         \* where the main task is
  shutdown,   \* has the shutdown token been cancelled?
  memCursor,  \* main's `cursor'
  batchNext,  \* the next number the pipeline delivers
  batchLast,  \* the last number handed to the workers of this batch
  n,          \* block_number being committed
  block,      \* the block fetched for n
  depth,      \* loop variable of find_ancestor
  ancestor,   \* what find_ancestor returned
  receipts    \* receipts fetched so far

batch == <<batchNext, batchLast>>
local == <<n, block, depth, ancestor, receipts>>
vars == <<chain, blocks, transactions, logs, tokenTransfers,
          addressTransactions, cursor, reorgs, pc, shutdown, memCursor,
          batchNext, batchLast, n, block, depth, ancestor, receipts>>

PCs == { "boot", "loop", "watch", "safe", "finalized", "recv", "fetch",
         "detect", "ancestor", "rollback", "rewind", "receipts", "commit",
         "failed", "ambiguous", "hung", "closing", "down" }

Committing == { "fetch", "detect", "ancestor", "rollback", "receipts", "commit" }

SaturatingPred(k) == IF k = 0 THEN 0 ELSE k - 1

(* last_indexed_block().map(|(n, _)| n).unwrap_or(backfill_from - 1)       *)
StoredPosition ==
  IF cursor = NoCursor THEN SaturatingPred(BackfillFrom) ELSE cursor.number

Init ==
  /\ chain \in Chains
  /\ StoreInit
  /\ pc = "boot"
  /\ shutdown = FALSE
  /\ memCursor = 0
  /\ batchNext = 0 /\ batchLast = 0
  /\ n = 0 /\ block = ZeroHash /\ depth = 0 /\ ancestor = 0 /\ receipts = <<>>

(* Leaving a scope: the locals of commit_block, the channels of a batch.   *)
DropLocals ==
  n' = 0 /\ block' = ZeroHash /\ depth' = 0 /\ ancestor' = 0 /\ receipts' = <<>>

DropBatch == batchNext' = 0 /\ batchLast' = 0

-----------------------------------------------------------------------------
(* Startup and the head of the main loop.                                  *)

ReadCursor ==
  /\ pc = "boot"
  /\ memCursor' = StoredPosition
  /\ pc' = "loop"
  /\ UNCHANGED <<chain, tables, shutdown, batch, local>>

LoopTop ==
  /\ pc = "loop"
  /\ pc' = IF shutdown THEN "closing" ELSE "watch"
  /\ UNCHANGED <<chain, tables, shutdown, memCursor, batch, local>>

BatchSizeHalf == FetchQueueDepth  \* bug variant

BatchSize == 2 * FetchQueueDepth

(* The heads and the ancestors are asked for without their transactions:   *)
(* the node then answers with hashes where BlockResponse wants objects, a  *)
(* permanent Deserialize error for every block that has a transaction.     *)
Readable(k) == k \in DOMAIN chain /\ TxsOf[chain[k]] = <<>>

(* The heights main hands to the workers once the watcher returns.         *)
StartBatch(latest) ==
  LET start == IF memCursor > BackfillFrom THEN memCursor ELSE BackfillFrom
      final == start + BatchSize - 1
  IN  batchNext' = start /\ batchLast' = IF latest < final THEN latest ELSE final

(* head_watcher::watch asks for the blocks tagged latest, safe and         *)
(* finalized, in this order; the node may move in between.  When a call    *)
(* fails the watcher sleeps and begins again (for `latest' that changes    *)
(* nothing), shutdown ends the wait.  The batch depends on `latest' alone  *)
(* and is computed with it.                                                *)
WatchHead ==
  /\ pc = "watch"
  /\ ~shutdown
  /\ \E latest \in DOMAIN chain :
       IsLatest(latest) /\ Readable(latest) /\ StartBatch(latest)
  /\ pc' = "safe"
  /\ UNCHANGED <<chain, tables, shutdown, memCursor, local>>

(* The height the node gives the tag main asks for.                        *)
Tagged ==
  LET latest == CHOOSE h \in DOMAIN chain : IsLatest(h)
      lag    == IF pc = "safe" THEN SafeLag ELSE FinalizedLag
  IN  IF latest > lag THEN latest - lag ELSE 0

WatchSafe ==
  /\ pc = "safe"
  /\ Readable(Tagged)
  /\ pc' = "finalized"
  /\ UNCHANGED <<chain, tables, shutdown, memCursor, batch, local>>

(* The watcher returns.  The sleep after an empty batch is the step back   *)
(* to the top of the loop.                                                 *)
WatchFinalized ==
  /\ pc = "finalized"
  /\ Readable(Tagged)
  /\ \/ batchNext <= batchLast /\ pc' = "recv" /\ UNCHANGED batch
     \/ batchNext > batchLast /\ pc' = "loop" /\ DropBatch
  /\ UNCHANGED <<chain, tables, shutdown, memCursor, local>>

WatchFails ==
  /\ pc \in {"safe", "finalized"}
  /\ ~Readable(Tagged) \/ "rpc" \in Faults
  /\ pc' = "watch"
  /\ DropBatch
  /\ UNCHANGED <<chain, tables, shutdown, memCursor, local>>

WatchCancelled ==
  /\ pc = "watch"
  /\ shutdown
  /\ pc' = "closing"
  /\ UNCHANGED <<chain, tables, shutdown, memCursor, batch, local>>

-----------------------------------------------------------------------------
(* The receive loop.                                                       *)

(* fetch_and_decode: can the worker that takes number k succeed, or fail?  *)
WorkerCanSucceed(k) == k \in DOMAIN chain /\ chain[k] \notin Undecodable

WorkerCanFail(k) == "worker" \in Faults \/ ~WorkerCanSucceed(k)

(* Leaving the receive loop early, with the numbers from `first' on not    *)
(* received: main awaits the pipeline's tasks while it still owns the      *)
(* receiver.  The sequencer releases the numbers before the first failed   *)
(* one, and ends only if the channel can hold them all.                    *)
CountsLeft(first) ==
  { c \in 0..(batchLast - first + 1) :
      c = batchLast - first + 1 \/ WorkerCanFail(first + c) }

Break(first) ==
  /\ \E left \in CountsLeft(first) :
       pc' = IF left > FetchQueueDepth THEN "hung" ELSE "loop"
  /\ DropBatch

(* seq_rx.recv() returns a number.                                         *)
Receive ==
  /\ pc = "recv"
  /\ batchNext <= batchLast
  /\ WorkerCanSucceed(batchNext)
  /\ ~shutdown
  /\ n' = batchNext
  /\ batchNext' = batchNext + 1
  /\ pc' = "fetch"
  /\ UNCHANGED <<chain, tables, shutdown, memCursor, batchLast, block, depth,
                 ancestor, receipts>>

(* It returns one, but shutdown was requested: the rest is abandoned.      *)
ReceiveCancelled ==
  /\ pc = "recv"
  /\ batchNext <= batchLast
  /\ WorkerCanSucceed(batchNext)
  /\ shutdown
  /\ Break(batchNext + 1)
  /\ UNCHANGED <<chain, tables, shutdown, memCursor, local>>

(* The channel closes: everything delivered, or a worker failed.           *)
BatchEnds ==
  /\ pc = "recv"
  /\ batchNext > batchLast \/ WorkerCanFail(batchNext)
  /\ pc' = "loop"
  /\ DropBatch
  /\ UNCHANGED <<chain, tables, shutdown, memCursor, local>>

-----------------------------------------------------------------------------
(* committer::commit_block.                                                *)

FetchBlock ==
  /\ pc = "fetch"
  /\ n \in DOMAIN chain
  /\ block' = chain[n]
  /\ receipts' = <<>>
  /\ pc' = IF n > 0 THEN "detect" ELSE "receipts"
  /\ UNCHANGED <<chain, tables, shutdown, memCursor, batch, n, depth, ancestor>>

(* Bug variant: the unchecked heights reach one block further.             *)
LinksToCursorFrom2 == n - 1 <= 1 \/ cursor.hash = Parent[block]

(* detect::detect: the parent hash is compared with the hash in the cursor *)
(* row, whatever number the row has; height 1 is not checked.              *)
LinksToCursor == n - 1 = 0 \/ cursor.hash = Parent[block]

Detect ==
  /\ pc = "detect"
  /\ IF LinksToCursor
     THEN pc' = "receipts" /\ UNCHANGED depth
     ELSE pc' = "ancestor" /\ depth' = 0
  /\ UNCHANGED <<chain, tables, shutdown, memCursor, batch, n, block, ancestor,
                 receipts>>

(* Bug variant: one iteration too many.                                    *)
DepthLeftInclusive == depth <= MaxReorgDepth

DepthLeft == depth < MaxReorgDepth

(* One iteration of detect::find_ancestor: the canonical block at          *)
(* n - 1 - depth against the hash in the cursor row.  (Its other test,     *)
(* start < depth, is never true: the iteration before met block 0.)        *)
FindAncestor ==
  /\ pc = "ancestor"
  /\ LET k == n - 1 - depth
     IN  /\ Readable(k)
         /\ \/ /\ k = 0 \/ cursor.hash = chain[k]
               /\ pc' = "rollback"
               /\ ancestor' = k
               /\ UNCHANGED <<n, block, depth, receipts>>
            \/ /\ k # 0 /\ cursor.hash # chain[k]
               /\ DepthLeft
               /\ depth' = depth + 1
               /\ UNCHANGED <<pc, n, block, ancestor, receipts>>
            \/ /\ k # 0 /\ cursor.hash # chain[k]
               /\ ~DepthLeft                   \* ReorgError::DepthExceeded
               /\ pc' = "ambiguous"
               /\ DropLocals
  /\ UNCHANGED <<chain, tables, shutdown, memCursor, batch>>

Rollback ==
  /\ pc = "rollback"
  /\ StoreRollback(ancestor, n)
  /\ pc' = "rewind"
  /\ DropLocals
  /\ UNCHANGED <<chain, shutdown, memCursor, batch>>

(* Bug variant: main goes on from the block it was at.                     *)
RewoundPositionsStale == { memCursor }

(* The position main takes after a rollback: re-read from the database,    *)
(* `.ok()' turning a failed read into the position of an empty one.        *)
RewoundPositions ==
  { StoredPosition }
    \cup { p \in { SaturatingPred(BackfillFrom) } : "reread" \in Faults }

(* main leaves the receive loop after a rollback.                          *)
Rewind ==
  /\ pc = "rewind"
  /\ memCursor' \in RewoundPositions
  /\ Break(batchNext)
  /\ UNCHANGED <<chain, tables, shutdown, local>>

(* eth_getBlockReceipts by number: the receipts of whatever block is       *)
(* canonical at n now.                                                     *)
FetchBlockReceipts ==
  /\ pc = "receipts"
  /\ BlockReceipts
  /\ n \in DOMAIN chain
  /\ receipts' = ReceiptsOf(chain[n])
  /\ pc' = "commit"
  /\ UNCHANGED <<chain, tables, shutdown, memCursor, batch, n, block, depth,
                 ancestor>>

(* Otherwise one eth_getTransactionReceipt per transaction, by hash.       *)
FetchNextReceipt ==
  /\ pc = "receipts"
  /\ ~BlockReceipts
  /\ IF Len(receipts) < Len(TxsOf[block])
     THEN /\ \E r \in ReceiptsFor(TxsOf[block][Len(receipts) + 1]) :
               receipts' = Append(receipts, r)
          /\ UNCHANGED pc
     ELSE pc' = "commit" /\ UNCHANGED receipts
  /\ UNCHANGED <<chain, tables, shutdown, memCursor, batch, n, block, depth,
                 ancestor>>

(* Bug variant: receipts are paired with transactions by position only.    *)
ReceiptMatchesByPosition(i) == TRUE

ReceiptMatches(i) ==
  TxsOf[receipts[i].block][receipts[i].pos] = TxsOf[block][i]

(* decode_block's checks: as many receipts as transactions, each for its   *)
(* transaction, log indices contiguous over the block, decodable logs.     *)
Decodes ==
  /\ Len(receipts) = Len(TxsOf[block])
  /\ \A i \in DOMAIN receipts :
       /\ ReceiptMatches(i)
       /\ receipts[i].block \notin Undecodable
       /\ LogsIn(receipts[i]) > 0 =>
            FirstLogIndex(receipts[i]) =
              Cardinality(UNION { {j} \X (1..LogsIn(receipts[j])) : j \in 1..(i - 1) })

(* decode and store.commit_block succeed; main advances its cursor and     *)
(* hands the number to the background processor.                           *)
Commit ==
  /\ pc = "commit"
  /\ Decodes
  /\ StoreCommitBlock(block, receipts)
  /\ memCursor' = n
  /\ pc' = "recv"
  /\ DropLocals
  /\ UNCHANGED <<chain, shutdown, batch>>

-----------------------------------------------------------------------------
(* Errors of commit_block: logged by main, nothing else changes.           *)

MissingReceipt ==
  \/ BlockReceipts /\ n \notin DOMAIN chain
  \/ /\ ~BlockReceipts
     /\ Len(receipts) < Len(TxsOf[block])
     /\ ReceiptsFor(TxsOf[block][Len(receipts) + 1]) = {}

(* The node has no such block any more, the search for the ancestor meets  *)
(* a block it cannot read, or the data do not fit together.                *)
NotFound ==
  \/ pc = "fetch" /\ n \notin DOMAIN chain
  \/ pc = "ancestor" /\ ~Readable(n - 1 - depth)
  \/ pc = "receipts" /\ MissingReceipt
  \/ pc = "commit" /\ ~Decodes

CallFails ==
  \/ "rpc" \in Faults /\ pc \in {"fetch", "ancestor", "receipts"}
  \/ "db" \in Faults /\ pc \in {"detect", "ancestor", "rollback", "commit"}

CommitFails ==
  /\ NotFound \/ CallFails
  /\ pc' = "failed"
  /\ DropLocals
  /\ UNCHANGED <<chain, tables, shutdown, memCursor, batch>>

(* The transaction took effect, but commit_block returns an error.         *)
LoseAck ==
  /\ "ack" \in Faults
  /\ \/ pc = "commit" /\ Decodes /\ StoreCommitBlock(block, receipts)
     \/ pc = "rollback" /\ StoreRollback(ancestor, n)
  /\ pc' = "failed"
  /\ DropLocals
  /\ UNCHANGED <<chain, shutdown, memCursor, batch>>

(* main sleeps one second and goes on with the next number, whatever the   *)
(* error was, DepthExceeded ("ambiguous") included.                        *)
GoOn ==
  /\ pc \in {"failed", "ambiguous"}
  /\ pc' = "recv"
  /\ UNCHANGED <<chain, tables, shutdown, memCursor, batch, local>>

GoOnCancelled ==
  /\ pc \in {"failed", "ambiguous"}
  /\ shutdown
  /\ Break(batchNext)
  /\ UNCHANGED <<chain, tables, shutdown, memCursor, local>>

-----------------------------------------------------------------------------
(* Shutdown, crash and restart.                                            *)

RequestShutdown ==
  /\ "signal" \in Faults
  /\ ~shutdown
  /\ pc # "down"
  /\ shutdown' = TRUE
  /\ UNCHANGED <<chain, tables, pc, memCursor, batch, local>>

(* The process ends: only the database survives.                           *)
ProcessEnds ==
  /\ pc' = "down"
  /\ shutdown' = FALSE
  /\ memCursor' = 0
  /\ DropBatch
  /\ DropLocals
  /\ UNCHANGED <<chain, tables>>

Close == pc = "closing" /\ ProcessEnds

(* kill -9, a failed startup, or an operator killing a hung process.       *)
Crash == "crash" \in Faults /\ pc # "down" /\ ProcessEnds

Restart ==
  /\ pc = "down"
  /\ pc' = "boot"
  /\ UNCHANGED <<chain, tables, shutdown, memCursor, batch, local>>

-----------------------------------------------------------------------------
(* What the process does when nothing fails.                               *)
Step ==
  \/ ReadCursor \/ LoopTop
  \/ WatchHead \/ WatchSafe \/ WatchFinalized \/ WatchFails \/ WatchCancelled
  \/ Receive \/ ReceiveCancelled \/ BatchEnds
  \/ FetchBlock \/ Detect \/ FindAncestor \/ Rollback \/ Rewind
  \/ FetchBlockReceipts \/ FetchNextReceipt \/ Commit
  \/ CommitFails \/ GoOn \/ GoOnCancelled \/ Close

Next ==
  \/ NodeMove /\ UNCHANGED <<tables, pc, shutdown, memCursor, batch, local>>
  \/ Step
  \/ LoseAck
  \/ RequestShutdown
  \/ Crash
  \/ Restart

Spec == Init /\ [][Next]_vars

(* Fairness: the main task is never descheduled for ever, and the node and *)
(* the database answer its calls (every await of Step ends).  Nothing is   *)
(* assumed of the node's moves, of faults, crashes or the operator.        *)
FairSpec == Spec /\ WF_vars(Step)

-----------------------------------------------------------------------------
(* Type correctness of the tables the indexer's control depends on and of  *)
(* main's variables.                                                       *)
TypeOK ==
  /\ chain \in Chains
  /\ blocks \subseteq Block
  /\ cursor \in [number : Nat \cup {-1}, hash : Block \cup {ZeroHash, EmptyHash}]
  /\ pc \in PCs
  /\ shutdown \in BOOLEAN
  /\ memCursor \in Nat
  /\ batchNext \in Nat /\ batchLast \in Nat
  /\ n \in Nat
  /\ block \in Block \cup {ZeroHash}
  /\ depth \in 0..MaxReorgDepth
  /\ ancestor \in Nat

(* Conditions on the environment under which the chain tables stay sound:  *)
(* no reorganisation at height 1 or below, where detect() accepts any      *)
(* block, and main always learns the outcome of its transactions.          *)
StableBase ==
  \A c, d \in Chains : \A k \in {0, 1} :
    k \in DOMAIN c /\ k \in DOMAIN d => c[k] = d[k]

OutcomesKnown == "ack" \notin Faults /\ "reread" \notin Faults

(* Two blocks of one height differ in their transactions, if they have     *)
(* any: receipts fetched by number then tell the block they belong to.     *)
ReceiptsTellBlocks ==
  /\ BlockReceipts
  /\ \A a, b \in Block :
       Number[a] = Number[b] /\ TxsOf[a] = TxsOf[b] => a = b \/ TxsOf[a] = <<>>

(* I1, linkage: the stored blocks are one linked chain, whatever faults,   *)
(* crashes, reorganisations and interleavings happened: one row per height *)
(* and every row at height 2 or more next to its parent (the linkage       *)
(* check_invariants.sql calls parent_hash_mismatch).                       *)
StoredChainLinked ==
  /\ \A a, b \in blocks : Number[a] = Number[b] => a = b
  /\ \A b \in blocks : Number[b] >= 2 => Parent[b] \in blocks

(* I1, contiguity: there is a row at every height from 1 to the cursor     *)
(* (`gap' in check_invariants.sql) and none above it, and the cursor's     *)
(* hash, unless a rollback left its placeholder, is the row at its height. *)
CursorAtTip ==
  /\ \A h \in 1..cursor.number : \E b \in blocks : Number[b] = h
  /\ \A b \in blocks : Number[b] <= cursor.number
  /\ cursor.hash \in Block =>
       cursor.hash \in blocks /\ Number[cursor.hash] = cursor.number

(* I1, completeness: a stored block has all its transactions under its own *)
(* number and position, also when a transaction was moved to another block *)
(* by a reorganisation, no transaction row belongs to a block that is not  *)
(* stored, log indices have no gap, every log that decodes to transfers    *)
(* has one, and no transfer outlives its log.                              *)
RowsComplete ==
  /\ \A b \in blocks : \A i \in DOMAIN TxsOf[b] :
       [hash |-> TxsOf[b][i], number |-> Number[b], index |-> i - 1] \in transactions
  /\ \A r \in transactions : \E b \in blocks :
       /\ Number[b] = r.number
       /\ (r.index + 1) \in DOMAIN TxsOf[b] /\ TxsOf[b][r.index + 1] = r.hash
  /\ \A r \in logs : \A k \in 0..r.index :
       \E s \in logs : s.number = r.number /\ s.index = k
  /\ \A b \in blocks : \A r \in TransferRows(b, ReceiptsOf(b)) :
       \E t \in tokenTransfers : t.number = r.number /\ t.index = r.index
  /\ \A t \in tokenTransfers :
       [number |-> t.number, index |-> t.index, origin |-> t.origin] \in logs

(* I1, log provenance: the logs stored under a block's number were emitted *)
(* by that very block, not by the block another branch has at this height  *)
(* (the receipts are fetched by number, after the block).                  *)
LogsOfStoredBlock ==
  \A b \in blocks : \A r \in logs : r.number = Number[b] => r.origin = b

(* I2: between two transactions main's cursor is the one in the database,  *)
(* so a process started after a crash goes on from the position the one    *)
(* before it had reached.                                                  *)
MemoryAgrees ==
  pc \in {"loop", "watch", "safe", "finalized", "recv", "failed", "ambiguous",
           "closing"} \cup Committing
    => memCursor = StoredPosition

(* The stored chain changes only by appending one linked block at its top  *)
(* and by dropping everything above a height: the promise IndexedChain     *)
(* states, of which the `blocks' table is the implementation.              *)
RowAt == [h \in { Number[b] : b \in blocks } |->
            CHOOSE b \in blocks : Number[b] = h]

Abstract == INSTANCE IndexedChain WITH rows <- RowAt

RefinesIndexedChain == Abstract!Spec

(* The head of a branch, and the branches whose latest, safe and finalized *)
(* blocks have no transactions, so that the watcher can read them.         *)
TipOf(c) == c[CHOOSE h \in DOMAIN c : h + 1 \notin DOMAIN c]

HeadReadable(c) ==
  \A lag \in {0, SafeLag, FinalizedLag} :
    LET h == Number[TipOf(c)]
    IN  TxsOf[c[IF h > lag THEN h - lag ELSE 0]] = <<>>

(* Catching up: once the node stays at a branch whose head the watcher can *)
(* read, the indexer ends up with that head as the last indexed block, and *)
(* stays there.                                                            *)
CaughtUp ==
  \A c \in Chains :
    HeadReadable(c) /\ <>[](chain = c) => <>[](cursor.hash = TipOf(c))

-----------------------------------------------------------------------------
(* What the documentation says and the code does not do; see README.md.    *)

(* ARCHITECTURE I2 "resume at n+1": while the node only extends its chain  *)
(* and nothing fails, nothing that was stored is deleted.                  *)
StoredBlocksKept == [][blocks \subseteq blocks']_vars

(* ARCHITECTURE I5: when linkage cannot be established within              *)
(* MAX_REORG_DEPTH the indexer halts.                                      *)
FailStop ==
  [][pc = "ambiguous" => pc' \in {"ambiguous", "closing", "down"}]_vars

(* SPEC phase 6: a rollback cascades to the address index.                 *)
AddressRowsBacked ==
  \A r \in addressTransactions :
    \E t \in transactions : t.hash = r.tx /\ t.number = r.number

(* SPEC phase 9, "no silent stalls": once the node stays at a branch, the  *)
(* indexer reaches its head or the process ends, also when the head has    *)
(* transactions.                                                           *)
NoSilentStall ==
  \A c \in Chains :
    <>[](chain = c) => <>[](cursor.hash = TipOf(c)) \/ <>(pc = "down")
=============================================================================
