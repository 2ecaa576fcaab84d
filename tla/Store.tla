------------------------------- MODULE Store -------------------------------
(***************************************************************************)
(* The PostgreSQL database: the chain tables of migrations/0001, the       *)
(* cursor row of indexer_state and the reorgs audit, with the two          *)
(* transactions that write them: PostgresStore::commit_block and           *)
(* reorg::rollback.  Each is one database transaction, hence one action.   *)
(*                                                                         *)
(* A row of `blocks' is a function of the block hash, so the table is a    *)
(* set of hashes.  Other rows are records; `origin' stands for the columns *)
(* of a log or transfer that depend on the execution it was emitted in.    *)
(***************************************************************************)
EXTENDS Chain

VARIABLES
  blocks,               \* hashes of the stored block rows
  transactions,         \* [hash, number, index]
  logs,                 \* [number, index, origin]
  tokenTransfers,       \* [number, index, origin, item]
  addressTransactions,  \* [address, number, index, direction, tx]
  cursor,               \* indexer_state: [number, hash]
  reorgs                \* the newest audit row

tables == <<blocks, transactions, logs, tokenTransfers, addressTransactions,
            cursor, reorgs>>

NoCursor == [number |-> -1, hash |-> EmptyHash]   \* both columns NULL

NoAudit == [ancestor |-> -1, depth |-> 0, from |-> 0, to |-> 0, hashes |-> <<>>]

StoreInit ==
  /\ blocks = {}
  /\ transactions = {}
  /\ logs = {}
  /\ tokenTransfers = {}
  /\ addressTransactions = {}
  /\ cursor = NoCursor
  /\ reorgs = NoAudit

(* INSERT ... ON CONFLICT (key) DO NOTHING of rows whose keys differ from  *)
(* each other.  `key' is a set of columns.                                 *)
InsertNew(table, rows, key) ==
  table \cup { r \in rows : \A s \in table : \E column \in key : s[column] # r[column] }

(* Bug variant: ON CONFLICT (hash) instead of (number).                    *)
InsertBlockByHash(b) == blocks \cup {b}

(* insert_block: the first row at a height stays.                          *)
InsertBlock(b) ==
  IF \E r \in blocks : Number[r] = Number[b] THEN blocks ELSE blocks \cup {b}

InsertTransactions(b) ==
  InsertNew(transactions,
            { [hash |-> TxsOf[b][i], number |-> Number[b], index |-> i - 1] :
                i \in DOMAIN TxsOf[b] },
            {"hash"})

(* decode_logs: the rows of the receipts' logs.  The block number is that  *)
(* of the block, everything else comes from the receipts.                  *)
LogRows(b, receipts) ==
  UNION { { [number |-> Number[b], index |-> FirstLogIndex(receipts[i]) + k - 1,
             origin |-> receipts[i].block] : k \in 1..LogsIn(receipts[i]) } :
          i \in DOMAIN receipts }

InsertLogs(b, receipts) ==
  InsertNew(logs, LogRows(b, receipts), {"number", "index"})

(* decode_token_transfers: one row per transfer item of every log.         *)
TransferRows(b, receipts) ==
  UNION { { [number |-> Number[b],
             index  |-> FirstLogIndex(receipts[i]) + p[1] - 1,
             origin |-> receipts[i].block,
             item   |-> p[2]] :
               p \in (1..LogsIn(receipts[i])) \X (1..TransferItems[TxsOf[b][i]]) } :
          i \in DOMAIN receipts }

(* insert_token_transfers runs one INSERT per item, in order, on the key   *)
(* (block_number, log_index): of the items of one log only the first can   *)
(* be new.                                                                 *)
InsertTokenTransfers(b, receipts) ==
  InsertNew(tokenTransfers,
            { r \in TransferRows(b, receipts) : r.item = 1 },
            {"number", "index"})

(* insert_address_transactions: direction 0 for the sender, 1 for the      *)
(* recipient unless the transaction creates a contract.                    *)
AddressRows(b) ==
  LET Row(i, a, d) == [address |-> a, number |-> Number[b], index |-> i - 1,
                       direction |-> d, tx |-> TxsOf[b][i]]
  IN  { Row(i, Sender[TxsOf[b][i]], 0) : i \in DOMAIN TxsOf[b] }
        \cup { Row(i, Recipient[TxsOf[b][i]], 1) :
                 i \in { j \in DOMAIN TxsOf[b] :
                           Recipient[TxsOf[b][j]] # NoAddress } }

InsertAddressTransactions(b) ==
  InsertNew(addressTransactions, AddressRows(b),
            {"address", "number", "index", "direction"})

UpdateCursor(b) == [number |-> Number[b], hash |-> b]

(* PostgresStore::commit_block, one transaction.                           *)
StoreCommitBlock(b, receipts) ==
  /\ blocks' = InsertBlock(b)
  /\ transactions' = InsertTransactions(b)
  /\ logs' = InsertLogs(b, receipts)
  /\ tokenTransfers' = InsertTokenTransfers(b, receipts)
  /\ addressTransactions' = InsertAddressTransactions(b)
  /\ cursor' = UpdateCursor(b)
  /\ UNCHANGED reorgs

(* collect_orphaned_hashes: one zero hash per height ancestor..to.         *)
OrphanedHashes(ancestor, to) == [i \in 1..(to - ancestor + 1) |-> ZeroHash]

(* Bug variants: the rollback also takes the ancestor; transactions has no *)
(* foreign key to blocks.                                                  *)
KeptBlocksExclusive(to) == { b \in blocks : Number[b] < to }

KeptTransactionsAll(to) == transactions

KeptBlocks(to) == { b \in blocks : Number[b] <= to }

KeptTransactions(to) == { r \in transactions : r.number <= to }

(* reorg::rollback, one transaction.  Deleting a block row cascades to     *)
(* transactions and logs, and from logs to token_transfers;                *)
(* address_transactions has no foreign key.  The two UPDATEs of            *)
(* address_stats and contract_profiles select through transactions rows    *)
(* that the cascade has already removed, so they change nothing.           *)
(* The DELETEs on anomalies, mev_events and block_analytics touch tables   *)
(* that the indexer never reads; they are part of module Background.       *)
StoreRollback(ancestor, to) ==
  LET hashes == OrphanedHashes(ancestor, to)
  IN  /\ reorgs' = [ancestor |-> ancestor, depth |-> to - ancestor,
                    from |-> ancestor + 1, to |-> to, hashes |-> hashes]
      /\ blocks' = KeptBlocks(ancestor)
      /\ transactions' = KeptTransactions(ancestor)
      /\ logs' = { r \in logs : r.number <= ancestor }
      /\ tokenTransfers' = { r \in tokenTransfers : r.number <= ancestor }
      /\ cursor' = [number |-> ancestor,
                    hash   |-> IF ancestor = 0 THEN ZeroHash ELSE hashes[1]]
      /\ UNCHANGED addressTransactions
=============================================================================
