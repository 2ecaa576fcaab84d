CONSTANTS
  Block <- MCBlock
  Number <- MCNumber
  Parent <- MCParent
  Chains <- MCChains
  TxsOf <- MCTxsOf
  LogCount <- MCLogCount
  Sender <- MCSender
  Recipient <- MCRecipient
  TransferItems <- MCTransferItems
  Undecodable = {}
  ZeroHash = ZeroHash
  EmptyHash = EmptyHash
  NoAddress = "none"
  CanReorg = TRUE
  BackfillFrom = 0
  MaxReorgDepth = 1
  FetchQueueDepth = 1
  BlockReceipts = TRUE
  SafeLag = 3
  FinalizedLag = 4
  Faults = {"rpc", "worker", "db", "signal", "crash"}
  Top = 5
  ForkAt = 1
  MinHead = 1
SPECIFICATION Spec
INVARIANTS TypeOK StoredChainLinked CursorAtTip RowsComplete LogsOfStoredBlock MemoryAgrees
PROPERTIES RefinesIndexedChain
