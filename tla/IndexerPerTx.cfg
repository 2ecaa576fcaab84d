CONSTANTS
  Block <- MCBlock
  Number <- MCNumber
  Parent <- MCParent
  Chains <- MCChains
  TxsOf <- MCTxsOf
  LogCount <- MCLogCount
  Sender <- MCSender
  Recipient <- MCRecipient
  TransferItems <- MCTransferItems
  Undecodable = {}
  ZeroHash = ZeroHash
  EmptyHash = EmptyHash
  NoAddress = "none"
  CanReorg = TRUE
  BackfillFrom = 1
  MaxReorgDepth = 2
  FetchQueueDepth = 2
  BlockReceipts = FALSE
  SafeLag = 3
  FinalizedLag = 4
  Faults = {"rpc", "worker", "db", "crash"}
  Top = 6
  ForkAt = 2
  MinHead = 1
SPECIFICATION Spec
INVARIANT RowsComplete
