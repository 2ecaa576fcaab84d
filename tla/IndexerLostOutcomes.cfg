CONSTANTS
  Block <- MCBlock
  Number <- MCNumber
  Parent <- MCParent
  Chains <- MCTrunk
  TxsOf <- MCTxsOf
  LogCount <- MCLogCount
  Sender <- MCSender
  Recipient <- MCRecipient
  TransferItems <- MCTransferItems
  Undecodable = {}
  ZeroHash = ZeroHash
  EmptyHash = EmptyHash
  NoAddress = "none"
  CanReorg = TRUE
  BackfillFrom = 0
  MaxReorgDepth = 1
  FetchQueueDepth = 2
  BlockReceipts = TRUE
  SafeLag = 3
  FinalizedLag = 4
  Faults = {"ack", "reread", "worker", "crash"}
  Top = 5
  ForkAt = 1
  MinHead = 0
SPECIFICATION Spec
INVARIANTS RowsComplete
