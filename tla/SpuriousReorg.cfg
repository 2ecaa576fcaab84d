CONSTANTS
  Block <- MCBlock
  Number <- MCNumber
  Parent <- MCParent
  Chains <- MCTrunk
  TxsOf <- MCTxsOf
  LogCount <- MCLogCount
  Sender <- MCSender
  Recipient <- MCRecipient
  TransferItems <- MCTransferItems
  Undecodable = {}
  ZeroHash = ZeroHash
  EmptyHash = EmptyHash
  NoAddress = "none"
  CanReorg = FALSE
  BackfillFrom = 0
  MaxReorgDepth = 1
  FetchQueueDepth = 1
  BlockReceipts = TRUE
  SafeLag = 3
  FinalizedLag = 4
  Faults = {}
  Top = 4
  ForkAt = 1
  MinHead = 1
SPECIFICATION Spec
PROPERTIES StoredBlocksKept
