CONSTANTS
  Block <- MCBlock
  Number <- MCNumber
  Parent <- MCParent
  Chains <- MCChains
  TxsOf <- MCTxsNone
  LogCount <- MCLogCount
  Sender <- MCSender
  Recipient <- MCRecipient
  TransferItems <- MCTransferItems
  Undecodable = {}
  ZeroHash = ZeroHash
  EmptyHash = EmptyHash
  NoAddress = "none"
  CanReorg = TRUE
  BackfillFrom = 0
  MaxReorgDepth = 1
  FetchQueueDepth = 2
  BlockReceipts = TRUE
  SafeLag = 1
  FinalizedLag = 2
  Faults = {}
  Top = 5
  ForkAt = 3
  MinHead = 4
SPECIFICATION FairSpec
PROPERTIES CaughtUp
