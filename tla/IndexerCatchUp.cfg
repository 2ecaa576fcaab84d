CONSTANTS
  Block <- MCBlock
  Number <- MCNumber
  Parent <- MCParent
  Chains <- MCTrunk
  TxsOf <- MCTxsEveryOther
  LogCount <- MCLogCount
  Sender <- MCSender
  Recipient <- MCRecipient
  TransferItems <- MCTransferItems
  Undecodable = {}
  ZeroHash = ZeroHash
  EmptyHash = EmptyHash
  NoAddress = "none"
  CanReorg = FALSE
  BackfillFrom = 0
  MaxReorgDepth = 4
  FetchQueueDepth = 1
  BlockReceipts = TRUE
  SafeLag = 2
  FinalizedLag = 4
  Faults = {}
  Top = 6
  ForkAt = 1
  MinHead = 0
SPECIFICATION FairSpec
PROPERTIES CaughtUp
