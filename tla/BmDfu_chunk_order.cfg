SPECIFICATION Spec
CONSTANTS
  None = None
  hostA = hostA mote = mote
  fw0 = fw0 fw1 = fw1 big = big
  Node = {hostA, mote}
  Image = {fw0, fw1}
  Sha <- ShaOfCommit
  Factory <- AllFw0
  Offer <- OneOffer
  Oversized = {}
  ConfirmSettings = {TRUE}
  NumChunks = 2
  MaxChunkRetries = 2
  MaxAckRetries = 2
  QueueLength = 5
  NetLength = 2
  MaxCrashes = 0
  MaxAnswers = 2
  Faults = {"loss"}
INVARIANTS ChunksInOrder
\* Every node may end up idle with no offer left to make.
CHECK_DEADLOCK FALSE
