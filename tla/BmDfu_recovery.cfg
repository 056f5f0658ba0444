SPECIFICATION FairSpec
CONSTANTS
  None = None
  hostA = hostA mote = mote
  fw0 = fw0 fw1 = fw1 big = big
  Node = {hostA, mote}
  Image = {fw0, fw1}
  Sha <- ShaOfCommit
  Factory <- AllFw0
  Offer <- OneOffer
  Oversized = {}
  ConfirmSettings = {TRUE, FALSE}
  NumChunks = 1
  MaxChunkRetries = 1
  MaxAckRetries = 1
  QueueLength = 5
  NetLength = 2
  MaxCrashes = 1
  MaxAnswers = 2
  Faults = {"loss", "erase", "write", "read", "tx"}
PROPERTIES  TrialEnds 
\* Every node may end up idle with no offer left to make.
CHECK_DEADLOCK FALSE
CONSTRAINT HostConfirms
