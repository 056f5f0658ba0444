SPECIFICATION Spec
CONSTANTS
  None = None
  hostA = hostA mote = mote
  fw0 = fw0 fw1 = fw1 big = big
  Node = {hostA, mote}
  Image = {fw0, fw1, big}
  Sha <- ShaOfCommit
  Factory <- AllFw0
  Offer <- OneAndBig
  Oversized = {big}
  ConfirmSettings = {TRUE, FALSE}
  NumChunks = 2
  MaxChunkRetries = 2
  MaxAckRetries = 1
  QueueLength = 2
  NetLength = 1
  MaxCrashes = 1
  MaxAnswers = 2
  Faults = {"loss", "write", "erase"}
INVARIANTS TypeOK  SuccessMeansInstalled TrialOnRecord PendingServed ActivatedSlotIntact AnsweredOnce
PROPERTIES PromiseKept
\* Every node may end up idle with no offer left to make.
CHECK_DEADLOCK FALSE
CONSTRAINT HostConfirms
