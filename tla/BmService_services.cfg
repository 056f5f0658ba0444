SPECIFICATION FairSpec
CONSTANTS
  echo = echo ask1 = ask1 ask2 = ask2 theirs = theirs
  Service = {echo}
  Request = {ask1, ask2}
  Other = {theirs}
  ServiceOf <- Echo
  OtherId <- Zero
  Self = Self Else = Else Timeout = Timeout Nil = Nil
  QueueLength = 2
INVARIANTS TypeOK OneOutcome 
PROPERTIES ListedEnds
