SPECIFICATION ConfigSpec
CONSTANTS
  r = r gain = gain small = small long = long ask1 = ask1 ask2 = ask2 through = through
  Torn = Torn Absent = Absent
  Key = {r, gain}
  Prefix <- Itself
  Clip <- Fits
  Value = {small, long}
  Oversized = {long}
  MaxKeys = 2
  Request = {ask1, ask2}
  Other = {through}
  Reply = {ask1, ask2, through}
  Commit = Commit
  Ask <- Mixed
  OtherSeq <- Apart
  Timeout = Timeout
  SeqSpace = 4
INVARIANTS ConfigTypeOK  NoSilentEnd  OwnReplyIfApart ConfirmedIsDone
PROPERTIES MapPromise
CHECK_DEADLOCK FALSE
