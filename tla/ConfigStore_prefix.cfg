SPECIFICATION Spec
CONSTANTS
  r = r rate = rate rates = rates gain = gain
  small = small other = other long = long
  Torn = Torn Absent = Absent
  Key = {r, rate}
  Prefix <- Family
  Clip <- Fits
  Value = {small, long}
  Oversized = {long}
  MaxKeys = 2
INVARIANTS RemovedIsGone
