SPECIFICATION Spec
CONSTANTS
  r = r rate = rate rates = rates gain = gain
  small = small other = other long = long
  Torn = Torn Absent = Absent
  Key = {r, rate, rates, gain}
  Prefix <- Family
  Clip <- Fits
  Value = {small, long}
  Oversized = {long}
  MaxKeys = 3
INVARIANTS TypeOK ListedKeysFound CleanMeansSaved SetIsFound
