SPECIFICATION Spec
CONSTANTS
  w1 = w1
  w2 = w2
  json = json
  zip = zip
  NoPath = NoPath
  NoFile = NoFile
  Workers = {w1, w2}
  Paths = {json, zip}
  Sizes = {1, 2, 3}
  MaxResult = 2
  MaxStops = 1
  MaxFaults = 1
CHECK_DEADLOCK FALSE
INVARIANTS
  WholeOrRetried
  CompletedHasFile
  NoOrphan
  FileGoesBeforeRow
