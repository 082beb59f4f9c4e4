SPECIFICATION Spec
CONSTANTS
  round = round  reading = reading  nobody = nobody
  Pass <- BothPasses
  Lane = {}
  NoPass = nobody
  DayCap = 5
  PassCap = 4
  Batch = 1
  Synthesis = 1
  Attempts = 2
  MaxDay = 2
  Cost = {0, 1}
  MaxExcess = 0
  MaxOrphaned = 1
  MaxCrashes = 1
INVARIANTS DayCeiling
