SPECIFICATION Spec
CONSTANTS
  round = round  reading = reading  nobody = nobody
  Pass <- BothPasses
  Lane = {reading}
  NoPass = nobody
  DayCap = 5
  PassCap = 4
  Batch = 1
  Synthesis = 1
  Attempts = 2
  MaxDay = 2
  Cost = {0, 1, 3}
  MaxExcess = 2
  MaxOrphaned = 1
  MaxCrashes = 1
INVARIANTS PassIsFunded SequentialCeiling BillIsExplained LinesDontMix
PROPERTIES PassEnds
