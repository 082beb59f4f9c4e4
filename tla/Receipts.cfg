SPECIFICATION Spec
CONSTANTS
  seed1 = seed1  off = off  absent = absent
  Seed <- SeedOrOff
  NoSeed = off
  Absent = absent
  ClockRegresses = FALSE
  PageSize = {2}
  MaxTime = 2
  MaxReceipts = 3
  MaxTampers = 2
INVARIANTS HealthyVerifies VerifiedWasWritten ConfirmedIsKept
PROPERTIES WalkReadsItsHead
