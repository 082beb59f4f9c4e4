SPECIFICATION Spec
CONSTANTS
  peer = peer  a = a  b = b  k1 = k1  k2 = k2  m1 = m1  r1 = r1  r2 = r2
  Peer = {peer}
  Entry = {a, b}
  TrueEntry = {a}
  Key = {k1, k2}
  TrueKey = k1
  NoHead = NoHead  NoProof = NoProof  Garbled = Garbled  NoPin = NoPin  Plain = Plain
  Source = peer
  Manifest = {m1}
  Receipt = {r1, r2}
  MaxLen = 3
  MaxLie = 2
  MaxEpoch = 1
  MaxFlights = 2
  MaxFindings = 1
  MaxRows = 2
  MaxView = 2
INVARIANTS HonestAccusedOnlyLate ObservedThroughPin
PROPERTIES MarkFollowsOneLog KnownRevokedStaysOut CondemnedIsShutOut
SYMMETRY Receipts
