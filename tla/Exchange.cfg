SPECIFICATION Spec
CONSTANTS
  k1 = k1  k2 = k2  p1 = p1  p2 = p2  c1 = c1  d1 = d1  d2 = d2
  a1 = a1   n1 = n1  n2 = n2  n3 = n3
  KeyId = {k1, k2}
  PubKey = {p1, p2}
  NoKey = noKey
  Chain = {c1}
  Delegation = {d1, d2}
  Cap = {a1}
  Nonce = {n1, n2, n3}
  Request <- MCRequest
  Freshness = 1
  ClockRegresses = TRUE
  MaxTime = 2
  MaxAccepted = 2
  MaxHere = 2
INVARIANTS ServedOnce ForeignFirst
PROPERTIES RevocationIsFinal
