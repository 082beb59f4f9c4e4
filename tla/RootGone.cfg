SPECIFICATION Spec
CONSTANTS
  here = here  peer = peer  r1 = r1  r2 = r2  k1 = k1  k2 = k2  k3 = k3  p1 = p1  p2 = p2  p3 = p3
  m1 = m1  m2 = m2  s1 = s1  s2 = s2  read = read  write = write  z1 = z1
  noPub = noPub  noRoot = noRoot  noLimit = noLimit
  Root <- OneRoot
  LocalRoot <- OneRoot
  KeyId <- TwoKeyIds
  PubKey <- TwoPubKeys
  Ceremony = {z1}
  NoPubKey = noPub
  ManifestId <- OneManifest
  Subject = {s1, s2}
  Permission = {read, write}
  Source <- OnePeer
  ThisNode = here
  Delegation <- LifeDelegations
  Carried <- Nothing
  PinOffer <- Nothing
  View <- Nothing
  Request <- LifeRequests
  NoRoot = noRoot
  NoLimit = noLimit
  ViewFreshness = 1
  UseFreshness = 1
  ClockRegresses = TRUE
  MaxTime = 1
  MaxPauses = 2
INVARIANTS RootCanRevoke
