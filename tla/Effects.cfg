SPECIFICATION BoundarySpec
CONSTANTS
  alice = alice  work = work  play = play  core = core  noScope = noScope
  c1 = c1  op = op  s1 = s1  unset = unset  uncapped = uncapped
  Actor = {alice}
  Scope = {work, play, core}
  Sacred = {core}
  NoScope = noScope
  Chain = {c1}
  Operator = op
  Request <- MCRequest
  Offer <- MCOffer
  Uncapped = uncapped
  Secret = {s1}
  NoSecret = unset
  PageSize = 1
  TokenTTL = 0
  MaxGrantTTL = 1
  MaxGrantUses = 2
  ClockRegresses = FALSE
  MaxTime = 2
  MaxGrants = 2
  MaxIntents = 2
  DirectTTL = 0
  Delegation <- MCDelegation
  Manifest <- MCManifest
INVARIANTS DurableEffectInsideGrant NoForbiddenEffect RevocationLag GrantsAccounted IntentsChained RevokedDelegationLag
PROPERTIES HoldIsTotal ChainSalamaAuthorized GrantsOnlyRetire LogAppendOnly ImplementsLedger FoundUnlessPageFull AuthorityConserved
