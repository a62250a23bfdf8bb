CONSTANTS
  q1 = q1
  q2 = q2
  q3 = q3
  s1 = s1
  s2 = s2
  n1 = n1
  n2 = n2
  us = us
  jp = jp
  NoSession = NoSession
  NoRegion = NoRegion
  NoNode = NoNode
  NoBinding = NoBinding
  NoRequest = NoRequest
  Down = Down
  Requests = {q1, q2}
  Sessions = {s1, s2}
  Nodes = {n1}
  Regions = {us}
  Routes <- QuotaRoutes
  Settings <- QuotaSettings
  TTLs <- QuotaTTLs
  MaxRetry = 0
  MaxTime = 1
SPECIFICATION FairSpec
INVARIANTS
  ReverseIndexExact
PROPERTIES
  BindWithinLimit
  CooldownHonoured
  ResolveReturns
