CONSTANTS
  n1 = n1
  s1 = s1
  r1 = r1
  r2 = r2
  c1 = c1
  c2 = c2
  p1 = p1
  p2 = p2
  f1 = f1
  Nodes = {n1}
  Subs = {s1}
  Manual = manual
  Routes = {r1}
  Countries = {c1, c2}
  Policies <- TwoPolicies
  Probers = {p1}
  Forwarders = {}
  Kinds = {"refresh", "probe"}
  NoExit = NoExit
  NoNode = NoNode
  NoRoute = NoRoute
  NoRule = NoRule
  Free = Free
SPECIFICATION Spec
PROPERTIES RecoveredNodesMeetPolicy
