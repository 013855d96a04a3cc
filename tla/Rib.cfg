CONSTANTS
  \* routes
  g = g
  h = h
  i = i
  j = j
  dflt = dflt
  p = p
  fe80 = fe80
  NULL = NULL
  Originators = {1, 2}
  Prefixes = {dflt, p, fe80}
  DefaultRoute = dflt
  LinkLocal = {fe80}
  Gateways = {g, h}
  Ifaces = {i, j}
  Costs = {1, 2, 3}
  Hops = {1, 2}
  NatThresh = 50
  VersionModulus = 2
  Setups <- MCSetups
  \* announced networks and aliases
  o1 = o1
  o2 = o2
  a1 = a1
  net = net
  ownnet = ownnet
  HnaOriginators = {o1, o2}
  Host <- MCHost
  Aliases = {a1}
  HnaNets = {net, ownnet}
  OwnNets = {ownnet}
  OwnAddrs = {}
  HNA_MAX = 1
  NOMAIN = NOMAIN
SPECIFICATION MCSpec
SYMMETRY MCSymmetry
INVARIANTS
  BestInstalled
  RoutesMatchAnnouncements
PROPERTIES
  KernelFollowsRib
  RouteStepsSound
