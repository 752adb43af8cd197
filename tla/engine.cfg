SPECIFICATION Spec
CONSTANTS
  g1 = g1
  g2 = g2
  s1 = s1
  s2 = s2
  k1 = k1
  d1 = d1
  r1 = r1
  r2 = r2
  Goroutines <- MCGoroutines
  Sessions <- MCSessions
  Links <- MCLinks
  Drivers <- MCDrivers
  Routers <- MCRouters
  FirstRouter = r1
  NoSession = NoSession
  NoLink = NoLink
  NoDriver = NoDriver
SYMMETRY Symm
INVARIANTS TypeOK NoneLost RightDriver
