SPECIFICATION FairSpec
CONSTANTS
  a = a
  b = b
  c = c
  d = d
  e = e
  p = p
  libc = libc
  Libs = {a, b, c, d, e, p}
  MainSatisfied = {libc}
  Needed <- DiamondNeeded
  Imports <- DiamondImports
  Composed = {p}
  Reentrant = {a, b}
  EarlyFailing = {b, c}
  LateFailing = {a, b}
  HandleIds = {h1, h2, h3}
  None = None
  MaxLost = 2
INVARIANTS NoDangling RefCountIsAccounted LastCloseUnloads NeededIsLoaded BindingsStayOpen
PROPERTIES LoadReturns
