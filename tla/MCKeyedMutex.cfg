CONSTANTS
  c1 = c1
  c2 = c2
  c3 = c3
  v1 = v1
  v2 = v2
  e1 = e1
  e2 = e2
  e3 = e3
  NoEntry = NoEntry
  NoCaller = NoCaller
  Callers <- MCCallers
  Keys <- MCKeys
  Entries <- MCEntries
SPECIFICATION Spec
INVARIANTS
  MutualExclusion
PROPERTIES
  LockReturns
