SPECIFICATION LinkSpec
CONSTANTS
  Tasks = {root, t1, t2}
  Root = root
  NoTask = nil
  Endpoints = {e1, e2}
  READY = READY
  Msgs = {m0, m1}
  ZeroMsg = m0
SYMMETRY Symmetry
INVARIANTS OneListPerTask OneDirection NoOrphanedCaller NoReplyCycle CurrentRuns ResultWritten Represents
PROPERTIES FirstComeFirstServed ImplementsRpc
