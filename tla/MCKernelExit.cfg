SPECIFICATION Spec
CONSTANTS
  Tasks = {root, t1, t2}
  Root = root
  NoTask = nil
  Endpoints = {e1}
  Msgs = {m0}
  ZeroMsg = m0
INVARIANT LastTaskExited
