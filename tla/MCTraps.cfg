SPECIFICATION TSpec
CONSTANTS
  Root = Root
  Tasks = {Root, t1}
  NoTask = NoTask
  Endpoints = {e1}
  Msgs = {m0}
  ZeroMsg = m0
  Files = 3
  Platforms = {"virt", "apple"}
  POLL_LIMIT = 2
  KernelPc = KernelPc
  Strays = {"intid", "line", "serror"}
INVARIANTS ContextsKept NothingLeftActive NeverAstray
PROPERTIES OnlyTicksPreempt
