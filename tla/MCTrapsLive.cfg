SPECIFICATION TFairSpec
CONSTANTS
  Root = Root
  Tasks = {Root, t1, t2}
  NoTask = NoTask
  Endpoints = {e1}
  Msgs = {m0}
  ZeroMsg = m0
  Files = 1
  Platforms = {"virt", "apple"}
  POLL_LIMIT = 2
  KernelPc = KernelPc
  Strays = {}
PROPERTIES ImplementsKernel ReadyTaskRuns
