SPECIFICATION RFairSpec
CONSTANTS
  Root = Root
  tcb_exit = tcb_exit
  tcb_srv = tcb_srv
  tcb_cl = tcb_cl
  tcb_cl2 = tcb_cl2
  tcb_fault = tcb_fault
  tcb_fp = tcb_fp
  tcb_busy = tcb_busy
  Tasks = {Root, tcb_exit, tcb_srv, tcb_cl, tcb_cl2, tcb_fault, tcb_fp, tcb_busy}
  NoTask = NoTask
  ep = ep
  ep2 = ep2
  Endpoints = {ep, ep2}
  Msgs <- MCMsgs
  ZeroMsg <- MCZeroMsg
  CHILD_EXIT_TARGET = 2
INVARIANTS OnlyRacesFail
PROPERTIES TestEnds
