SPECIFICATION FairSpec
CONSTANTS
  CPU = {c1}
  NPROC = 4
  MaxPid = 4
  Calls = {"fork", "kill", "wait", "exit"}
  Preempted = {"user"}
  KillPids = {3}
  Programs = {"sh"}
  NoCPU = NoCPU
PROPERTIES WaitReturns KilledExits
