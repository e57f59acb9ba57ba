SPECIFICATION Spec
CONSTANTS
  CPU = {c1, c2}
  NPROC = 3
  MaxPid = 4
  Calls = {"fork", "exec", "kill", "wait", "exit", "fault"}
  Preempted = {"user", "embryo", "copied", "started", "wait", "exit"}
  KillPids = {1, 2, 3}
  Programs = {"sh"}
  NoCPU = NoCPU
SYMMETRY Symmetry
INVARIANTS StackExclusive TableExact
