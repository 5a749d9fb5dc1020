CONSTANTS
  kDeploy = kDeploy
  kFs = kFs
  kRt = kRt
  deploySh = deploySh
  master = master
  runtime = runtime
  shell = shell
  late = late
  p1 = p1
  p2 = p2
  p3 = p3
  p4 = p4
  Procs <- MCProcs5
  Pids <- MCPids
  PidOf <- ReusedPid
  Keywords <- MCKeywords
  CmdKw <- MCCmdKw
  ArgKw <- MCArgKw
  Yuanrong <- MCYuanrong
  InitAlive <- MCInitAlive
  PidOrder <- MCPidOrder
SPECIFICATION Spec
INVARIANT OnlyPlatformSignalled
\* `yr stop` returns; the node's processes have nothing left to do.
CHECK_DEADLOCK FALSE
