CONSTANTS
  kDeploy = kDeploy
  kFs = kFs
  kRt = kRt
  deploySh = deploySh
  master = master
  runtime = runtime
  shell = shell
  late = late
  p1 = p1
  p2 = p2
  p3 = p3
  p4 = p4
  Procs <- MCProcs5
  Pids <- MCPids
  PidOf <- DistinctPids
  Keywords <- MCKeywords
  CmdKw <- MCCmdKw
  ArgKw <- MCArgKw
  Yuanrong <- MCYuanrong
  InitAlive <- MCInitAlive
  PidOrder <- MCPidOrder
  RepeatCount = 1
  FailedDone = "fail"
SPECIFICATION SpecCmd
INVARIANT SucceedOnlyWhenStopped
\* No deadlock check: the command has returned in every final state.
CHECK_DEADLOCK FALSE
