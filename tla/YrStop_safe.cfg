CONSTANTS
  kDeploy = kDeploy
  kFs = kFs
  kRt = kRt
  deploySh = deploySh
  master = master
  runtime = runtime
  shell = shell
  late = late
  p1 = p1
  p2 = p2
  p3 = p3
  p4 = p4
  Procs <- MCProcs5
  Pids <- MCPids
  PidOf <- DistinctPids
  Keywords <- MCKeywords
  CmdKw <- MCCmdKw
  ArgKw <- MCArgKw
  Yuanrong <- MCYuanrong
  InitAlive <- MCInitAlive
  PidOrder <- MCPidOrder
  RepeatCount = 1
  FailedDone = "fail"
SPECIFICATION SpecCmd
INVARIANT TypeOKCmd
INVARIANT NoPlatformProcessLeft
INVARIANT EachProcessOnce
INVARIANT OnlyPlatformSignalled
INVARIANT NotFoundOnlyWhenNoneAlive
PROPERTY StopReturns
PROPERTY SpinnerEnds
\* `yr stop` returns and its spinner ends; the node's processes have nothing left to do.
CHECK_DEADLOCK FALSE
