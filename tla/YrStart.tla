------------------------------- MODULE YrStart -------------------------------
(***************************************************************************)
(* One `yr start` (src/.../cmd/start/yr_start.go and utils/cmd_args.go):   *)
(* yrStartYuanRong from the master-info check to its return, with the      *)
(* goroutines ExecCommandUntil starts, the deploy.sh it launches, and the  *)
(* link /tmp/yr_sessions/yr_current_master_info it reads and replaces.     *)
(*                                                                         *)
(* deploy.sh is opaque to the CLI and is modelled by what the CLI sees of  *)
(* it: it writes master_pid_port.txt, the master info file and its         *)
(* "installation" line to deploy_std.log, and exits with status 0 or not.  *)
(* Another `yr stop` or `yr start` on the node may remove or replace the   *)
(* link at any moment.                                                     *)
(***************************************************************************)
EXTENDS Naturals

CONSTANTS
  FlagSets,     \* the flag combinations (--master, --block, ...) to try
  OldLinks,     \* what the link may show when `yr start` begins
  TornWrites,   \* TRUE: deploy.sh may write its ready line in two writes
  Others        \* the concurrent commands: subset of {"stop", "start"}

(* What the link shows: nothing, an unreadable file, an empty file (no   *)
(* key parses), an agent's info, the info of a master of the cluster the   *)
(* flags name, or of another master.                                       *)
LinkInfos == {"absent", "unreadable", "empty", "agent", "sameMaster",
              "otherMaster"}

(* --master, --block, --master_info, --etcd_addr_list given, --verbose 0 *)
(* (quiet), and --master_info_output naming the link path itself (oIsLink). *)
Flags == [master : BOOLEAN, block : BOOLEAN, masterInfo : BOOLEAN,
          etcd : BOOLEAN, quiet : BOOLEAN, oIsLink : BOOLEAN]

ASSUME ConstantsAssumption ==
  /\ FlagSets \subseteq Flags
  /\ OldLinks \subseteq LinkInfos
  /\ TornWrites \in BOOLEAN
  /\ Others \subseteq {"stop", "start"}

VARIABLES
  flags,      \* the command's flags
  oldLink,    \* what an earlier `yr start` left behind the link
  link,       \* the link now: "absent", "old", "mine" or "other"
  mpc,        \* the main goroutine
  policy,     \* the currentMasterInfoDumpPolicy computed at the start
  deploy,     \* deploy.sh: "idle", "running", "exitedOk", "exitedFail", "killed"
  files,      \* the marker files deploy.sh has written: {"pid", "info"}
  logMark,    \* the ready line in deploy_std.log: "none", "half", "full"
  ppc,        \* the stopCond goroutine (the readiness poller)
  readHalf,   \* the poller's scanner returned the first half as a line
  res,        \* resultChan: "empty", "ready" or "taken"
  exitChan,   \* cmdExitChan (also waitChan): "empty", "ok", "fail", "taken"
  timer,      \* the context deadline: "off", "armed", "fired"
  linkErr,    \* yrMakeSymbolLink failed
  handler,    \* blockRun's signal handler is installed
  result,     \* what yr start returned: "none", "ok", "err", "exit0"
  done        \* the concurrent commands that have acted

vars == <<flags, oldLink, link, mpc, policy, deploy, files, logMark, ppc,
          readHalf, res, exitChan, timer, linkErr, handler,
          result, done>>

-----------------------------------------------------------------------------
(* What checkIfNodeAlreadyStartedYuanRong reads behind the link.           *)
InfoOf(l) == CASE l = "absent" -> "absent"
               [] l = "old"    -> oldLink
               [] OTHER        -> "otherMaster"

(* The dump policies, lines 81-88 ("none" before the check).              *)
DumpPolicies == {"nothing", "new", "replace", "invalid"}

(* MasterInfo.IsMasterNode (masterinfo.go 99-113) on the existing info:   *)
(* an agent's info is not a master's; an empty info, whose LocalIP and   *)
(* MasterIP are both "" (line 109), is.                                    *)
IsMasterNode(info) == info \in {"empty", "sameMaster", "otherMaster"}

(* MasterInfo.IsSameCluster (masterinfo.go 115-134) against the incoming  *)
(* info of lines 285-296.  Without --master_info or --etcd_addr_list the   *)
(* incoming info is empty (no etcd list, no master IP), which equals no    *)
(* master's info but equals an empty one (lines 119-121: "" = ""); with  *)
(* them it equals the info of a master of that cluster and no empty info. *)
IsSameCluster(info, f) ==
  IF f.masterInfo \/ f.etcd THEN info = "sameMaster" ELSE info = "empty"

(* checkIfNodeAlreadyStartedYuanRong, lines 258-302: its tests in their   *)
(* order, each an early return.                                            *)
DumpPolicy(info, f) ==
  IF info = "absent" THEN "new"
  ELSE IF info = "unreadable" THEN "invalid"
  ELSE IF ~IsMasterNode(info) THEN "replace"
  ELSE IF IsSameCluster(info, f) THEN "nothing"
  ELSE "replace"

(* validateStartParams, lines 204-222.                                     *)
ParamsValid(f) ==
  /\ ~(f.master /\ f.masterInfo)
  /\ ~(f.etcd /\ f.masterInfo)
  /\ f.master \/ f.etcd \/ f.masterInfo

(* The poller's block argument: the master's poller calls                  *)
(* untilAgentDeploySucceed(ctx, false); the agent's gets yrOpts.block.     *)
PollBlock == ~flags.master /\ flags.block

(* A return of yrStartYuanRong.  In block mode deploy.sh was started with  *)
(* Pdeathsig SIGTERM, so the exit of the CLI takes it down.                *)
Return(r) ==
  /\ mpc' = "returned"
  /\ result' = r
  /\ deploy' = IF flags.block /\ deploy = "running" THEN "killed" ELSE deploy

Init ==
  /\ flags \in FlagSets
  /\ oldLink \in OldLinks
  /\ link = IF oldLink = "absent" THEN "absent" ELSE "old"
  /\ mpc = "check"
  /\ policy = "none"
  /\ deploy = "idle"
  /\ files = {}
  /\ logMark = "none"
  /\ ppc = "idle"
  /\ readHalf = FALSE
  /\ res = "empty"
  /\ exitChan = "empty"
  /\ timer = "off"
  /\ linkErr = FALSE
  /\ handler = FALSE
  /\ result = "none"
  /\ done = {}

(* Lines 231-234: the policy is computed from what the link shows now; an  *)
(* unreadable info file ends the command.                                  *)
Check ==
  /\ mpc = "check"
  /\ policy' = DumpPolicy(InfoOf(link), flags)
  /\ IF policy' = "invalid"
       THEN Return("err")
       ELSE mpc' = "validate" /\ UNCHANGED <<result, deploy>>
  /\ UNCHANGED <<flags, oldLink, link, files, logMark, ppc, readHalf, res,
                 exitChan, timer, linkErr, handler, done>>

(* Lines 236-241: yrProcessDeployArgs fills in paths; the flags are       *)
(* validated.                                                              *)
Validate ==
  /\ mpc = "validate"
  /\ IF ParamsValid(flags)
       THEN mpc' = "deployLink" /\ UNCHANGED <<result, deploy>>
       ELSE Return("err")
  /\ UNCHANGED <<flags, oldLink, link, policy, files, logMark, ppc, readHalf,
                 res, exitChan, timer, linkErr, handler, done>>

(* Lines 243-245: the deploy-path link is made (its own link, not the     *)
(* master info one).                                                       *)
DeployLinkMade ==
  /\ mpc = "deployLink"
  /\ mpc' = "prepare"
  /\ UNCHANGED <<flags, oldLink, link, policy, deploy, files, logMark, ppc,
                 readHalf, res, exitChan, timer, linkErr,
                 handler, result, done>>

(* Lines 424-447 (master) and 634-663 (agent): the script is found, the   *)
(* working dir prepared (old marker files removed, the master info output *)
(* removed by RemoveAll at line 400, which is the link itself when -o      *)
(* names it, the log truncated), and for a blocking master blockRun       *)
(* installs its signal handler.                                            *)
Prepare ==
  /\ mpc = "prepare"
  /\ mpc' = "exec"
  /\ link' = IF flags.oIsLink THEN "absent" ELSE link
  /\ handler' = (flags.master /\ flags.block)
  /\ UNCHANGED <<flags, oldLink, policy, deploy, files, logMark, ppc,
                 readHalf, res, exitChan, timer, linkErr,
                 result, done>>

(* The setup error returns.  Nothing has been started yet.                *)
SetupError(at) ==
  /\ mpc = at
  /\ Return("err")
  /\ UNCHANGED <<flags, oldLink, link, policy, files, logMark, ppc, readHalf,
                 res, exitChan, timer, linkErr, handler, done>>

(* Line 244: making the deploy-path link fails.                           *)
DeployLinkFails == SetupError("deployLink")

(* concatMasterDeployCmd, lines 484-489 (and 634-639 for the agent): no    *)
(* deploy.sh under the installation directory.                            *)
ScriptMissing == SetupError("prepare")

(* concatArgs, lines 713-746: ParamCheck rejects an argument.             *)
ArgsRejected == SetupError("prepare")

(* prepareDeployWorkingDir, lines 389-420: a MkdirAll, RemoveAll or the   *)
(* OpenFile of deploy_std.log fails.                                       *)
PrepareFails == SetupError("prepare")

(* cmd_args.go:49-52: cmd.Start fails.                                     *)
StartFails == SetupError("exec")

(* Mutant: the deadline is armed in block mode instead.                   *)
ExecNoDeadline ==
  /\ mpc = "exec"
  /\ mpc' = "select"
  /\ deploy' = "running"
  /\ timer' = IF flags.block THEN "armed" ELSE "off"
  /\ ppc' = IF flags.master THEN "waitPid" ELSE "scan"
  /\ UNCHANGED <<flags, oldLink, link, policy, files, logMark, readHalf, res,
                 exitChan, linkErr, handler, result, done>>

(* cmd_args.go:49-71: deploy.sh is started, the deadline armed unless in  *)
(* block mode, and the stopCond and cmd.Wait goroutines started.  The      *)
(* master's stopCond waits for the marker files first (lines 588-604).     *)
Exec ==
  /\ mpc = "exec"
  /\ mpc' = "select"
  /\ deploy' = "running"
  /\ timer' = IF ~flags.block THEN "armed" ELSE "off"
  /\ ppc' = IF flags.master THEN "waitPid" ELSE "scan"
  /\ UNCHANGED <<flags, oldLink, link, policy, files, logMark, readHalf, res,
                 exitChan, linkErr, handler, result, done>>

(* Mutant: the failure path returns without clearCmdProcess.              *)
FailWithoutClear ==
  /\ mpc' = "returned"
  /\ result' = "err"
  /\ deploy' = deploy

(* Lines 452-458 (master) and 667-668 (agent): on an error from           *)
(* ExecCommandUntil, clearCmdProcess kills deploy.sh and the error is     *)
(* returned.                                                               *)
Fail ==
  /\ mpc' = "returned"
  /\ result' = "err"
  /\ deploy' = IF deploy = "running" THEN "killed" ELSE deploy

(* The select of cmd_args.go:73-80 received nil: the master and the agent *)
(* path both go on to yrMakeSymbolLink (lines 461 and 252).                *)
Succeed ==
  /\ mpc' = "link"
  /\ UNCHANGED <<result, deploy>>

(* cmd_args.go:74: stopCond reported the deploy ready.                     *)
SelectResult ==
  /\ mpc = "select"
  /\ res = "ready"
  /\ res' = "taken"
  /\ Succeed
  /\ UNCHANGED <<flags, oldLink, link, policy, files, logMark, ppc, readHalf,
                 exitChan, timer, linkErr, handler, done>>

(* cmd_args.go:76: deploy.sh exited first; status 0 counts as success.     *)
(* The value is consumed: waitChan, returned with it, is now empty.        *)
SelectExit ==
  /\ mpc = "select"
  /\ exitChan \in {"ok", "fail"}
  /\ exitChan' = "taken"
  /\ IF exitChan = "ok" THEN Succeed ELSE Fail
  /\ UNCHANGED <<flags, oldLink, link, policy, files, logMark, ppc, readHalf,
                 res, timer, linkErr, handler, done>>

(* cmd_args.go:78-79: the deadline passed.                                 *)
SelectTimeout ==
  /\ mpc = "select"
  /\ timer = "fired"
  /\ Fail
  /\ UNCHANGED <<flags, oldLink, link, policy, files, logMark, ppc, readHalf,
                 res, exitChan, timer, linkErr, handler, done>>

(* After the link step: the master prints its help message (line 467 or   *)
(* 478); the agent returns nil (line 255).                                 *)
AfterLink ==
  IF flags.master
    THEN mpc' = "help" /\ UNCHANGED <<result, deploy>>
    ELSE Return("ok")

(* yrMakeSymbolLink, lines 546-551: nothing is linked when -o names the   *)
(* link path (line 547); otherwise Nothing and Invalid leave the link, and *)
(* Replace (after its note, line 567 falls through) and New replace it.    *)
LinkStart ==
  /\ mpc = "link"
  /\ IF flags.oIsLink \/ policy \in {"nothing", "invalid"}
       THEN AfterLink
       ELSE mpc' = "lstat" /\ UNCHANGED <<result, deploy>>
  /\ UNCHANGED <<flags, oldLink, link, policy, files, logMark, ppc, readHalf,
                 res, exitChan, timer, linkErr, handler, done>>

(* yrMakeSymbolLink failed (lines 569-572): the master warns and returns  *)
(* nil (lines 461-465); the agent warns and returns nil (252-255).         *)
LinkFails ==
  /\ linkErr' = TRUE
  /\ Return("ok")
  /\ UNCHANGED link

(* symbollink.go:27-28, 45-47: Lstat.                                      *)
LinkLstat ==
  /\ mpc = "lstat"
  /\ mpc' = IF link = "absent" THEN "symlink" ELSE "remove"
  /\ UNCHANGED <<flags, oldLink, link, policy, deploy, files, logMark, ppc,
                 readHalf, res, exitChan, timer, linkErr,
                 handler, result, done>>

(* symbollink.go:29-44: the link seen by Lstat is removed; if someone     *)
(* removed it since, Remove fails.                                         *)
LinkRemove ==
  /\ mpc = "remove"
  /\ IF link = "absent"
       THEN LinkFails
       ELSE /\ link' = "absent"
            /\ mpc' = "symlink"
            /\ UNCHANGED <<linkErr, result, deploy>>
  /\ UNCHANGED <<flags, oldLink, policy, files, logMark, ppc, readHalf, res,
                 exitChan, timer, handler, done>>

(* symbollink.go:49-52: Symlink fails with EEXIST if a link appeared.      *)
LinkSymlink ==
  /\ mpc = "symlink"
  /\ IF link # "absent"
       THEN LinkFails
       ELSE /\ link' = "mine"
            /\ linkErr' = FALSE
            /\ AfterLink
  /\ UNCHANGED <<flags, oldLink, policy, files, logMark, ppc, readHalf, res,
                 exitChan, timer, handler, done>>

(* GetMasterInfoString on the link succeeds: it names a file that exists  *)
(* and parses.  This command's own info file exists once deploy.sh wrote  *)
(* it.                                                                     *)
InfoReadable ==
  CASE link = "mine"  -> "info" \in files
    [] link = "old"   -> oldLink \in {"empty", "agent", "sameMaster",
                                     "otherMaster"}
    [] link = "other" -> TRUE
    [] OTHER          -> FALSE

(* printMasterStartedHelpMsg, lines 315-352: nil only when the info is    *)
(* read AND verbose > 0.  Without block its result is returned (line      *)
(* 478); with block an error is returned (468-470), nil goes on to wait.  *)
Help ==
  /\ mpc = "help"
  /\ IF InfoReadable /\ ~flags.quiet
       THEN IF flags.block
              THEN mpc' = "wait" /\ UNCHANGED <<result, deploy>>
              ELSE Return("ok")
       ELSE Return("err")
  /\ UNCHANGED <<flags, oldLink, link, policy, files, logMark, ppc, readHalf,
                 res, exitChan, timer, linkErr, handler, done>>

(* Line 473: `return <-waitChan` receives deploy.sh's exit status; if the *)
(* select already consumed it, nothing ever comes.                         *)
Wait ==
  /\ mpc = "wait"
  /\ exitChan \in {"ok", "fail"}
  /\ exitChan' = "taken"
  /\ Return(IF exitChan = "ok" THEN "ok" ELSE "err")
  /\ UNCHANGED <<flags, oldLink, link, policy, files, logMark, ppc, readHalf,
                 res, timer, linkErr, handler, done>>

(* Mutant: the handler acts after yrStartYuanRong has returned.          *)
InterruptAfterReturn ==
  /\ handler
  /\ "signal" \notin done
  /\ done' = done \cup {"signal"}
  /\ link' = "absent"
  /\ mpc' = "returned"
  /\ result' = "exit0"
  /\ deploy' = IF deploy = "running" THEN "killed" ELSE deploy
  /\ UNCHANGED <<flags, oldLink, policy, files, logMark, ppc, readHalf, res,
                 exitChan, timer, linkErr, handler>>

(* blockRun's goroutine, lines 509-520: on SIGINT or SIGTERM it removes   *)
(* the master info link, whatever it points to, and exits 0; Pdeathsig    *)
(* takes deploy.sh down.                                                   *)
Interrupt ==
  /\ handler
  /\ mpc # "returned"
  /\ "signal" \notin done
  /\ done' = done \cup {"signal"}
  /\ link' = "absent"
  /\ mpc' = "returned"
  /\ result' = "exit0"
  /\ deploy' = IF deploy = "running" THEN "killed" ELSE deploy
  /\ UNCHANGED <<flags, oldLink, policy, files, logMark, ppc, readHalf, res,
                 exitChan, timer, linkErr, handler>>

-----------------------------------------------------------------------------
(* deploy.sh, as the CLI sees it.  The master's writes master_pid_port.txt *)
(* and then the master info file.                                          *)
WritePid ==
  /\ deploy = "running"
  /\ flags.master
  /\ "pid" \notin files
  /\ files' = files \cup {"pid"}
  /\ UNCHANGED <<flags, oldLink, link, mpc, policy, deploy, logMark, ppc,
                 readHalf, res, exitChan, timer, linkErr,
                 handler, result, done>>

(* It writes the info to the --master_info_output path (line 722), which *)
(* then holds this command's info when -o names the link path.            *)
WriteInfo ==
  /\ deploy = "running"
  /\ "pid" \in files
  /\ "info" \notin files
  /\ files' = files \cup {"info"}
  /\ link' = IF flags.oIsLink THEN "mine" ELSE link
  /\ UNCHANGED <<flags, oldLink, mpc, policy, deploy, logMark, ppc,
                 readHalf, res, exitChan, timer, linkErr,
                 handler, result, done>>

(* The line with "yuanrong data plane components installation" reaches    *)
(* deploy_std.log, whole or (TornWrites) in two writes.                    *)
WriteLine ==
  /\ deploy = "running"
  /\ \/ logMark = "none" /\ logMark' = "full"
     \/ logMark = "none" /\ TornWrites /\ logMark' = "half"
     \/ logMark = "half" /\ logMark' = "full"
  /\ UNCHANGED <<flags, oldLink, link, mpc, policy, deploy, files, ppc,
                 readHalf, res, exitChan, timer, linkErr,
                 handler, result, done>>

(* deploy.sh exits; the cmd.Wait goroutine (cmd_args.go:69-71) puts its   *)
(* status in the buffered cmdExitChan.                                     *)
DeployExits(ok) ==
  /\ deploy = "running"
  /\ deploy' = IF ok THEN "exitedOk" ELSE "exitedFail"
  /\ exitChan' = IF ok THEN "ok" ELSE "fail"
  /\ UNCHANGED <<flags, oldLink, link, mpc, policy, files, logMark, ppc,
                 readHalf, res, timer, linkErr, handler,
                 result, done>>

-----------------------------------------------------------------------------
(* The stopCond goroutine.  untilMasterDeploySucceed, lines 588-604: it    *)
(* waits for master_pid_port.txt, then the master info file, and then     *)
(* runs untilAgentDeploySucceed(ctx, false).                               *)
PollPid ==
  /\ ppc = "waitPid"
  /\ "pid" \in files
  /\ ppc' = "waitInfo"
  /\ UNCHANGED <<flags, oldLink, link, mpc, policy, deploy, files, logMark,
                 readHalf, res, exitChan, timer, linkErr,
                 handler, result, done>>

PollInfo ==
  /\ ppc = "waitInfo"
  /\ "info" \in files
  /\ ppc' = "scan"
  /\ UNCHANGED <<flags, oldLink, link, mpc, policy, deploy, files, logMark,
                 readHalf, res, exitChan, timer, linkErr,
                 handler, result, done>>

(* untilAgentDeploySucceed, lines 606-631: a Scanner reads the log to EOF, *)
(* and a fresh one goes on from the file offset.  At EOF the Scanner      *)
(* returns an unterminated tail as a last line: a half-written ready line  *)
(* is consumed then, and its second half never matches.  With block the   *)
(* line is never accepted.                                                 *)
PollScan ==
  /\ ppc = "scan"
  /\ ~readHalf
  /\ \/ logMark = "full" /\ ~PollBlock /\ ppc' = "returned" /\ res' = "ready"
        /\ UNCHANGED readHalf
     \/ logMark = "half" /\ readHalf' = TRUE /\ UNCHANGED <<ppc, res>>
  /\ UNCHANGED <<flags, oldLink, link, mpc, policy, deploy, files, logMark,
                 exitChan, timer, linkErr, handler, result,
                 done>>

Poller == PollPid \/ PollInfo \/ PollScan

(* The 120 s deadline (DeployReadyCheckTimeoutS) passes.  Against the     *)
(* 500 ms poll it is long: it is taken to pass only while the command has *)
(* nothing left to do, so a ready line written in time is always seen.     *)
Deadline ==
  /\ timer = "armed"
  /\ mpc = "select"
  /\ res # "ready"
  /\ exitChan \notin {"ok", "fail"}
  /\ ~ENABLED Poller
  /\ timer' = "fired"
  /\ UNCHANGED <<flags, oldLink, link, mpc, policy, deploy, files, logMark,
                 ppc, readHalf, res, exitChan, linkErr, handler,
                 result, done>>

-----------------------------------------------------------------------------
(* Another command on the node.  `yr stop` removes the link               *)
(* (yr_stop.go:109-115) and later kills the deploy processes it finds.    *)
(* Another `yr start` replaces the link (lines 569-570).                   *)
StopRemovesLink ==
  /\ "stop" \in Others
  /\ "stopLink" \notin done
  /\ done' = done \cup {"stopLink"}
  /\ link' = "absent"
  /\ UNCHANGED <<flags, oldLink, mpc, policy, deploy, files, logMark, ppc,
                 readHalf, res, exitChan, timer, linkErr,
                 handler, result>>

StopKills ==
  /\ "stopLink" \in done
  /\ "stopKill" \notin done
  /\ done' = done \cup {"stopKill"}
  /\ deploy' = IF deploy = "running" THEN "killed" ELSE deploy
  /\ exitChan' = IF deploy = "running" THEN "fail" ELSE exitChan
  /\ UNCHANGED <<flags, oldLink, link, mpc, policy, files, logMark, ppc,
                 readHalf, res, timer, linkErr, handler,
                 result>>

OtherStartLinks ==
  /\ "start" \in Others
  /\ "start" \notin done
  /\ done' = done \cup {"start"}
  /\ link' = "other"
  /\ UNCHANGED <<flags, oldLink, mpc, policy, deploy, files, logMark, ppc,
                 readHalf, res, exitChan, timer, linkErr,
                 handler, result>>

-----------------------------------------------------------------------------
(* The steps of the `yr start` process itself.                             *)
Main ==
  \/ Check \/ Validate \/ DeployLinkMade \/ DeployLinkFails \/ Prepare
  \/ ScriptMissing \/ ArgsRejected \/ PrepareFails \/ Exec \/ StartFails
  \/ SelectResult \/ SelectExit \/ SelectTimeout
  \/ LinkStart \/ LinkLstat \/ LinkRemove \/ LinkSymlink \/ Help \/ Wait

Deploy ==
  WritePid \/ WriteInfo \/ WriteLine \/ \E ok \in BOOLEAN : DeployExits(ok)

Next ==
  \/ Main \/ Poller \/ Deadline \/ Interrupt \/ Deploy
  \/ StopRemovesLink \/ StopKills \/ OtherStartLinks

(* The Go scheduler runs the main goroutine and the poller, and time      *)
(* passes.  deploy.sh, the user and the other commands owe nothing.        *)
Spec ==
  /\ Init /\ [][Next]_vars
  /\ WF_vars(Main) /\ WF_vars(Poller) /\ WF_vars(Deadline)

-----------------------------------------------------------------------------
(* The type invariant.                                                     *)
TypeOK ==
  /\ flags \in Flags
  /\ oldLink \in LinkInfos
  /\ link \in {"absent", "old", "mine", "other"}
  /\ mpc \in {"check", "validate", "deployLink", "prepare", "exec", "select",
              "link", "lstat", "remove", "symlink", "help", "wait",
              "returned"}
  /\ policy \in DumpPolicies \cup {"none"}
  /\ deploy \in {"idle", "running", "exitedOk", "exitedFail", "killed"}
  /\ files \subseteq {"pid", "info"}
  /\ logMark \in {"none", "half", "full"}
  /\ ppc \in {"idle", "waitPid", "waitInfo", "scan", "returned"}
  /\ readHalf \in BOOLEAN
  /\ res \in {"empty", "ready", "taken"}
  /\ exitChan \in {"empty", "ok", "fail", "taken"}
  /\ timer \in {"off", "armed", "fired"}
  /\ linkErr \in BOOLEAN
  /\ handler \in BOOLEAN
  /\ result \in {"none", "ok", "err", "exit0"}
  /\ done \subseteq {"signal", "stopLink", "stopKill", "start"}

(* Without --block, an error returned by yr start leaves no deploy.sh of  *)
(* its own running: every failure after cmd.Start goes through            *)
(* clearCmdProcess.                                                        *)
ErrorLeavesNothingRunning ==
  (result = "err" /\ ~flags.block) => deploy # "running"

(* TestYrDeployMaster: "When yrMakeSymbolLink returns an error, the error *)
(* should be propagated" by a master start.                               *)
SymlinkErrorPropagated ==
  (flags.master /\ mpc = "returned" /\ linkErr) => result = "err"

(* Without --block, yr start returns: the deadline bounds the wait.       *)
ReturnsEventually == <>(mpc = "returned")

(* With --block (line 471, "when block, wait here"), yr start returns     *)
(* once its deploy.sh has exited.                                          *)
BlockReturnsAfterExit ==
  (deploy \in {"exitedOk", "exitedFail"}) ~> (mpc = "returned")

(* The refinement mapping to the contract of a start: deploy.sh was       *)
(* launched once it left "idle", runs while "running", and the command has *)
(* returned when the main goroutine has.                                   *)
C == INSTANCE StartContract
       WITH block <- flags.block, launched <- deploy # "idle",
            running <- deploy = "running", returned <- mpc = "returned"

(* yr start keeps the contract of StartContract: deploy.sh is launched     *)
(* once, before the return; the command returns once; with --block its     *)
(* deploy.sh ends with it (Pdeathsig, the handler's exit), without --block *)
(* an error return goes with clearCmdProcess.                              *)
ContractSpec == C!Spec
=============================================================================
