------------------------ MODULE YrStartContractProofs ------------------------
(***************************************************************************)
(* The refinement of StartContract by a `yr start` without --block, for   *)
(* every set of such flag combinations with a verbosity above 0 and every *)
(* existing link, while other `yr start`s (but no `yr stop`) run on the   *)
(* node.                                                                   *)
(*                                                                         *)
(* The step that needs an argument is Help: printMasterStartedHelpMsg     *)
(* returns an error, without clearCmdProcess, when it cannot read the     *)
(* master info behind the link, and the contract allows an error return   *)
(* only once deploy.sh is gone.  So the invariant says why a master that  *)
(* reaches Help with its deploy.sh running can always read the info: it   *)
(* got there through the ready report of its poller, which waited for    *)
(* the info file; and the link it reads is its own, the old master's (a   *)
(* readable one, or the policy check would have ended the command) or    *)
(* another start's, never absent.  When -o names the link path, the link *)
(* is removed by the preparation and is the info file deploy.sh writes.    *)
(*                                                                         *)
(* With --verbose 0 Help always errs (run start_quiet), and a concurrent   *)
(* `yr stop` may remove the link just before Help reads it: in both cases *)
(* the error return leaves deploy.sh running and the contract fails.       *)
(***************************************************************************)
EXTENDS YrStartProofs

(* The main goroutine before and after cmd.Start, and on the link path.   *)
PreExec == {"check", "validate", "deployLink", "prepare", "exec"}
LinkPhase == {"link", "lstat", "remove", "symlink", "help"}

(* The invariant of a non-blocking start without a concurrent stop.        *)
NonBlockInv ==
  /\ flags \in FlagSets
  /\ mpc \in PreExec => /\ deploy = "idle" /\ ppc = "idle" /\ res = "empty"
                        /\ files = {}
  /\ ~handler
  /\ "stopLink" \notin done
  /\ mpc # "wait"
  \* the dump policy, once checkIfNodeAlreadyStartedYuanRong has run
  /\ mpc # "check" => policy # "none"
  /\ mpc \notin {"check", "returned"} => policy # "invalid"
  /\ mpc \in {"lstat", "remove", "symlink"} => /\ policy \in {"new", "replace"}
                                               /\ ~flags.oIsLink
  \* the link Help will read
  /\ ~flags.oIsLink /\ policy = "nothing" => link # "absent"
  /\ mpc = "help" => flags.master /\ (~flags.oIsLink => link # "absent")
  \* with -o naming the link path, the info file deploy.sh writes is the link
  /\ flags.oIsLink /\ "info" \in files => link # "absent"
  /\ link = "old" => /\ oldLink # "absent"
                     /\ mpc \notin {"check", "returned"} => oldLink # "unreadable"
  \* the master info file is there when a running deploy.sh reported ready
  /\ exitChan # "empty" => deploy \notin {"idle", "running"}
  /\ res \in {"ready", "taken"} => ppc = "returned"
  /\ flags.master /\ ppc \in {"scan", "returned"} => "info" \in files
  /\ flags.master /\ mpc \in LinkPhase /\ deploy = "running" => "info" \in files

(* The hypotheses of this module: no --block, no --verbose 0, no yr stop. *)
NonBlocking ==
  /\ \A f \in FlagSets : ~f.block /\ ~f.quiet
  /\ "stop" \notin Others

-----------------------------------------------------------------------------
(* Each step of the main goroutine keeps NonBlockInv.                      *)
LEMMA MainNonBlock ==
  ASSUME NonBlocking, TypeOK, NonBlockInv, Main
  PROVE  NonBlockInv'
<1> USE DEF NonBlockInv, NonBlocking, PreExec, LinkPhase
<1>1. CASE Check
  <2>1. CASE DumpPolicy(InfoOf(link), flags) = "invalid"
    BY <1>1, <2>1 DEF Check, Return
  <2>2. CASE DumpPolicy(InfoOf(link), flags) # "invalid"
    <3>1. /\ mpc = "check"
          /\ policy' = DumpPolicy(InfoOf(link), flags)
          /\ mpc' = "validate"
          /\ UNCHANGED <<flags, oldLink, link, deploy, files, ppc, res,
                         exitChan, handler, done>>
      BY <1>1, <2>2 DEF Check
    <3>2. policy' \in DumpPolicies \ {"invalid"}
      BY <2>2, <3>1, PolicyType DEF TypeOK, InfoOf, LinkInfos
    <3>3. link = "absent" => InfoOf(link) = "absent"
      BY DEF InfoOf
    <3>4. link = "old" => InfoOf(link) = oldLink
      BY DEF InfoOf
    <3>5. \A f \in Flags : /\ DumpPolicy("absent", f) = "new"
                           /\ DumpPolicy("unreadable", f) = "invalid"
      BY DEF DumpPolicy
    <3>6. flags \in Flags
      BY DEF TypeOK
    <3>7. policy' = "nothing" => link # "absent"
      BY <3>1, <3>3, <3>5, <3>6
    <3>8. link = "old" => oldLink # "unreadable"
      BY <2>2, <3>4, <3>5, <3>6
    <3> QED
      BY <3>1, <3>2, <3>7, <3>8 DEF DumpPolicies
  <2> QED
    BY <2>1, <2>2
<1>2. CASE Validate
  BY <1>2 DEF Validate, Return
<1>3. CASE DeployLinkMade
  BY <1>3 DEF DeployLinkMade
<1>4. CASE Prepare
  BY <1>4 DEF Prepare
<1>5. CASE \E at \in {"deployLink", "prepare", "exec"} : SetupError(at)
  BY <1>5 DEF SetupError, Return
<1>6. CASE Exec
  BY <1>6 DEF Exec
<1>7. CASE SelectResult
  BY <1>7 DEF SelectResult, Succeed
<1>8. CASE SelectExit
  BY <1>8 DEF SelectExit, Succeed, Fail
<1>9. CASE SelectTimeout
  BY <1>9 DEF SelectTimeout, Fail
<1>10. CASE LinkStart
  BY <1>10 DEF LinkStart, AfterLink, Return, TypeOK, DumpPolicies
<1>11. CASE LinkLstat
  BY <1>11 DEF LinkLstat
<1>12. CASE LinkRemove
  BY <1>12 DEF LinkRemove, LinkFails, Return
<1>13. CASE LinkSymlink
  BY <1>13 DEF LinkSymlink, LinkFails, AfterLink, Return
<1>14. CASE Help
  BY <1>14 DEF Help, Return
<1>15. CASE Wait
  BY <1>15 DEF Wait
<1> QED
  BY <1>1, <1>2, <1>3, <1>4, <1>5, <1>6, <1>7, <1>8, <1>9, <1>10, <1>11,
     <1>12, <1>13, <1>14, <1>15 DEF Main, DeployLinkFails, ScriptMissing,
     ArgsRejected, PrepareFails, StartFails

(* The poller records the info file before it reports ready; deploy.sh    *)
(* only adds files and fills cmdExitChan as it exits; no handler, no stop. *)
LEMMA OthersNonBlock ==
  ASSUME NonBlocking, TypeOK, NonBlockInv,
         Poller \/ Deadline \/ Interrupt \/ Deploy \/ StopRemovesLink
           \/ StopKills \/ OtherStartLinks
  PROVE  NonBlockInv'
<1> USE DEF NonBlockInv, NonBlocking, PreExec, LinkPhase
<1>1. CASE Poller
  BY <1>1 DEF Poller, PollPid, PollInfo, PollScan, PollBlock
<1>2. CASE Deadline
  BY <1>2 DEF Deadline
<1>3. CASE Interrupt
  BY <1>3 DEF Interrupt
<1>4. CASE Deploy
  BY <1>4 DEF Deploy, WritePid, WriteInfo, WriteLine, DeployExits
<1>5. CASE StopRemovesLink \/ StopKills
  BY <1>5 DEF StopRemovesLink, StopKills
<1>6. CASE OtherStartLinks
  BY <1>6 DEF OtherStartLinks
<1> QED
  BY <1>1, <1>2, <1>3, <1>4, <1>5, <1>6

-----------------------------------------------------------------------------
(* A return of a non-blocking start is the contract's Return when it      *)
(* leaves deploy.sh running only on success.                               *)
LEMMA ReturnRefinesNonBlock ==
  ASSUME NEW r \in {"ok", "err"},
         ~flags.block,
         mpc # "returned", mpc' = "returned", result' = r, flags' = flags,
         deploy' = "idle" <=> deploy = "idle",
         deploy' = "running" <=> deploy = "running" /\ r = "ok"
  PROVE  C!Return(r)
BY DEF C!Return

(* A master that reaches Help with its deploy.sh running can read the     *)
(* master info behind the link.                                            *)
LEMMA HelpReadable ==
  ASSUME NonBlocking, TypeOK, NonBlockInv, mpc = "help", deploy = "running"
  PROVE  InfoReadable
<1>1. link \in {"old", "mine", "other"} /\ "info" \in files
  BY DEF NonBlockInv, LinkPhase, TypeOK
<1>2. link = "old" => oldLink \in {"empty", "agent", "sameMaster", "otherMaster"}
  BY DEF NonBlockInv, TypeOK, LinkInfos
<1> QED
  BY <1>1, <1>2 DEF InfoReadable

(* Each step of the main goroutine of a non-blocking start is a step of   *)
(* the contract or leaves its variables alone.                             *)
LEMMA MainRefinesNonBlock ==
  ASSUME NonBlocking, TypeOK, NonBlockInv, Main
  PROVE  [C!Next]_C!cvars
<1>0. ~flags.block /\ ~flags.quiet
  BY DEF NonBlockInv, NonBlocking
<1> USE <1>0
<1>1. CASE Check
  <2>1. CASE DumpPolicy(InfoOf(link), flags) = "invalid"
    <3>1. C!Return("err")
      BY <1>1, <2>1, ReturnRefinesNonBlock
      DEF Check, Return, NonBlockInv, PreExec
    <3> QED
      BY <3>1 DEF C!Next
  <2>2. CASE DumpPolicy(InfoOf(link), flags) # "invalid"
    BY <1>1, <2>2, StutterRefines DEF Check
  <2> QED
    BY <2>1, <2>2
<1>2. CASE Validate
  <2>1. CASE ~ParamsValid(flags)
    <3>1. C!Return("err")
      BY <1>2, <2>1, ReturnRefinesNonBlock
      DEF Validate, Return, NonBlockInv, PreExec
    <3> QED
      BY <3>1 DEF C!Next
  <2>2. CASE ParamsValid(flags)
    BY <1>2, <2>2, StutterRefines DEF Validate
  <2> QED
    BY <2>1, <2>2
<1>3. CASE DeployLinkMade \/ Prepare \/ LinkLstat
  BY <1>3, StutterRefines DEF DeployLinkMade, Prepare, LinkLstat
<1>4. CASE \E at \in {"deployLink", "prepare", "exec"} : SetupError(at)
  <2>1. C!Return("err")
    BY <1>4, ReturnRefinesNonBlock
    DEF SetupError, Return, NonBlockInv, PreExec
  <2> QED
    BY <2>1 DEF C!Next
<1>5. CASE Exec
  <2>1. C!Launch
    BY <1>5 DEF Exec, NonBlockInv, PreExec, C!Launch
  <2> QED
    BY <2>1 DEF C!Next
<1>6. CASE SelectResult
  BY <1>6, StutterRefines DEF SelectResult, Succeed
<1>7. CASE SelectExit
  <2>1. CASE exitChan = "ok"
    BY <1>7, <2>1, StutterRefines DEF SelectExit, Succeed
  <2>2. CASE exitChan # "ok"
    <3>1. C!Return("err")
      BY <1>7, <2>2, ReturnRefinesNonBlock DEF SelectExit, Fail, TypeOK
    <3> QED
      BY <3>1 DEF C!Next
  <2> QED
    BY <2>1, <2>2
<1>8. CASE SelectTimeout
  <2>1. C!Return("err")
    BY <1>8, ReturnRefinesNonBlock DEF SelectTimeout, Fail, TypeOK
  <2> QED
    BY <2>1 DEF C!Next
<1>9. CASE LinkStart
  <2>1. CASE (flags.oIsLink \/ policy \in {"nothing", "invalid"}) /\ ~flags.master
    <3>1. C!Return("ok")
      BY <1>9, <2>1, ReturnRefinesNonBlock DEF LinkStart, AfterLink, Return
    <3> QED
      BY <3>1 DEF C!Next
  <2>2. CASE ~((flags.oIsLink \/ policy \in {"nothing", "invalid"}) /\ ~flags.master)
    BY <1>9, <2>2, StutterRefines DEF LinkStart, AfterLink
  <2> QED
    BY <2>1, <2>2
<1>10. CASE LinkRemove
  <2>1. CASE link = "absent"
    <3>1. C!Return("ok")
      BY <1>10, <2>1, ReturnRefinesNonBlock DEF LinkRemove, LinkFails, Return
    <3> QED
      BY <3>1 DEF C!Next
  <2>2. CASE link # "absent"
    BY <1>10, <2>2, StutterRefines DEF LinkRemove
  <2> QED
    BY <2>1, <2>2
<1>11. CASE LinkSymlink
  <2>1. CASE link # "absent" \/ ~flags.master
    <3>1. C!Return("ok")
      BY <1>11, <2>1, ReturnRefinesNonBlock
      DEF LinkSymlink, LinkFails, AfterLink, Return
    <3> QED
      BY <3>1 DEF C!Next
  <2>2. CASE link = "absent" /\ flags.master
    BY <1>11, <2>2, StutterRefines DEF LinkSymlink, AfterLink
  <2> QED
    BY <2>1, <2>2
<1>12. CASE Help
  <2>1. CASE InfoReadable
    <3>1. C!Return("ok")
      BY <1>12, <2>1, ReturnRefinesNonBlock DEF Help, Return
    <3> QED
      BY <3>1 DEF C!Next
  <2>2. CASE ~InfoReadable
    <3>1. deploy # "running"
      BY <1>12, <2>2, HelpReadable DEF Help
    <3>2. C!Return("err")
      BY <1>12, <2>2, <3>1, ReturnRefinesNonBlock DEF Help, Return
    <3> QED
      BY <3>2 DEF C!Next
  <2> QED
    BY <2>1, <2>2
<1>13. CASE Wait
  BY <1>13 DEF Wait, NonBlockInv
<1> QED
  BY <1>1, <1>2, <1>3, <1>4, <1>5, <1>6, <1>7, <1>8, <1>9, <1>10, <1>11,
     <1>12, <1>13 DEF Main, DeployLinkFails, ScriptMissing, ArgsRejected,
     PrepareFails, StartFails

(* The poller, the deadline, the other starts and the writes of deploy.sh *)
(* leave the contract alone; deploy.sh's exit ends it; neither the handler *)
(* nor a stop can act.                                                     *)
LEMMA OthersRefineNonBlock ==
  ASSUME NonBlocking, TypeOK, NonBlockInv,
         Poller \/ Deadline \/ Interrupt \/ Deploy \/ StopRemovesLink
           \/ StopKills \/ OtherStartLinks
  PROVE  [C!Next]_C!cvars
<1>1. CASE Poller \/ Deadline \/ OtherStartLinks
  BY <1>1, StutterRefines
  DEF Poller, PollPid, PollInfo, PollScan, Deadline, OtherStartLinks
<1>2. CASE Interrupt \/ StopRemovesLink \/ StopKills
  BY <1>2 DEF Interrupt, StopRemovesLink, StopKills, NonBlockInv, NonBlocking
<1>3. CASE WritePid \/ WriteInfo \/ WriteLine
  BY <1>3, StutterRefines DEF WritePid, WriteInfo, WriteLine
<1>4. CASE \E ok \in BOOLEAN : DeployExits(ok)
  <2>1. C!DeployEnds
    BY <1>4 DEF DeployExits, C!DeployEnds
  <2> QED
    BY <2>1 DEF C!Next
<1> QED
  BY <1>1, <1>2, <1>3, <1>4 DEF Deploy

(* A `yr start` without --block and with a verbosity above 0, while no    *)
(* `yr stop` runs, implements StartContract: it launches deploy.sh once,  *)
(* before returning, returns once, and leaves deploy.sh running only when *)
(* it returns success.  NonBlockInv, with the types, is the invariant the *)
(* step needs.                                                             *)
THEOREM NonBlockingStartKeepsContract ==
  ASSUME \A f \in FlagSets : ~f.block /\ ~f.quiet,
         Others \subseteq {"start"}
  PROVE  Spec => ContractSpec
<1>0. NonBlocking
  BY DEF NonBlocking
<1> DEFINE IInv == TypeOK /\ NonBlockInv
<1>1. Init => IInv
  BY ConstantsAssumption
  DEF IInv, Init, TypeOK, Flags, LinkInfos, NonBlockInv, PreExec, LinkPhase
<1>2. IInv /\ [Next]_vars => IInv'
  <2> SUFFICES ASSUME TypeOK, NonBlockInv, [Next]_vars
               PROVE  NonBlockInv'
    BY TypeStep DEF IInv
  <2>1. CASE Main
    BY <1>0, <2>1, MainNonBlock
  <2>2. CASE Poller \/ Deadline \/ Interrupt \/ Deploy \/ StopRemovesLink
             \/ StopKills \/ OtherStartLinks
    BY <1>0, <2>2, OthersNonBlock
  <2>3. CASE UNCHANGED vars
    BY <2>3 DEF vars, NonBlockInv, PreExec, LinkPhase
  <2> QED
    BY <2>1, <2>2, <2>3 DEF Next
<1>3. Init => C!Init
  BY ConstantsAssumption DEF Init, C!Init, Flags
<1>4. IInv /\ [Next]_vars => [C!Next]_C!cvars
  <2> SUFFICES ASSUME TypeOK, NonBlockInv, [Next]_vars
               PROVE  [C!Next]_C!cvars
    BY DEF IInv
  <2>1. CASE Main
    BY <1>0, <2>1, MainRefinesNonBlock
  <2>2. CASE Poller \/ Deadline \/ Interrupt \/ Deploy \/ StopRemovesLink
             \/ StopKills \/ OtherStartLinks
    BY <1>0, <2>2, OthersRefineNonBlock
  <2>3. CASE UNCHANGED vars
    BY <2>3, StutterRefines DEF vars
  <2> QED
    BY <2>1, <2>2, <2>3 DEF Next
<1> QED
  BY <1>1, <1>2, <1>3, <1>4, PTL DEF Spec, ContractSpec, C!Spec, IInv
=============================================================================
