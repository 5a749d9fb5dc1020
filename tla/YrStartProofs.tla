---------------------------- MODULE YrStartProofs ----------------------------
(***************************************************************************)
(* Proofs about one `yr start` (YrStart), for every set of flag            *)
(* combinations, existing links and concurrent commands.                   *)
(***************************************************************************)
EXTENDS YrStart, TLAPS

(* The values the policy, the results and the main goroutine can take.     *)
LEMMA PolicyType ==
  ASSUME NEW info \in LinkInfos, NEW f \in Flags
  PROVE  DumpPolicy(info, f) \in DumpPolicies
BY DEF DumpPolicy, DumpPolicies, IsMasterNode, IsSameCluster

(* Each step of the main goroutine keeps the types.                        *)
LEMMA MainTyped ==
  ASSUME TypeOK, Main
  PROVE  TypeOK'
<1> USE DEF TypeOK, LinkInfos, DumpPolicies
<1>1. CASE Check
  <2>1. policy' \in DumpPolicies
    BY <1>1, PolicyType DEF Check, InfoOf
  <2> QED
    BY <1>1, <2>1 DEF Check, Return
<1>2. CASE Validate
  BY <1>2 DEF Validate, Return
<1>3. CASE DeployLinkMade
  BY <1>3 DEF DeployLinkMade
<1>4. CASE Prepare
  BY <1>4 DEF Prepare
<1>5. CASE \E at \in {"deployLink", "prepare", "exec"} : SetupError(at)
  BY <1>5 DEF SetupError, Return
<1>6. CASE Exec
  BY <1>6 DEF Exec
<1>7. CASE SelectResult
  BY <1>7 DEF SelectResult, Succeed
<1>8. CASE SelectExit
  BY <1>8 DEF SelectExit, Succeed, Fail
<1>9. CASE SelectTimeout
  BY <1>9 DEF SelectTimeout, Fail
<1>10. CASE LinkStart
  BY <1>10 DEF LinkStart, AfterLink, Return
<1>11. CASE LinkLstat
  BY <1>11 DEF LinkLstat
<1>12. CASE LinkRemove
  <2>1. CASE link = "absent"
    BY <1>12, <2>1 DEF LinkRemove, LinkFails, Return
  <2>2. CASE link # "absent"
    BY <1>12, <2>2 DEF LinkRemove
  <2> QED
    BY <2>1, <2>2
<1>13. CASE LinkSymlink
  <2>1. CASE link # "absent"
    BY <1>13, <2>1 DEF LinkSymlink, LinkFails, Return
  <2>2. CASE link = "absent" /\ flags.master
    <3>1. mpc' = "help" /\ result' = result /\ deploy' = deploy
      BY <1>13, <2>2 DEF LinkSymlink, AfterLink
    <3>2. link' = "mine" /\ linkErr' \in BOOLEAN
      BY <1>13, <2>2 DEF LinkSymlink
    <3>3. UNCHANGED <<flags, oldLink, policy, files, logMark, ppc, readHalf,
                      res, exitChan, timer, handler, done>>
      BY <1>13 DEF LinkSymlink
    <3> QED
      BY <3>1, <3>2, <3>3
  <2>3. CASE link = "absent" /\ ~flags.master
    <3>1. mpc' = "returned" /\ result' = "ok" /\ deploy' \in {deploy, "killed"}
      BY <1>13, <2>3 DEF LinkSymlink, AfterLink, Return
    <3>2. link' = "mine" /\ linkErr' \in BOOLEAN
      BY <1>13, <2>3 DEF LinkSymlink
    <3>3. UNCHANGED <<flags, oldLink, policy, files, logMark, ppc, readHalf,
                      res, exitChan, timer, handler, done>>
      BY <1>13 DEF LinkSymlink
    <3> QED
      BY <3>1, <3>2, <3>3
  <2> QED
    BY <2>1, <2>2, <2>3
<1>14. CASE Help
  BY <1>14 DEF Help, Return
<1>15. CASE Wait
  BY <1>15 DEF Wait, Return
<1> QED
  BY <1>1, <1>2, <1>3, <1>4, <1>5, <1>6, <1>7, <1>8, <1>9, <1>10, <1>11,
     <1>12, <1>13, <1>14, <1>15 DEF Main, DeployLinkFails, ScriptMissing,
     ArgsRejected, PrepareFails, StartFails

(* The poller, the deadline, deploy.sh, Ctrl-C and the other commands keep *)
(* the types.                                                              *)
LEMMA OthersTyped ==
  ASSUME TypeOK, Poller \/ Deadline \/ Interrupt \/ Deploy \/ StopRemovesLink
                 \/ StopKills \/ OtherStartLinks
  PROVE  TypeOK'
<1> USE DEF TypeOK, LinkInfos, DumpPolicies
<1>1. CASE PollPid
  BY <1>1 DEF PollPid
<1>9. CASE PollInfo
  BY <1>9 DEF PollInfo
<1>2. CASE PollScan
  <2>1. CASE logMark = "full"
    <3>1. ppc' = "returned" /\ res' = "ready" /\ readHalf' = readHalf
      BY <1>2, <2>1 DEF PollScan
    <3> QED
      BY <1>2, <3>1 DEF PollScan
  <2>2. CASE logMark # "full"
    <3>1. readHalf' = TRUE /\ ppc' = ppc /\ res' = res
      BY <1>2, <2>2 DEF PollScan
    <3> QED
      BY <1>2, <3>1 DEF PollScan
  <2> QED
    BY <2>1, <2>2
<1>3. CASE Deadline
  BY <1>3 DEF Deadline
<1>4. CASE Interrupt
  BY <1>4 DEF Interrupt
<1>5. CASE WritePid
  BY <1>5 DEF WritePid
<1>10. CASE WriteInfo
  BY <1>10 DEF WriteInfo
<1>6. CASE WriteLine
  BY <1>6 DEF WriteLine
<1>7. CASE \E ok \in BOOLEAN : DeployExits(ok)
  BY <1>7 DEF DeployExits
<1>8. CASE StopRemovesLink
  BY <1>8 DEF StopRemovesLink
<1>11. CASE StopKills
  BY <1>11 DEF StopKills
<1>12. CASE OtherStartLinks
  BY <1>12 DEF OtherStartLinks
<1> QED
  BY <1>1, <1>2, <1>3, <1>4, <1>5, <1>6, <1>7, <1>8, <1>9, <1>10, <1>11,
     <1>12 DEF Poller, Deploy

(* A step of any actor, or a stuttering step, keeps the types.           *)
LEMMA TypeStep == TypeOK /\ [Next]_vars => TypeOK'
<1> SUFFICES ASSUME TypeOK, [Next]_vars PROVE TypeOK'
  OBVIOUS
<1>1. CASE Main
  BY <1>1, MainTyped
<1>2. CASE Poller \/ Deadline \/ Interrupt \/ Deploy \/ StopRemovesLink
           \/ StopKills \/ OtherStartLinks
  BY <1>2, OthersTyped
<1>3. CASE UNCHANGED vars
  BY <1>3 DEF vars, TypeOK
<1> QED
  BY <1>1, <1>2, <1>3 DEF Next

(* yr start's variables keep their types: Init starts typed and every step *)
(* of the command, its goroutines, deploy.sh and the other commands keeps  *)
(* them so.                                                                *)
THEOREM TypeCorrect == Spec => []TypeOK
<1>1. Init => TypeOK
  BY ConstantsAssumption DEF Init, TypeOK, Flags, LinkInfos
<1> QED
  BY <1>1, TypeStep, PTL DEF Spec

-----------------------------------------------------------------------------
(* The refinement of StartContract by blocking starts.  Before Exec no     *)
(* deploy.sh has been started, so Exec is the contract's one Launch.       *)
ExecInv ==
  /\ flags \in FlagSets
  /\ mpc \in {"check", "validate", "deployLink", "prepare", "exec"}
       => deploy = "idle"

(* Each step of the main goroutine keeps ExecInv.                          *)
LEMMA MainExec ==
  ASSUME TypeOK, ExecInv, Main
  PROVE  ExecInv'
<1> USE DEF ExecInv
<1>1. CASE Check
  BY <1>1 DEF Check, Return
<1>2. CASE Validate
  BY <1>2 DEF Validate, Return
<1>3. CASE DeployLinkMade
  BY <1>3 DEF DeployLinkMade
<1>4. CASE Prepare
  BY <1>4 DEF Prepare
<1>5. CASE \E at \in {"deployLink", "prepare", "exec"} : SetupError(at)
  BY <1>5 DEF SetupError, Return
<1>6. CASE Exec
  BY <1>6 DEF Exec
<1>7. CASE SelectResult
  BY <1>7 DEF SelectResult, Succeed
<1>8. CASE SelectExit
  BY <1>8 DEF SelectExit, Succeed, Fail
<1>9. CASE SelectTimeout
  BY <1>9 DEF SelectTimeout, Fail
<1>10. CASE LinkStart
  BY <1>10 DEF LinkStart, AfterLink, Return
<1>11. CASE LinkLstat
  BY <1>11 DEF LinkLstat
<1>12. CASE LinkRemove
  BY <1>12 DEF LinkRemove, LinkFails, Return
<1>13. CASE LinkSymlink
  BY <1>13 DEF LinkSymlink, LinkFails, AfterLink, Return
<1>14. CASE Help
  BY <1>14 DEF Help, Return
<1>15. CASE Wait
  BY <1>15 DEF Wait, Return
<1> QED
  BY <1>1, <1>2, <1>3, <1>4, <1>5, <1>6, <1>7, <1>8, <1>9, <1>10, <1>11,
     <1>12, <1>13, <1>14, <1>15 DEF Main, DeployLinkFails, ScriptMissing,
     ArgsRejected, PrepareFails, StartFails

(* The other actors change deploy.sh only once it runs, which is after     *)
(* Exec, or end the command.                                               *)
LEMMA OthersExec ==
  ASSUME TypeOK, ExecInv,
         Poller \/ Deadline \/ Interrupt \/ Deploy \/ StopRemovesLink
           \/ StopKills \/ OtherStartLinks
  PROVE  ExecInv'
<1> USE DEF ExecInv
<1>1. CASE Poller
  BY <1>1 DEF Poller, PollPid, PollInfo, PollScan
<1>2. CASE Deadline
  BY <1>2 DEF Deadline
<1>3. CASE Interrupt
  BY <1>3 DEF Interrupt
<1>4. CASE Deploy
  BY <1>4 DEF Deploy, WritePid, WriteInfo, WriteLine, DeployExits
<1>5. CASE StopRemovesLink \/ StopKills \/ OtherStartLinks
  BY <1>5 DEF StopRemovesLink, StopKills, OtherStartLinks
<1> QED
  BY <1>1, <1>2, <1>3, <1>4, <1>5

(* A return of a blocking start is the contract's Return: deploy.sh, if   *)
(* it runs, is killed, and the result is set once.                         *)
LEMMA ReturnRefines ==
  ASSUME NEW r \in {"ok", "err", "exit0"},
         TypeOK, flags.block,
         mpc # "returned", mpc' = "returned", result' = r, flags' = flags,
         deploy' = IF deploy = "running" THEN "killed" ELSE deploy
  PROVE  C!Return(r)
BY DEF C!Return, TypeOK

(* A step that neither returns nor touches deploy.sh is a contract stutter. *)
LEMMA StutterRefines ==
  ASSUME flags' = flags, deploy' = deploy, result' = result,
         mpc' = "returned" <=> mpc = "returned"
  PROVE  UNCHANGED C!cvars
BY DEF C!cvars

(* Each step of the main goroutine of a blocking start is a step of the    *)
(* contract or leaves its variables alone.                                 *)
LEMMA MainRefines ==
  ASSUME \A f \in FlagSets : f.block,
         TypeOK, ExecInv, Main
  PROVE  [C!Next]_C!cvars
<1>0. flags.block
  BY DEF ExecInv
<1> USE <1>0
<1>1. CASE Check
  <2>1. CASE DumpPolicy(InfoOf(link), flags) = "invalid"
    <3>1. C!Return("err")
      BY <1>1, <2>1, ReturnRefines DEF Check, Return
    <3> QED
      BY <3>1 DEF C!Next
  <2>2. CASE DumpPolicy(InfoOf(link), flags) # "invalid"
    BY <1>1, <2>2, StutterRefines DEF Check
  <2> QED
    BY <2>1, <2>2
<1>2. CASE Validate
  <2>1. CASE ~ParamsValid(flags)
    <3>1. C!Return("err")
      BY <1>2, <2>1, ReturnRefines DEF Validate, Return
    <3> QED
      BY <3>1 DEF C!Next
  <2>2. CASE ParamsValid(flags)
    BY <1>2, <2>2, StutterRefines DEF Validate
  <2> QED
    BY <2>1, <2>2
<1>3. CASE DeployLinkMade
  BY <1>3, StutterRefines DEF DeployLinkMade
<1>4. CASE Prepare
  BY <1>4, StutterRefines DEF Prepare
<1>5. CASE \E at \in {"deployLink", "prepare", "exec"} : SetupError(at)
  <2>1. C!Return("err")
    BY <1>5, ReturnRefines DEF SetupError, Return
  <2> QED
    BY <2>1 DEF C!Next
<1>6. CASE Exec
  <2>1. C!Launch
    BY <1>6 DEF Exec, ExecInv, C!Launch
  <2> QED
    BY <2>1 DEF C!Next
<1>7. CASE SelectResult
  BY <1>7, StutterRefines DEF SelectResult, Succeed
<1>8. CASE SelectExit
  <2>1. CASE exitChan = "ok"
    BY <1>8, <2>1, StutterRefines DEF SelectExit, Succeed
  <2>2. CASE exitChan # "ok"
    <3>1. C!Return("err")
      BY <1>8, <2>2, ReturnRefines DEF SelectExit, Fail
    <3> QED
      BY <3>1 DEF C!Next
  <2> QED
    BY <2>1, <2>2
<1>9. CASE SelectTimeout
  <2>1. C!Return("err")
    BY <1>9, ReturnRefines DEF SelectTimeout, Fail
  <2> QED
    BY <2>1 DEF C!Next
<1>10. CASE LinkStart
  <2>1. CASE (flags.oIsLink \/ policy \in {"nothing", "invalid"}) /\ ~flags.master
    <3>1. C!Return("ok")
      BY <1>10, <2>1, ReturnRefines DEF LinkStart, AfterLink, Return
    <3> QED
      BY <3>1 DEF C!Next
  <2>2. CASE ~((flags.oIsLink \/ policy \in {"nothing", "invalid"}) /\ ~flags.master)
    BY <1>10, <2>2, StutterRefines DEF LinkStart, AfterLink
  <2> QED
    BY <2>1, <2>2
<1>11. CASE LinkLstat
  BY <1>11, StutterRefines DEF LinkLstat
<1>12. CASE LinkRemove
  <2>1. CASE link = "absent"
    <3>1. C!Return("ok")
      BY <1>12, <2>1, ReturnRefines DEF LinkRemove, LinkFails, Return
    <3> QED
      BY <3>1 DEF C!Next
  <2>2. CASE link # "absent"
    BY <1>12, <2>2, StutterRefines DEF LinkRemove
  <2> QED
    BY <2>1, <2>2
<1>13. CASE LinkSymlink
  <2>1. CASE link # "absent" \/ ~flags.master
    <3>1. C!Return("ok")
      BY <1>13, <2>1, ReturnRefines DEF LinkSymlink, LinkFails, AfterLink,
                                        Return
    <3> QED
      BY <3>1 DEF C!Next
  <2>2. CASE link = "absent" /\ flags.master
    BY <1>13, <2>2, StutterRefines DEF LinkSymlink, AfterLink
  <2> QED
    BY <2>1, <2>2
<1>14. CASE Help
  <2>1. CASE InfoReadable /\ ~flags.quiet
    BY <1>14, <2>1, StutterRefines DEF Help
  <2>2. CASE ~(InfoReadable /\ ~flags.quiet)
    <3>1. C!Return("err")
      BY <1>14, <2>2, ReturnRefines DEF Help, Return
    <3> QED
      BY <3>1 DEF C!Next
  <2> QED
    BY <2>1, <2>2
<1>15. CASE Wait
  <2>1. C!Return(IF exitChan = "ok" THEN "ok" ELSE "err")
    BY <1>15, ReturnRefines DEF Wait, Return
  <2> QED
    BY <2>1 DEF C!Next
<1> QED
  BY <1>1, <1>2, <1>3, <1>4, <1>5, <1>6, <1>7, <1>8, <1>9, <1>10, <1>11,
     <1>12, <1>13, <1>14, <1>15 DEF Main, DeployLinkFails, ScriptMissing,
     ArgsRejected, PrepareFails, StartFails

(* The poller, the deadline, the other commands and the writes of          *)
(* deploy.sh leave the contract alone; deploy.sh's exit and `yr stop`'s    *)
(* kill end it; Ctrl-C's handler is the contract's exit(0) return.         *)
LEMMA OthersRefine ==
  ASSUME \A f \in FlagSets : f.block,
         TypeOK, ExecInv,
         Poller \/ Deadline \/ Interrupt \/ Deploy \/ StopRemovesLink
           \/ StopKills \/ OtherStartLinks
  PROVE  [C!Next]_C!cvars
<1>0. flags.block
  BY DEF ExecInv
<1> USE <1>0
<1>1. CASE Poller
  BY <1>1, StutterRefines DEF Poller, PollPid, PollInfo, PollScan
<1>2. CASE Deadline
  BY <1>2, StutterRefines DEF Deadline
<1>3. CASE Interrupt
  <2>1. C!Return("exit0")
    BY <1>3, ReturnRefines DEF Interrupt
  <2> QED
    BY <2>1 DEF C!Next
<1>4. CASE WritePid \/ WriteInfo \/ WriteLine
  BY <1>4, StutterRefines DEF WritePid, WriteInfo, WriteLine
<1>5. CASE \E ok \in BOOLEAN : DeployExits(ok)
  <2>1. C!DeployEnds
    BY <1>5 DEF DeployExits, C!DeployEnds
  <2> QED
    BY <2>1 DEF C!Next
<1>6. CASE StopRemovesLink \/ OtherStartLinks
  BY <1>6, StutterRefines DEF StopRemovesLink, OtherStartLinks
<1>7. CASE StopKills
  <2>1. CASE deploy = "running"
    <3>1. C!DeployEnds
      BY <1>7, <2>1 DEF StopKills, C!DeployEnds
    <3> QED
      BY <3>1 DEF C!Next
  <2>2. CASE deploy # "running"
    BY <1>7, <2>2, StutterRefines DEF StopKills
  <2> QED
    BY <2>1, <2>2
<1> QED
  BY <1>1, <1>2, <1>3, <1>4, <1>5, <1>6, <1>7 DEF Deploy

(* A blocking `yr start` implements StartContract: it launches deploy.sh   *)
(* once and before returning, returns once, and whatever it returns (an   *)
(* error, success after deploy.sh's exit, or exit(0) from Ctrl-C's         *)
(* handler) its deploy.sh does not outlive it.  ExecInv, with the types,  *)
(* is the invariant the step needs.                                        *)
THEOREM BlockingStartKeepsContract ==
  ASSUME \A f \in FlagSets : f.block
  PROVE  Spec => ContractSpec
<1> DEFINE IInv == TypeOK /\ ExecInv
<1>1. Init => IInv
  BY ConstantsAssumption DEF IInv, Init, TypeOK, Flags, LinkInfos, ExecInv
<1>2. IInv /\ [Next]_vars => IInv'
  <2> SUFFICES ASSUME TypeOK, ExecInv, [Next]_vars
               PROVE  ExecInv'
    BY TypeStep DEF IInv
  <2>1. CASE Main
    BY <2>1, MainExec
  <2>2. CASE Poller \/ Deadline \/ Interrupt \/ Deploy \/ StopRemovesLink
             \/ StopKills \/ OtherStartLinks
    BY <2>2, OthersExec
  <2>3. CASE UNCHANGED vars
    BY <2>3 DEF vars, ExecInv
  <2> QED
    BY <2>1, <2>2, <2>3 DEF Next
<1>3. Init => C!Init
  BY ConstantsAssumption DEF Init, C!Init, Flags
<1>4. IInv /\ [Next]_vars => [C!Next]_C!cvars
  <2> SUFFICES ASSUME TypeOK, ExecInv, [Next]_vars
               PROVE  [C!Next]_C!cvars
    BY DEF IInv
  <2>1. CASE Main
    BY <2>1, MainRefines
  <2>2. CASE Poller \/ Deadline \/ Interrupt \/ Deploy \/ StopRemovesLink
             \/ StopKills \/ OtherStartLinks
    BY <2>2, OthersRefine
  <2>3. CASE UNCHANGED vars
    BY <2>3, StutterRefines DEF vars
  <2> QED
    BY <2>1, <2>2, <2>3 DEF Next
<1> QED
  BY <1>1, <1>2, <1>3, <1>4, PTL DEF Spec, ContractSpec, C!Spec, IInv

=============================================================================
