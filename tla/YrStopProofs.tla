----------------------------- MODULE YrStopProofs -----------------------------
(***************************************************************************)
(* Proofs about the whole `yr stop` command (module YrStop).  Each step of *)
(* the command is a step of stopYuanRongProcesses or leaves its variables *)
(* alone, so the invariant of StopProcessesProofs carries over; on top of  *)
(* it the spinner's loop counter stays in range, and the message "Did not *)
(* find any active Yuanrong processes" is tied to an empty scan.           *)
(***************************************************************************)
EXTENDS YrStop, StopProcessesProofs, TLAPS

(* The loop variable of `doing` at each point of its loop: one or more at *)
(* the select, reset to zero at RepeatCount before the print.             *)
SpinnerCount ==
  /\ spc \in {"select", "exited"} => i \in 1 .. RepeatCount
  /\ spc \in {"print", "sleep"} => i \in 0 .. RepeatCount - 1

(* The spinner is started exactly when the scan listed processes, a       *)
(* failed ReadDir leaves the stop before its scan, and "not found" is      *)
(* reported only after a scan that listed nothing.                         *)
CmdFacts ==
  /\ spun = (list # << >>)
  /\ procErr => mpc = "scan"
  /\ reported = "notFound" => mpc # "scan" /\ list = << >>

(* The inductive invariant of the command.                                 *)
CmdInv == TypeOKCmd /\ StopInv /\ SpinnerCount /\ CmdFacts

-----------------------------------------------------------------------------
(* A step of the command is a step of stopYuanRongProcesses, or leaves its *)
(* variables alone.                                                        *)
LEMMA CmdStepIsStopStep == [NextCmd]_allVars => [Next]_vars
<1> SUFFICES ASSUME [NextCmd]_allVars PROVE [Next]_vars
  OBVIOUS
<1>1. CASE StopScan
  BY <1>1 DEF StopScan, Next
<1>2. CASE HandleProcess
  BY <1>2 DEF HandleProcess, Next
<1>3. CASE NodeProcess
  BY <1>3 DEF NodeProcess, Next
<1>4. CASE WaitReturns
  BY <1>4 DEF WaitReturns, Next
<1>5. CASE ClearCurrentMasterInfoSymbolLink \/ ReadProcFails \/ Spins
           \/ ProgressDone \/ Report \/ UNCHANGED allVars
  BY <1>5 DEF ClearCurrentMasterInfoSymbolLink, ReadProcFails, Spins,
              ProgressDone, Report, allVars
<1> QED
  BY <1>1, <1>2, <1>3, <1>4, <1>5 DEF NextCmd

LEMMA InitCmdInv == InitCmd => CmdInv
<1> SUFFICES ASSUME InitCmd PROVE CmdInv
  OBVIOUS
<1>1. StopInv
  BY InitHandleInv, InitListInv DEF InitCmd, StopInv
<1>2. TypeOK
  BY <1>1 DEF StopInv, ListInv
<1>3. list = << >> /\ mpc = "scan"
  BY DEF InitCmd, Init
<1>4. P!TypeOK /\ SpinnerCount
  <2>1. closed \in BOOLEAN
    BY Zenon DEF InitCmd, P!Init
  <2>2. RepeatCount \in Nat \ {0}
    BY RepeatCountAssumption
  <2> QED
    BY <2>1, <2>2 DEF InitCmd, P!Init, P!TypeOK, SpinnerCount
<1>5. spun \in BOOLEAN /\ procErr \in BOOLEAN /\ spun = (list # << >>)
  BY <1>3 DEF InitCmd
<1>6. TypeOKCmd
  BY <1>2, <1>4, <1>5 DEF InitCmd, TypeOKCmd
<1>7. CmdFacts
  BY <1>3, <1>5 DEF InitCmd, CmdFacts
<1> QED
  BY <1>1, <1>4, <1>6, <1>7 DEF CmdInv

(* The parts of the invariant on the spinner and on the command.          *)
SpinnerOK == P!TypeOK /\ SpinnerCount

CmdTypeOK ==
  /\ spun \in BOOLEAN
  /\ link \in {"present", "absent"}
  /\ ypc \in {"clear", "stop", "returned"}
  /\ procErr \in BOOLEAN
  /\ reported \in {"none", "succeed", "notFound"}

LEMMA CmdInvParts == CmdInv <=> StopInv /\ TypeOK /\ SpinnerOK /\ CmdTypeOK /\ CmdFacts
BY DEF CmdInv, TypeOKCmd, SpinnerOK, CmdTypeOK, StopInv, ListInv

(* A step of the spinner goroutine `doing`: the counter wraps to zero at  *)
(* RepeatCount before the print and grows by one after it.                *)
LEMMA SpinsSpinnerOK ==
  ASSUME SpinnerOK, Spins
  PROVE  SpinnerOK'
<1>1. closed' = closed /\ cpc' = cpc
  BY DEF Spins, P!SpinnerReturns, P!SpinnerSkipsSelect,
                P!SpinnerPrintFails, P!SpinnerPrints, P!SpinnerWakes
<1>2. closed' \in BOOLEAN
  BY <1>1 DEF SpinnerOK, P!TypeOK
<1>3. RepeatCount \in Nat \ {0}
  BY RepeatCountAssumption
<1>4. CASE P!SpinnerReturns
  BY <1>1, <1>2, <1>4 DEF SpinnerOK, P!TypeOK, SpinnerCount, P!SpinnerReturns
<1>5. CASE P!SpinnerSkipsSelect
  BY <1>1, <1>2, <1>3, <1>5
  DEF SpinnerOK, P!TypeOK, SpinnerCount, P!SpinnerSkipsSelect
<1>6. CASE P!SpinnerPrintFails
  BY <1>1, <1>2, <1>3, <1>6
  DEF SpinnerOK, P!TypeOK, SpinnerCount, P!SpinnerPrintFails
<1>7. CASE P!SpinnerPrints
  BY <1>1, <1>2, <1>7 DEF SpinnerOK, P!TypeOK, SpinnerCount, P!SpinnerPrints
<1>8. CASE P!SpinnerWakes
  BY <1>1, <1>2, <1>3, <1>8
  DEF SpinnerOK, P!TypeOK, SpinnerCount, P!SpinnerWakes
<1> QED
  BY <1>4, <1>5, <1>6, <1>7, <1>8 DEF Spins

(* Done prints its message, then closes DoneChan.                          *)
LEMMA DoneSpinnerOK ==
  ASSUME SpinnerOK, ProgressDone
  PROVE  SpinnerOK'
<1>1. CASE P!DonePrints(StopDoneMessage)
  <2>1. closed' \in BOOLEAN
    BY <1>1, Zenon DEF SpinnerOK, P!TypeOK, P!DonePrints
  <2> QED
    BY <1>1, <2>1 DEF SpinnerOK, P!TypeOK, SpinnerCount, P!DonePrints
<1>2. CASE P!DoneCloses
  <2>1. closed' \in BOOLEAN
    BY <1>2, Zenon DEF P!DoneCloses
  <2> QED
    BY <1>2, <2>1 DEF SpinnerOK, P!TypeOK, SpinnerCount, P!DoneCloses
<1> QED
  BY <1>1, <1>2 DEF ProgressDone

(* A step that does not touch the spinner.                                 *)
LEMMA SpinnerUnchanged ==
  ASSUME SpinnerOK, UNCHANGED spinnerVars
  PROVE  SpinnerOK'
<1>1. closed' \in BOOLEAN
  BY DEF SpinnerOK, P!TypeOK, spinnerVars
<1> QED
  BY <1>1 DEF SpinnerOK, P!TypeOK, SpinnerCount, spinnerVars

(* A step that leaves the command's flags and the list alone, and takes   *)
(* the stop neither into nor out of its scan.                              *)
LEMMA KeepCmd ==
  ASSUME CmdTypeOK, CmdFacts, UNCHANGED <<spun, procErr, reported>>,
         link' \in {"present", "absent"}, ypc' \in {"clear", "stop", "returned"},
         list' = list, (mpc' = "scan") = (mpc = "scan")
  PROVE  CmdTypeOK' /\ CmdFacts'
<1>1. spun' \in BOOLEAN /\ procErr' \in BOOLEAN
  BY DEF CmdTypeOK
<1> QED
  BY <1>1 DEF CmdTypeOK, CmdFacts

(* The scan: the spinner is started when it listed processes.              *)
LEMMA StopScanCmd ==
  ASSUME CmdTypeOK, CmdFacts, StopScan
  PROVE  CmdTypeOK' /\ CmdFacts'
<1>1. /\ ~procErr /\ mpc = "scan" /\ spun' = (list' # << >>)
      /\ UNCHANGED <<link, ypc, procErr, reported>>
  BY DEF StopScan, Scan
<1>2. spun' \in BOOLEAN /\ procErr' \in BOOLEAN
  BY <1>1 DEF CmdTypeOK
<1>3. reported # "notFound"
  BY <1>1 DEF CmdFacts
<1> QED
  BY <1>1, <1>2, <1>3 DEF CmdTypeOK, CmdFacts

(* os.ReadDir("/proc") fails before the scan.                              *)
LEMMA ReadProcFailsCmd ==
  ASSUME CmdTypeOK, CmdFacts, ReadProcFails
  PROVE  CmdTypeOK' /\ CmdFacts'
<1>1. /\ mpc = "scan" /\ procErr' = TRUE
      /\ UNCHANGED <<mpc, list, spun, link, ypc, reported>>
  BY DEF ReadProcFails, vars
<1>2. spun' \in BOOLEAN /\ procErr' \in BOOLEAN
  BY <1>1 DEF CmdTypeOK
<1> QED
  BY <1>1, <1>2 DEF CmdTypeOK, CmdFacts

(* The final message: errorGetZeroYuanRongProcesses comes only from a     *)
(* finished stop whose scan listed nothing.                                *)
LEMMA ReportCmd ==
  ASSUME CmdTypeOK, CmdFacts, Report
  PROVE  CmdTypeOK' /\ CmdFacts'
<1>1. /\ mpc = "finished" \/ procErr
      /\ reported' = IF StopErr = "zero" THEN "notFound" ELSE "succeed"
      /\ ypc' = "returned"
      /\ UNCHANGED <<mpc, list, spun, link, procErr>>
  BY DEF Report, vars
<1>2. spun' \in BOOLEAN /\ procErr' \in BOOLEAN
  BY <1>1 DEF CmdTypeOK
<1>3. StopErr = "zero" => ~procErr /\ ~spun
  BY DEF StopErr
<1>4. reported' = "notFound" => mpc # "scan" /\ list = << >>
  BY <1>1, <1>3 DEF CmdFacts, CmdTypeOK
<1> QED
  BY <1>1, <1>2, <1>4 DEF CmdTypeOK, CmdFacts

LEMMA NextCmdInv == CmdInv /\ [NextCmd]_allVars => CmdInv'
<1> SUFFICES ASSUME CmdInv, [NextCmd]_allVars PROVE CmdInv'
  OBVIOUS
<1>0. StopInv /\ TypeOK /\ SpinnerOK /\ CmdTypeOK /\ CmdFacts
  BY CmdInvParts
<1>1. StopInv'
  BY <1>0, CmdStepIsStopStep, NextHandleInv, NextListInv DEF StopInv
<1>2. TypeOK'
  BY <1>1 DEF StopInv, ListInv
<1>3. SpinnerOK'
  <2>1. CASE Spins
    BY <1>0, <2>1, SpinsSpinnerOK
  <2>2. CASE ProgressDone
    BY <1>0, <2>2, DoneSpinnerOK
  <2>3. CASE ~Spins /\ ~ProgressDone
    <3>1. UNCHANGED spinnerVars
      BY <2>3 DEF NextCmd, ClearCurrentMasterInfoSymbolLink, StopScan,
                  ReadProcFails, HandleProcess, NodeProcess, WaitReturns,
                  Report, allVars
    <3> QED
      BY <1>0, <3>1, SpinnerUnchanged
  <2> QED
    BY <2>1, <2>2, <2>3
<1>4. CmdTypeOK' /\ CmdFacts'
  <2>1. CASE ClearCurrentMasterInfoSymbolLink
    BY <1>0, <2>1, KeepCmd DEF ClearCurrentMasterInfoSymbolLink, vars, CmdTypeOK
  <2>2. CASE StopScan
    BY <1>0, <2>2, StopScanCmd
  <2>3. CASE ReadProcFails
    BY <1>0, <2>3, ReadProcFailsCmd
  <2>4. CASE HandleProcess
    <3>1. UNCHANGED <<mpc, list>>
      BY <2>4 DEF HandleProcess, Term, ProbeFails, ExitSeen, GraceExpires, Kill
    <3> QED
      BY <1>0, <2>4, <3>1, KeepCmd DEF HandleProcess, cmdVars, CmdTypeOK
  <2>5. CASE NodeProcess
    <3>1. UNCHANGED <<mpc, list>>
      BY <2>5 DEF NodeProcess, ProcessExits, ProcessStarts
    <3> QED
      BY <1>0, <2>5, <3>1, KeepCmd DEF NodeProcess, cmdVars, CmdTypeOK
  <2>6. CASE WaitReturns
    BY <1>0, <2>6, KeepCmd DEF WaitReturns, Finish, cmdVars, CmdTypeOK
  <2>7. CASE Spins \/ ProgressDone \/ UNCHANGED allVars
    BY <1>0, <2>7, KeepCmd DEF Spins, ProgressDone, allVars, vars, cmdVars,
                                CmdTypeOK
  <2>8. CASE Report
    BY <1>0, <2>8, ReportCmd
  <2> QED
    BY <2>1, <2>2, <2>3, <2>4, <2>5, <2>6, <2>7, <2>8 DEF NextCmd
<1> QED
  BY <1>1, <1>2, <1>3, <1>4, Zenon DEF CmdInv, TypeOKCmd, SpinnerOK, CmdTypeOK

LEMMA CmdInvariant == InitCmd /\ [][NextCmd]_allVars => []CmdInv
BY InitCmdInv, NextCmdInv, PTL

-----------------------------------------------------------------------------
(* Every state of `yr stop` is well typed, the spinner's counter included: *)
(* it never leaves 0 .. RepeatCount, whatever order its prints, failed     *)
(* prints and sleeps come in.                                              *)
THEOREM CmdTypeCorrect == SpecCmd => []TypeOKCmd
<1>1. CmdInv => TypeOKCmd
  BY DEF CmdInv
<1> QED
  BY <1>1, CmdInvariant, PTL DEF SpecCmd

(* In the whole command, the processes of the scan go each to one          *)
(* goroutine of handleProcess.                                              *)
THEOREM CmdEachProcessOnce == SpecCmd => []EachProcessOnce
<1>1. CmdInv => EachProcessOnce
  BY StopInvEachOnce DEF CmdInv
<1> QED
  BY <1>1, CmdInvariant, PTL DEF SpecCmd

(* In the whole command, when wg.Wait has returned no platform process is *)
(* alive, provided each has a keyword.                                     *)
THEOREM CmdPlatformStopped ==
  ASSUME PlatformHasKeywords
  PROVE  SpecCmd => []NoPlatformProcessLeft
<1>1. CmdInv => NoPlatformProcessLeft
  BY StopInvPlatformStopped DEF CmdInv
<1> QED
  BY <1>1, CmdInvariant, PTL DEF SpecCmd

(* In the whole command, no process outside the platform is signalled,    *)
(* provided none has a keyword or a platform process's PID.                *)
THEOREM CmdOnlyPlatformSignalled ==
  ASSUME OthersHaveNoKeywords, PlatformPidsNotReused
  PROVE  SpecCmd => []OnlyPlatformSignalled
<1>1. CmdInv => OnlyPlatformSignalled
  BY StopInvOnlyPlatform DEF CmdInv
<1> QED
  BY <1>1, CmdInvariant, PTL DEF SpecCmd

(* `yr stop` prints "Did not find any active Yuanrong processes" only when *)
(* no platform process is alive, provided each has a keyword: the message  *)
(* needs a finished scan that listed nothing, an unlisted platform process *)
(* with a keyword was dead at the scan, and the dead stay dead.            *)
THEOREM NotFoundMeansNoneAlive ==
  ASSUME PlatformHasKeywords
  PROVE  SpecCmd => []NotFoundOnlyWhenNoneAlive
<1>1. CmdInv => NotFoundOnlyWhenNoneAlive
  <2> SUFFICES ASSUME CmdInv, reported = "notFound", NEW q \in Yuanrong
               PROVE  life[q] # "alive"
    BY DEF NotFoundOnlyWhenNoneAlive
  <2>1. mpc # "scan" /\ Goroutines = {}
    BY DEF CmdInv, CmdFacts, Goroutines
  <2>2. life[q] = "dead"
    BY <2>1 DEF CmdInv, StopInv, ListInv, UnlistedPlatformDead,
                PlatformHasKeywords
  <2> QED
    BY <2>2
<1> QED
  BY <1>1, CmdInvariant, PTL DEF SpecCmd
=============================================================================
