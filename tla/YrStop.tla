-------------------------------- MODULE YrStop --------------------------------
(***************************************************************************)
(* The whole `yr stop` command, yrStopYuanRong (src/.../cmd/stop/          *)
(* yr_stop.go): the removal of the current master info link, then          *)
(* stopYuanRongProcesses (module StopProcesses) with the console spinner    *)
(* of package progress (module Progress) around its wg.Wait, and the final *)
(* message.                                                                *)
(*                                                                         *)
(* The spinner is created only when the scan found processes (line 287    *)
(* comes after the early return of line 283), and its Done is called once *)
(* wg.Wait has returned.  Until then its variables keep their initial       *)
(* values and its goroutine does not exist.                                *)
(***************************************************************************)
EXTENDS StopProcesses

CONSTANTS
  RepeatCount,  \* defaultRepeatCount of package progress
  FailedDone    \* progress.FailedDone

ASSUME RepeatCountAssumption == RepeatCount \in Nat \ {0}

VARIABLES
  cpc, closed, spc, i, lastOut,  \* the spinner (module Progress)
  spun,     \* CreateAndDoing has started the spinner
  link,     \* the current master info link: "present" or "absent"
  ypc,      \* yrStopYuanRong: "clear", "stop" or "returned"
  procErr,  \* os.ReadDir("/proc") failed in getProcesses
  reported  \* the final message: "none", "succeed" or "notFound"

P == INSTANCE Progress

spinnerVars == <<cpc, closed, spc, i, lastOut>>
cmdVars == <<spun, link, ypc, procErr, reported>>
allVars == <<vars, spinnerVars, cmdVars>>

(* The message `yr stop` passes to Done (line 298).                        *)
StopDoneMessage == "Stop Yuanrong processes"

-----------------------------------------------------------------------------
InitCmd ==
  /\ Init
  /\ P!Init
  /\ spun = FALSE
  /\ link = "present"
  /\ ypc = "clear"
  /\ procErr = FALSE
  /\ reported = "none"

(* Lines 99, 109-115: os.RemoveAll of the link; an error is printed and    *)
(* the stop goes on.                                                       *)
ClearCurrentMasterInfoSymbolLink ==
  /\ ypc = "clear"
  /\ link' \in {"absent", link}
  /\ ypc' = "stop"
  /\ UNCHANGED <<vars, spinnerVars, spun, procErr, reported>>

(* Lines 274-296: the scan, then CreateAndDoing when it found processes.  *)
StopScan ==
  /\ ypc = "stop"
  /\ ~procErr
  /\ Scan
  /\ spun' = (list' # << >>)
  /\ UNCHANGED <<spinnerVars, link, ypc, procErr, reported>>

(* Lines 127-130, 274-277: os.ReadDir("/proc") fails, and                  *)
(* stopYuanRongProcesses returns its error before any process is listed.   *)
ReadProcFails ==
  /\ ypc = "stop"
  /\ mpc = "scan"
  /\ ~procErr
  /\ procErr' = TRUE
  /\ UNCHANGED <<vars, spinnerVars, spun, link, ypc, reported>>

(* A step of a handleProcess goroutine.                                    *)
HandleProcess ==
  /\ \E k \in Goroutines : Term(k) \/ ProbeFails(k) \/ ExitSeen(k)
                           \/ GraceExpires(k) \/ Kill(k)
  /\ UNCHANGED <<spinnerVars, cmdVars>>

(* A process of the node exits or starts.                                  *)
NodeProcess ==
  /\ \E q \in Procs : ProcessExits(q) \/ ProcessStarts(q)
  /\ UNCHANGED <<spinnerVars, cmdVars>>

(* Line 297: wg.Wait returns.                                              *)
WaitReturns ==
  /\ Finish
  /\ UNCHANGED <<spinnerVars, cmdVars>>

(* The spinner goroutine `doing`, once started.                            *)
Spins ==
  /\ spun
  /\ \/ P!SpinnerReturns
     \/ P!SpinnerSkipsSelect
     \/ P!SpinnerPrintFails
     \/ P!SpinnerPrints
     \/ P!SpinnerWakes
  /\ UNCHANGED <<vars, cmdVars>>

(* Line 298: stopProgress.Done, its print and then its close.              *)
ProgressDone ==
  /\ spun
  /\ mpc = "finished"
  /\ \/ P!DonePrints(StopDoneMessage)
     \/ P!DoneCloses
  /\ UNCHANGED <<vars, cmdVars>>

(* The error stopYuanRongProcesses returns: the ReadDir error, nil after   *)
(* Done, or errorGetZeroYuanRongProcesses when nothing was found.          *)
StopErr == IF procErr THEN "readDir" ELSE IF spun THEN "nil" ELSE "zero"

(* Lines 100-106: stopYuanRongProcesses has returned, and the message is   *)
(* chosen by errors.Is(err, errorGetZeroYuanRongProcesses) alone.          *)
Report ==
  /\ ypc = "stop"
  /\ mpc = "finished" \/ procErr
  /\ spun => cpc = "returned"
  /\ ypc' = "returned"
  /\ reported' = IF StopErr = "zero" THEN "notFound" ELSE "succeed"
  /\ UNCHANGED <<vars, spinnerVars, spun, link, procErr>>

NextCmd ==
  \/ ClearCurrentMasterInfoSymbolLink
  \/ StopScan
  \/ ReadProcFails
  \/ HandleProcess
  \/ NodeProcess
  \/ WaitReturns
  \/ Spins
  \/ ProgressDone
  \/ Report

(* The Go scheduler runs the main goroutine, the handleProcess goroutines   *)
(* (with their pollers and timers) and the spinner; the node's processes   *)
(* are under no obligation to exit or start.                               *)
SpecCmd ==
  /\ InitCmd /\ [][NextCmd]_allVars
  /\ WF_allVars(ClearCurrentMasterInfoSymbolLink \/ StopScan \/ WaitReturns
                \/ ProgressDone \/ Report)
  /\ WF_allVars(HandleProcess)
  /\ WF_allVars(Spins)

-----------------------------------------------------------------------------
(* The type invariant: the stop's, the spinner's and the command's.        *)
TypeOKCmd ==
  /\ TypeOK
  /\ P!TypeOK
  /\ spun \in BOOLEAN
  /\ link \in {"present", "absent"}
  /\ ypc \in {"clear", "stop", "returned"}
  /\ procErr \in BOOLEAN
  /\ reported \in {"none", "succeed", "notFound"}

(* The spinner goroutine started by CreateAndDoing does not outlive the   *)
(* command: once `yr stop` has reported, it eventually returns.            *)
SpinnerEnds == <>[](spun => spc = "exited")

(* `yr stop` returns, whatever the processes of the node do: every         *)
(* handleProcess goroutine calls wg.Done on every path and the spinner's   *)
(* Done comes back.                                                        *)
StopReturns == <>(ypc = "returned")

(* `yr stop` prints "Did not find any active Yuanrong processes" only     *)
(* when no platform process is alive: the keyword filter of the scan       *)
(* missed none of them.                                                    *)
NotFoundOnlyWhenNoneAlive ==
  reported = "notFound" => \A q \in Yuanrong : life[q] # "alive"

(* `yr stop` prints "Yuanrong stop succeed." only when no platform process *)
(* is left alive.                                                          *)
SucceedOnlyWhenStopped ==
  reported = "succeed" => \A q \in Yuanrong : life[q] # "alive"
=============================================================================
