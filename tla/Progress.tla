------------------------------ MODULE Progress ------------------------------
(***************************************************************************)
(* The console spinner of src/.../pkg/progress/progress.go.                *)
(* CreateAndDoing starts the goroutine `doing`, which prints the doing     *)
(* message with a growing row of dots and sleeps, until the caller's       *)
(* Done prints the done message and closes DoneChan.  `yr stop` creates   *)
(* one around its wg.Wait (module YrStop composes the two).                *)
(*                                                                         *)
(* Output is abstracted to what was written last: the spinner's line or   *)
(* the done message.                                                       *)
(***************************************************************************)
EXTENDS Naturals

CONSTANTS
  RepeatCount,  \* defaultRepeatCount: the dots shown before the row clears
  FailedDone    \* the message for which Done prints nothing

VARIABLES
  cpc,      \* the caller: "working", "closing" (done message out), "returned"
  closed,   \* DoneChan has been closed
  spc,      \* the goroutine `doing`: "select", "print", "sleep" or "exited"
  i,        \* the loop variable of `doing`
  lastOut   \* what stdout shows last: "none", "spin" or "done"

vars == <<cpc, closed, spc, i, lastOut>>

(* Lines 43-51: CreateAndDoing returned, the goroutine about to select.    *)
Init ==
  /\ cpc = "working"
  /\ closed = FALSE
  /\ spc = "select"
  /\ i = 1
  /\ lastOut = "none"

(* Lines 57-62: the channel is closed: `doing` returns.                     *)
SpinnerReturns ==
  /\ spc = "select"
  /\ closed
  /\ spc' = "exited"
  /\ UNCHANGED <<cpc, closed, i, lastOut>>

(* Mutant: the row cleared only once i has passed RepeatCount.            *)
SpinnerSkipsSelectLateWrap ==
  /\ spc = "select"
  /\ ~closed
  /\ spc' = "print"
  /\ i' = IF i > RepeatCount THEN 0 ELSE i
  /\ UNCHANGED <<cpc, closed, lastOut>>

(* Lines 63-68: the default branch: the row is cleared at RepeatCount.     *)
SpinnerSkipsSelect ==
  /\ spc = "select"
  /\ ~closed
  /\ spc' = "print"
  /\ i' = IF i = RepeatCount THEN 0 ELSE i
  /\ UNCHANGED <<cpc, closed, lastOut>>

(* Line 69-70: Fprintf fails, and `continue` skips the sleep.              *)
SpinnerPrintFails ==
  /\ spc = "print"
  /\ spc' = "select"
  /\ i' = i + 1
  /\ UNCHANGED <<cpc, closed, lastOut>>

(* Lines 69-72: the line is printed, then the goroutine sleeps.            *)
SpinnerPrints ==
  /\ spc = "print"
  /\ spc' = "sleep"
  /\ lastOut' = "spin"
  /\ UNCHANGED <<cpc, closed, i>>

(* The sleep ends and the loop goes round: i++.                             *)
SpinnerWakes ==
  /\ spc = "sleep"
  /\ spc' = "select"
  /\ i' = i + 1
  /\ UNCHANGED <<cpc, closed, lastOut>>

(* Lines 79-82: Done prints the elapsed time unless the message is        *)
(* FailedDone.                                                              *)
DonePrints(msg) ==
  /\ cpc = "working"
  /\ cpc' = "closing"
  /\ lastOut' = IF msg # FailedDone THEN "done" ELSE lastOut
  /\ UNCHANGED <<closed, spc, i>>

(* Mutant: Done returns without closing the channel.                       *)
DoneCloseForgotten ==
  /\ cpc = "closing"
  /\ cpc' = "returned"
  /\ UNCHANGED <<closed, spc, i, lastOut>>

(* Line 83: close(p.DoneChan).                                             *)
DoneCloses ==
  /\ cpc = "closing"
  /\ cpc' = "returned"
  /\ closed' = TRUE
  /\ UNCHANGED <<spc, i, lastOut>>

-----------------------------------------------------------------------------
(* The type invariant.                                                     *)
TypeOK ==
  /\ cpc \in {"working", "closing", "returned"}
  /\ closed \in BOOLEAN
  /\ spc \in {"select", "print", "sleep", "exited"}
  /\ i \in 0 .. RepeatCount
  /\ lastOut \in {"none", "spin", "done"}
=============================================================================
