---------------------------- MODULE StartContract ----------------------------
(***************************************************************************)
(* What one `yr start` promises about the deploy.sh it launches, seen from *)
(* outside the CLI: the script is launched at most once and only before    *)
(* the command returns; the command returns once, with one result; a       *)
(* blocking start takes its deploy.sh with it whatever it returns, and a   *)
(* non-blocking one leaves it running only when it reports success.        *)
(* Only the signal handler of a blocking start returns by exit(0).        *)
(*                                                                         *)
(* YrStart implements this contract (its ContractSpec).                    *)
(***************************************************************************)

VARIABLES
  block,     \* the command was given --block
  launched,  \* deploy.sh has been started
  running,   \* deploy.sh runs
  returned,  \* the command has returned (or exited)
  result     \* "none", then "ok", "err" or "exit0"

cvars == <<block, launched, running, returned, result>>

Init ==
  /\ block \in BOOLEAN
  /\ launched = FALSE
  /\ running = FALSE
  /\ returned = FALSE
  /\ result = "none"

Launch ==
  /\ ~launched
  /\ ~returned
  /\ launched' = TRUE
  /\ running' = TRUE
  /\ UNCHANGED <<block, returned, result>>

(* deploy.sh ends: on its own, killed by the CLI or by someone else.      *)
DeployEnds ==
  /\ running
  /\ running' = FALSE
  /\ UNCHANGED <<block, launched, returned, result>>

Return(r) ==
  /\ ~returned
  /\ r = "exit0" => block
  /\ returned' = TRUE
  /\ result' = r
  /\ running' = (running /\ ~block /\ r = "ok")
  /\ UNCHANGED <<block, launched>>

Next ==
  \/ Launch
  \/ DeployEnds
  \/ \E r \in {"ok", "err", "exit0"} : Return(r)

Spec == Init /\ [][Next]_cvars
=============================================================================
