-------------------------- MODULE MC_StopProcesses --------------------------
(***************************************************************************)
(* Instances of StopProcesses for TLC.  Three keywords stand for the five  *)
(* of yrStopYuanRong: kDeploy for .../deploy/process/deploy.sh, kFs for    *)
(* .../function_system and kRt for .../runtime.                            *)
(***************************************************************************)
EXTENDS StopProcesses

CONSTANTS kDeploy, kFs, kRt
CONSTANTS deploySh, master, runtime, shell, late
CONSTANTS p1, p2, p3, p4

MCPids == {p1, p2, p3, p4}

MCKeywords == << kDeploy, kFs, kRt >>

\* /proc lists PIDs by name: "100" before "99".
MCPidOrder == << p1, p2, p3, p4 >>

\* deploySh: `bash .../deploy.sh --master`, found by an argument only.
\* master:   .../function_system/bin/function_master, started with an
\*           argument under .../runtime: found by both path and argument.
\* runtime:  .../runtime/bin/runtime, found by its path.
\* shell:    a user's shell, no keyword.
\* late:     a process started during the stop.
MCProcs5 == {deploySh, master, runtime, shell, late}

MCCmdKw == [q \in MCProcs5 |->
              CASE q = master  -> {kFs}
                [] q = runtime -> {kRt}
                [] OTHER       -> {}]

MCArgKw == [q \in MCProcs5 |->
              CASE q = deploySh -> {kDeploy}
                [] q = master   -> {kRt}
                [] OTHER        -> {}]

MCYuanrong == {deploySh, master, runtime}

MCInitAlive == {deploySh, master, runtime, shell}

\* Every process has a PID of its own: no PID is reused during the stop.
DistinctPids == [q \in MCProcs5 |->
                   CASE q = deploySh -> p1 [] q = master -> p2
                     [] q = runtime -> p3 [] q = shell -> p4
                     [] q = late -> p4]

\* The late process takes the PID the master held: the kernel hands out a
\* PID again once its process is gone.
ReusedPid == [q \in MCProcs5 |->
                CASE q = deploySh -> p1 [] q = master -> p2
                  [] q = runtime -> p3 [] q = shell -> p4
                  [] q = late -> p2]

\* The user's shell runs `tail -f .../runtime/log`: an argument holds the
\* runtime keyword.
ShellArgKw == [MCArgKw EXCEPT ![shell] = {kRt}]
=============================================================================
