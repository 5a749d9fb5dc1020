------------------------------ MODULE MC_YrStart ------------------------------
(* Instances of YrStart for TLC.                                           *)
EXTENDS YrStart

(* Every flag combination with the given --block and --verbose 0 values.   *)
FlagsWith(b, q) == {f \in Flags : f.block = b /\ f.quiet = q}

(* Non-blocking starts with the default verbosity.                          *)
MCNonBlock == FlagsWith(FALSE, FALSE)

(* Blocking starts, with any verbosity.                                     *)
MCBlock == FlagsWith(TRUE, FALSE) \cup FlagsWith(TRUE, TRUE)

(* A blocking master.                                                       *)
MCBlockMaster == {f \in MCBlock : f.master /\ ~f.quiet}

(* A non-blocking master.                                                   *)
MCMaster == {f \in MCNonBlock : f.master}

(* A non-blocking master with --verbose 0.                                  *)
MCQuietMaster == {f \in FlagsWith(FALSE, TRUE) : f.master}

MCAllLinks == LinkInfos
=============================================================================
