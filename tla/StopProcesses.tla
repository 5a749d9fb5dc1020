---------------------------- MODULE StopProcesses ----------------------------
(***************************************************************************)
(* `yr stop` after the master-info link is removed: stopYuanRongProcesses  *)
(* and the goroutines it starts (src/.../cmd/stop/yr_stop.go).             *)
(*                                                                         *)
(* The main goroutine scans /proc once, keeps the processes whose command  *)
(* line or arguments contain one of the keywords, orders them by keyword   *)
(* group, starts one goroutine per process and waits on a WaitGroup.  Each *)
(* goroutine sends SIGTERM to the PID, then selects between a grace timer  *)
(* and a poller goroutine (checkProcessExit) that probes the PID with      *)
(* signal 0 and reports when the probe fails; on the timer it sends        *)
(* SIGKILL.                                                                *)
(*                                                                         *)
(* The operating system is part of the model: a process is identified by   *)
(* its PID only, processes die at any time (on SIGTERM or on their own),   *)
(* and a PID that is free again may be taken by a newly started process.  *)
(* A signal sent to a PID reaches whichever process holds it at that       *)
(* moment, and fails when none does.                                       *)
(***************************************************************************)
EXTENDS Integers, Sequences, FiniteSets

CONSTANTS
  Procs,      \* the processes that run on the node during the stop
  Pids,       \* the PIDs they use
  PidOf,      \* PidOf[q]: the PID process q runs under
  Keywords,   \* the keywords of yrStopYuanRong, in their order (a sequence)
  CmdKw,      \* CmdKw[q]: the keywords q's executable path contains
  ArgKw,      \* ArgKw[q]: the keywords one of q's arguments contains
  Yuanrong,   \* the processes that really belong to the platform
  InitAlive,  \* the processes alive when `yr stop` starts
  PidOrder    \* the PIDs in the order os.ReadDir("/proc") lists them

KeywordSet == { Keywords[j] : j \in 1 .. Len(Keywords) }

ASSUME KeywordsAssumption ==
  /\ Keywords \in Seq(KeywordSet)
  /\ \A j, k \in 1 .. Len(Keywords) : Keywords[j] = Keywords[k] => j = k
ASSUME ProcsAssumption ==
  /\ PidOf \in [Procs -> Pids]
  /\ CmdKw \in [Procs -> SUBSET KeywordSet]
  /\ ArgKw \in [Procs -> SUBSET KeywordSet]
  /\ Yuanrong \subseteq InitAlive
  /\ InitAlive \subseteq Procs
  /\ \A q, r \in InitAlive : PidOf[q] = PidOf[r] => q = r
ASSUME PidOrderAssumption ==
  /\ PidOrder \in Seq(Pids)
  /\ \A n \in Pids : \E k \in 1 .. Len(PidOrder) : PidOrder[k] = n
  /\ \A j, k \in 1 .. Len(PidOrder) : PidOrder[j] = PidOrder[k] => j = k

VARIABLES
  life,       \* life[q] \in {"unborn", "alive", "dead"}
  signalled,  \* signalled[q]: the signals q has received from `yr stop`
  mpc,        \* the main goroutine: "scan", "wait" or "finished"
  list,       \* orderedProcesses, the processes to stop
  gpc,        \* gpc[k]: where the goroutine for list[k] is
  poll,       \* poll[k]: the checkProcessExit goroutine of goroutine k
  wg          \* the WaitGroup counter

vars == <<life, signalled, mpc, list, gpc, poll, wg>>

-----------------------------------------------------------------------------
(* The process holding PID n now, as a set of at most one process: the     *)
(* target of kill(n, sig); an empty set is the ESRCH error.                *)
Holder(n) == { q \in Procs : life[q] = "alive" /\ PidOf[q] = n }

(* The elements of s at the indices in I, in their order: a loop that     *)
(* appends an element when its test holds (SelectSeq, with the test        *)
(* stated on the indices).                                                 *)
SeqAt(s, I) ==
  LET F[i \in 0 .. Len(s)] ==
        IF i = 0 THEN << >>
        ELSE IF i \in I THEN Append(F[i - 1], s[i]) ELSE F[i - 1]
  IN  F[Len(s)]

(* The sequences c[1], c[2], ... one after the other: the appends of a     *)
(* loop nested in another.                                                 *)
ConcatSeqs(c) ==
  LET F[i \in 0 .. Len(c)] == IF i = 0 THEN << >> ELSE F[i - 1] \o c[i]
  IN  F[Len(c)]

(* The orders in which `range keywordSet` can visit the keywords: Go       *)
(* randomises map iteration, afresh for every range statement.             *)
MapOrders ==
  { o \in [1 .. Len(Keywords) -> KeywordSet] :
      \A j, k \in 1 .. Len(Keywords) : o[j] = o[k] => j = k }

(* Mutant: the break placed after the argument check, so only the first  *)
(* keyword visited is ever tried.                                          *)
FilterVisitFirstOnly(p, o) ==
  IF Len(o) > 0 /\ o[1] \in CmdKw[p] \cup ArgKw[p] THEN << o[1] >> ELSE << >>

(* Mutant: filterProcessArgs appends p without testing its arguments.     *)
FilterVisitAnyArgs(p, o) ==
  LET hits == { j \in 1 .. Len(o) : o[j] \in CmdKw[p] }
      stop == IF hits = {} THEN Len(o) + 1
              ELSE CHOOSE j \in hits : \A k \in hits : j <= k
  IN  SubSeq(o, 1, stop - 1)
        \o (IF stop <= Len(o) THEN << o[stop] >> ELSE << >>)

(* filterProcesses and filterProcessArgs (lines 159-186) for a process p  *)
(* visiting the keywords in the order o: each keyword before the first one *)
(* p's executable path contains appends p if an argument contains it (and  *)
(* goes on), and the first one the path contains appends p and breaks.     *)
(* The result: the keywords p is appended with, in the order appended.     *)
FilterVisit(p, o) ==
  LET hits == { j \in 1 .. Len(o) : o[j] \in CmdKw[p] }
      stop == IF hits = {} THEN Len(o) + 1
              ELSE CHOOSE j \in hits : \A k \in hits : j <= k
  IN  SeqAt(o, {j \in 1 .. stop - 1 : o[j] \in ArgKw[p]})
        \o (IF stop <= Len(o) THEN << o[stop] >> ELSE << >>)

(* The entries p can be appended with, over all orders of the map.        *)
Visits(p) == { FilterVisit(p, o) : o \in MapOrders }

(* The filtered list for the processes ps in /proc order, p appended with  *)
(* the keywords v[p]: one entry per (process, keyword) pair.               *)
Filtered(ps, v) ==
  ConcatSeqs([k \in 1 .. Len(ps) |->
                [j \in 1 .. Len(v[ps[k]]) |-> [p |-> ps[k], kw |-> v[ps[k]][j]]]])

(* The first loop of groupProcessesByKeywords (lines 189-198): the         *)
(* processes of the entries of each keyword, the groups in the order of    *)
(* Keywords.                                                               *)
ByGroup(scan) ==
  LET group(g) == SeqAt(scan, {k \in 1 .. Len(scan) : scan[k].kw = Keywords[g]})
  IN  ConcatSeqs([g \in 1 .. Len(Keywords) |->
                    [k \in 1 .. Len(group(g)) |-> group(g)[k].p]])

(* Mutant: the processed map left out, so a process appended with two     *)
(* keywords is listed, and stopped, twice.                                 *)
GroupedNoDedup(all) == all

(* The second loop of groupProcessesByKeywords (lines 200-210): the        *)
(* grouped processes all, each kept at its first occurrence (the processed *)
(* map, keyed by PID).                                                     *)
Grouped(all) ==
  SeqAt(all, {k \in 1 .. Len(all) : \A j \in 1 .. k - 1 : all[j] # all[k]})

(* getProcesses: the processes holding a PID, in /proc order.              *)
Listed == LET held == SeqAt(PidOrder,
                            {k \in 1 .. Len(PidOrder) : Holder(PidOrder[k]) # {}})
          IN  [k \in 1 .. Len(held) |-> CHOOSE q \in Holder(held[k]) : TRUE]

-----------------------------------------------------------------------------
Init ==
  /\ life = [q \in Procs |-> IF q \in InitAlive THEN "alive" ELSE "unborn"]
  /\ signalled = [q \in Procs |-> {}]
  /\ mpc = "scan"
  /\ list = << >>
  /\ gpc = << >>
  /\ poll = << >>
  /\ wg = 0

(* Lines 274-297: scan, filter and order, then wg.Add(1) and a goroutine   *)
(* per process; with no process, return errorGetZeroYuanRongProcesses.     *)
(* Each stage's result is bound once, as the locals of the Go code are.    *)
Scan ==
  /\ mpc = "scan"
  /\ \E v \in [Procs -> UNION { Visits(q) : q \in Procs }] :
       /\ \A q \in Procs : v[q] \in Visits(q)
       /\ \E filtered \in {Filtered(Listed, v)} :
          \E all \in {ByGroup(filtered)} :
          \E ordered \in {Grouped(all)} :
              /\ list' = ordered
              /\ gpc' = [k \in 1 .. Len(ordered) |-> "term"]
              /\ poll' = [k \in 1 .. Len(ordered) |-> "none"]
              /\ wg' = Len(ordered)
              /\ mpc' = IF ordered = << >> THEN "finished" ELSE "wait"
  /\ UNCHANGED <<life, signalled>>

(* Mutant: wg.Done called at the end of handleProcess instead of deferred, *)
(* so the early returns skip it.                                           *)
ReturnWithoutDone(k) ==
  /\ gpc' = [gpc EXCEPT ![k] = "done"]
  /\ wg' = IF gpc[k] = "wait" THEN wg - 1 ELSE wg

(* The goroutine's work ends: the deferred wg.Done.                         *)
Return(k) ==
  /\ gpc' = [gpc EXCEPT ![k] = "done"]
  /\ wg' = wg - 1

(* Lines 226-236: SIGTERM to the PID.  If it fails (no process holds the   *)
(* PID) handleProcess returns; otherwise the select starts the grace timer *)
(* and the poller goroutine.                                               *)
Term(k) ==
  /\ gpc[k] = "term"
  /\ IF Holder(PidOf[list[k]]) = {}
       THEN /\ Return(k)
            /\ UNCHANGED <<signalled, poll>>
       ELSE /\ signalled' = [q \in Procs |->
                 IF q \in Holder(PidOf[list[k]]) THEN signalled[q] \cup {"TERM"}
                 ELSE signalled[q]]
            /\ gpc' = [gpc EXCEPT ![k] = "wait"]
            /\ poll' = [poll EXCEPT ![k] = "polling"]
            /\ UNCHANGED wg
  /\ UNCHANGED <<life, mpc, list>>

(* Lines 256-266: the probe kill(pid, 0) fails, and the poller goes to     *)
(* send true on its unbuffered channel (it blocks there until received).   *)
ProbeFails(k) ==
  /\ poll[k] = "polling"
  /\ Holder(PidOf[list[k]]) = {}
  /\ poll' = [poll EXCEPT ![k] = "sending"]
  /\ UNCHANGED <<life, signalled, mpc, list, gpc, wg>>

(* Lines 247-249: the select receives the poller's report.                 *)
ExitSeen(k) ==
  /\ gpc[k] = "wait"
  /\ poll[k] = "sending"
  /\ Return(k)
  /\ poll' = [poll EXCEPT ![k] = "exited"]
  /\ UNCHANGED <<life, signalled, mpc, list>>

(* Lines 237-242: the grace timer fires first.  The poller goroutine is    *)
(* left running and nobody will ever receive from its channel.             *)
GraceExpires(k) ==
  /\ gpc[k] = "wait"
  /\ gpc' = [gpc EXCEPT ![k] = "kill"]
  /\ UNCHANGED <<life, signalled, mpc, list, poll, wg>>

(* Lines 243-246: SIGKILL to the PID; the holder, if any, dies.            *)
Kill(k) ==
  /\ gpc[k] = "kill"
  /\ signalled' = [q \in Procs |->
        IF q \in Holder(PidOf[list[k]]) THEN signalled[q] \cup {"KILL"}
        ELSE signalled[q]]
  /\ life' = [q \in Procs |->
        IF q \in Holder(PidOf[list[k]]) THEN "dead" ELSE life[q]]
  /\ Return(k)
  /\ UNCHANGED <<mpc, list, poll>>

(* Line 297: wg.Wait returns.                                              *)
Finish ==
  /\ mpc = "wait"
  /\ wg = 0
  /\ mpc' = "finished"
  /\ UNCHANGED <<life, signalled, list, gpc, poll, wg>>

(* The system: a process exits (on SIGTERM or on its own), or a process    *)
(* that is not part of the platform starts under a free PID.               *)
ProcessExits(q) ==
  /\ life[q] = "alive"
  /\ life' = [life EXCEPT ![q] = "dead"]
  /\ UNCHANGED <<signalled, mpc, list, gpc, poll, wg>>

ProcessStarts(q) ==
  /\ life[q] = "unborn"
  /\ q \notin Yuanrong
  /\ Holder(PidOf[q]) = {}
  /\ life' = [life EXCEPT ![q] = "alive"]
  /\ UNCHANGED <<signalled, mpc, list, gpc, poll, wg>>

Goroutines == 1 .. Len(list)

Next ==
  \/ Scan
  \/ Finish
  \/ \E k \in Goroutines : Term(k) \/ ProbeFails(k) \/ ExitSeen(k)
                           \/ GraceExpires(k) \/ Kill(k)
  \/ \E q \in Procs : ProcessExits(q) \/ ProcessStarts(q)

(* The Go scheduler runs every runnable goroutine, the poller keeps        *)
(* probing and the grace timer fires: the goroutines of `yr stop` do not   *)
(* stop for ever while one of them can move.  The processes of the node    *)
(* are under no obligation to exit or start.                               *)
StopStep ==
  \/ Scan
  \/ Finish
  \/ \E k \in Goroutines : Term(k) \/ ProbeFails(k) \/ ExitSeen(k)
                           \/ GraceExpires(k) \/ Kill(k)

Spec == Init /\ [][Next]_vars /\ WF_vars(StopStep)

-----------------------------------------------------------------------------
(* The type invariant.                                                     *)
TypeOK ==
  /\ life \in [Procs -> {"unborn", "alive", "dead"}]
  /\ signalled \in [Procs -> SUBSET {"TERM", "KILL"}]
  /\ mpc \in {"scan", "wait", "finished"}
  /\ list \in Seq(Procs)
  /\ gpc \in [Goroutines -> {"term", "wait", "kill", "done"}]
  /\ poll \in [Goroutines -> {"none", "polling", "sending", "exited"}]
  /\ wg \in 0 .. Len(list)

(* When `yr stop` reports that it stopped the platform (wg.Wait returned), *)
(* no platform process is left alive: each was found by the keyword filter *)
(* and was either seen gone by its poller or killed after the grace time.  *)
NoPlatformProcessLeft ==
  mpc = "finished" => \A q \in Yuanrong : life[q] = "dead"

(* The ordering step takes each process once, however many keywords the   *)
(* filter appended it with: no two goroutines stop the same process.       *)
EachProcessOnce ==
  \A j, k \in Goroutines : j # k => list[j] # list[k]

(* `yr stop` signals only the platform's processes: no other process ever *)
(* receives its SIGTERM or SIGKILL.                                        *)
OnlyPlatformSignalled ==
  \A q \in Procs \ Yuanrong : signalled[q] = {}

(* wg.Wait returns: `yr stop` finishes whatever the processes do.          *)
StopTerminates == <>(mpc = "finished")
=============================================================================
