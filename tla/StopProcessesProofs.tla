------------------------- MODULE StopProcessesProofs -------------------------
(***************************************************************************)
(* Proofs about the goroutines of stopYuanRongProcesses (StopProcesses),  *)
(* for every set of processes, PIDs, keywords and /proc order.             *)
(*                                                                         *)
(* What the scan lists comes from StopScanProofs: every live process with  *)
(* a keyword, each once.  The proofs below follow the list through        *)
(* handleProcess: the SIGTERM, the poller's probe, the grace timer and    *)
(* the SIGKILL, against processes that exit and PIDs that are taken again *)
(* at any time, and the WaitGroup that wg.Wait waits on.                   *)
(***************************************************************************)
EXTENDS StopScanProofs, TLAPS

(* The strengthening: the functions of the goroutines range over the      *)
(* listed indices, a platform process is never unborn, a goroutine that   *)
(* returned or whose poller saw the PID free left its platform process     *)
(* dead, and every signal went to a process holding a listed PID.          *)
HandleInv ==
  /\ life \in [Procs -> {"unborn", "alive", "dead"}]
  /\ signalled \in [Procs -> SUBSET {"TERM", "KILL"}]
  /\ DOMAIN gpc = Goroutines /\ DOMAIN poll = Goroutines
  /\ mpc = "scan" => Goroutines = {} /\ \A q \in Procs : signalled[q] = {}
  /\ \A q \in Yuanrong : life[q] \in {"alive", "dead"}
  /\ \A k \in Goroutines :
       list[k] \in Yuanrong /\ (gpc[k] = "done" \/ poll[k] = "sending")
         => life[list[k]] = "dead"
  /\ \A q \in Procs :
       signalled[q] # {} => \E k \in Goroutines : PidOf[q] = PidOf[list[k]]

(* A goroutine of handleProcess returns (calls wg.Done) only when the     *)
(* platform process it was given is dead: a SIGTERM that fails with ESRCH, *)
(* a probe that finds the PID free, or the SIGKILL after the grace time,  *)
(* whoever holds the PID meanwhile.                                        *)
HandledPlatformProcessDead ==
  \A k \in Goroutines :
    list[k] \in Yuanrong /\ gpc[k] = "done" => life[list[k]] = "dead"

(* `yr stop` signals a process only when it holds a PID the scan listed:   *)
(* the mechanism behind the PID reuse of run stop_pid_reuse.               *)
SignalsOnlyToListedPids ==
  \A q \in Procs :
    signalled[q] # {} => \E k \in Goroutines : PidOf[q] = PidOf[list[k]]

(* The goroutines that have not called wg.Done yet.                        *)
Running == { k \in Goroutines : gpc[k] # "done" }

(* The WaitGroup counts the goroutines that have not returned: wg.Add(1)  *)
(* per listed process before any goroutine starts, one deferred wg.Done    *)
(* per goroutine, and wg.Wait returns when the count is zero.              *)
WaitGroupCounts ==
  /\ mpc = "scan" => list = << >> /\ wg = 0
  /\ mpc # "scan" => wg = Cardinality(Running)
  /\ mpc = "finished" => Running = {}

(* No process is on the list twice.                                        *)
ListDistinct == \A j, k \in Goroutines : list[j] = list[k] => j = k

(* Every listed process has a keyword.                                     *)
ListedHaveKeywords == \A k \in Goroutines : KwOf(list[k]) # {}

(* A platform process with a keyword that the scan did not list was dead  *)
(* when the scan ran, and stays dead.                                      *)
UnlistedPlatformDead ==
  mpc # "scan" =>
    \A q \in Yuanrong :
      KwOf(q) # {} /\ (\A k \in Goroutines : list[k] # q) => life[q] = "dead"

(* The strengthening of the invariants on the scan and the WaitGroup.     *)
ListInv ==
  /\ TypeOK
  /\ AliveDistinct
  /\ WaitGroupCounts
  /\ ListDistinct
  /\ ListedHaveKeywords
  /\ UnlistedPlatformDead

-----------------------------------------------------------------------------
(* A process of the platform that no process is found under its PID for,  *)
(* is dead.                                                                *)
LEMMA FreePidMeansDead ==
  ASSUME HandleInv, NEW p \in Yuanrong, Holder(PidOf[p]) = {}
  PROVE  life[p] = "dead"
<1>1. p \in Procs /\ life[p] \in {"alive", "dead"}
  BY ProcsAssumption DEF HandleInv
<1> QED
  BY <1>1 DEF Holder

LEMMA InitHandleInv == Init => HandleInv
BY ProcsAssumption DEF Init, HandleInv, Goroutines

(* The scan binds its stages one after the other: the list is the ordered *)
(* result for some order of each process's keyword visit.                 *)
LEMMA ScanEffect ==
  ASSUME Scan
  PROVE  \E v \in [Procs -> UNION { Visits(q) : q \in Procs }] :
           /\ \A q \in Procs : v[q] \in Visits(q)
           /\ list' = Grouped(ByGroup(Filtered(Listed, v)))
           /\ gpc' = [k \in 1 .. Len(list') |-> "term"]
           /\ poll' = [k \in 1 .. Len(list') |-> "none"]
           /\ wg' = Len(list')
           /\ mpc' = IF list' = << >> THEN "finished" ELSE "wait"
<1>1. PICK v \in [Procs -> UNION { Visits(q) : q \in Procs }] :
        /\ \A q \in Procs : v[q] \in Visits(q)
        /\ \E filtered \in {Filtered(Listed, v)} :
           \E all \in {ByGroup(filtered)} :
           \E ordered \in {Grouped(all)} :
              /\ list' = ordered
              /\ gpc' = [k \in 1 .. Len(ordered) |-> "term"]
              /\ poll' = [k \in 1 .. Len(ordered) |-> "none"]
              /\ wg' = Len(ordered)
              /\ mpc' = IF ordered = << >> THEN "finished" ELSE "wait"
  BY DEF Scan
<1> QED
  BY <1>1, Zenon

(* The scan lists the processes and starts the goroutines: whatever it     *)
(* lists, every goroutine is at its SIGTERM and no signal was sent yet.    *)
LEMMA ScanHandleInv ==
  ASSUME HandleInv, Scan
  PROVE  HandleInv'
<1>1. /\ gpc' = [k \in 1 .. Len(list') |-> "term"]
      /\ poll' = [k \in 1 .. Len(list') |-> "none"]
  BY ScanEffect
<1>2. /\ DOMAIN gpc' = Goroutines' /\ DOMAIN poll' = Goroutines'
      /\ \A k \in Goroutines' : gpc'[k] = "term" /\ poll'[k] = "none"
  BY <1>1 DEF Goroutines
<1>3. mpc = "scan" /\ UNCHANGED <<life, signalled>> /\ mpc' # "scan"
  BY ScanEffect DEF Scan
<1>4. \A q \in Procs : signalled'[q] = {}
  BY <1>3 DEF HandleInv
<1>5. life' \in [Procs -> {"unborn", "alive", "dead"}]
      /\ signalled' \in [Procs -> SUBSET {"TERM", "KILL"}]
      /\ \A q \in Yuanrong : life'[q] \in {"alive", "dead"}
  BY <1>3 DEF HandleInv
<1>6. \A k \in Goroutines' :
        ~(gpc'[k] = "done" \/ poll'[k] = "sending")
  BY <1>2
<1> QED
  BY <1>2, <1>3, <1>4, <1>5, <1>6 DEF HandleInv

(* SIGTERM: a failure returns with the PID free; a success signals the    *)
(* holder of a listed PID.                                                 *)
LEMMA TermHandleInv ==
  ASSUME HandleInv, NEW k \in Goroutines, Term(k)
  PROVE  HandleInv'
<1> USE DEF HandleInv
<1>1. UNCHANGED <<life, mpc, list>> /\ gpc[k] = "term"
  BY DEF Term
<1>2. CASE Holder(PidOf[list[k]]) = {}
  <2>1. gpc' = [gpc EXCEPT ![k] = "done"] /\ UNCHANGED <<signalled, poll>>
    BY <1>2 DEF Term, Return
  <2>2. list[k] \in Yuanrong => life[list[k]] = "dead"
    BY <1>2, FreePidMeansDead
  <2> QED
    BY <1>1, <2>1, <2>2 DEF Goroutines
<1>3. CASE Holder(PidOf[list[k]]) # {}
  <2>1. /\ signalled' = [q \in Procs |->
               IF q \in Holder(PidOf[list[k]]) THEN signalled[q] \cup {"TERM"}
               ELSE signalled[q]]
        /\ gpc' = [gpc EXCEPT ![k] = "wait"]
        /\ poll' = [poll EXCEPT ![k] = "polling"]
    BY <1>3 DEF Term
  <2>2. \A q \in Holder(PidOf[list[k]]) : PidOf[q] = PidOf[list[k]]
    BY DEF Holder
  <2>3. mpc # "scan"
    BY DEF Goroutines
  <2> QED
    BY <1>1, <2>1, <2>2, <2>3 DEF Goroutines
<1> QED
  BY <1>2, <1>3

(* The probe finds the PID free, the report is received, the grace timer  *)
(* fires.                                                                  *)
LEMMA PollHandleInv ==
  ASSUME HandleInv, NEW k \in Goroutines,
         ProbeFails(k) \/ ExitSeen(k) \/ GraceExpires(k)
  PROVE  HandleInv'
<1> USE DEF HandleInv
<1>1. CASE ProbeFails(k)
  <2>1. list[k] \in Yuanrong => life[list[k]] = "dead"
    BY <1>1, FreePidMeansDead DEF ProbeFails
  <2> QED
    BY <1>1, <2>1 DEF ProbeFails, Goroutines
<1>2. CASE ExitSeen(k)
  BY <1>2 DEF ExitSeen, Return, Goroutines
<1>3. CASE GraceExpires(k)
  BY <1>3 DEF GraceExpires, Goroutines
<1> QED
  BY <1>1, <1>2, <1>3

(* SIGKILL: every holder of the PID dies, the listed process among them if *)
(* it still lives.                                                         *)
LEMMA KillHandleInv ==
  ASSUME HandleInv, NEW k \in Goroutines, Kill(k)
  PROVE  HandleInv'
<1> USE DEF HandleInv
<1> DEFINE H == Holder(PidOf[list[k]])
<1>1. /\ signalled' = [q \in Procs |->
             IF q \in H THEN signalled[q] \cup {"KILL"} ELSE signalled[q]]
      /\ life' = [q \in Procs |-> IF q \in H THEN "dead" ELSE life[q]]
      /\ gpc' = [gpc EXCEPT ![k] = "done"]
      /\ UNCHANGED <<mpc, list, poll>>
  BY DEF Kill, Return
<1>2. list[k] \in Yuanrong => life'[list[k]] = "dead"
  <2> SUFFICES ASSUME list[k] \in Yuanrong PROVE life'[list[k]] = "dead"
    OBVIOUS
  <2>1. list[k] \in Procs
    BY ProcsAssumption
  <2>2. life[list[k]] = "alive" => list[k] \in H
    BY <2>1 DEF Holder
  <2> QED
    BY <1>1, <2>1, <2>2
<1>3. \A q \in H : PidOf[q] = PidOf[list[k]]
  BY DEF Holder
<1>4. mpc # "scan" /\ Goroutines' = Goroutines
  BY <1>1 DEF Goroutines
<1>5. life' \in [Procs -> {"unborn", "alive", "dead"}]
      /\ \A q \in Yuanrong : life'[q] \in {"alive", "dead"}
  BY <1>1, ProcsAssumption
<1>6. \A j \in Goroutines' :
        list'[j] \in Yuanrong /\ (gpc'[j] = "done" \/ poll'[j] = "sending")
          => life'[list'[j]] = "dead"
  <2> SUFFICES ASSUME NEW j \in Goroutines, list[j] \in Yuanrong,
                      gpc'[j] = "done" \/ poll'[j] = "sending"
               PROVE  life'[list[j]] = "dead"
    BY <1>1, <1>4
  <2>1. CASE j = k
    BY <1>2, <2>1
  <2>2. CASE j # k
    <3>1. gpc[j] = "done" \/ poll[j] = "sending"
      BY <1>1, <2>2
    <3>2. life[list[j]] = "dead" /\ list[j] \in Procs
      BY <3>1, ProcsAssumption
    <3> QED
      BY <1>1, <3>2
  <2> QED
    BY <2>1, <2>2
<1>7. signalled' \in [Procs -> SUBSET {"TERM", "KILL"}]
      /\ \A q \in Procs :
           signalled'[q] # {} => \E j \in Goroutines' : PidOf[q] = PidOf[list'[j]]
  BY <1>1, <1>3, <1>4
<1> QED
  BY <1>1, <1>4, <1>5, <1>6, <1>7

(* The processes of the node: an exit kills, a start is not the            *)
(* platform's.                                                             *)
LEMMA EnvHandleInv ==
  ASSUME HandleInv, NEW q \in Procs, ProcessExits(q) \/ ProcessStarts(q)
  PROVE  HandleInv'
<1> USE DEF HandleInv
<1>1. CASE ProcessExits(q)
  BY <1>1 DEF ProcessExits, Goroutines
<1>2. CASE ProcessStarts(q)
  BY <1>2 DEF ProcessStarts, Goroutines
<1> QED
  BY <1>1, <1>2

-----------------------------------------------------------------------------
(* The goroutines that have not returned are finitely many, at most one    *)
(* per listed process.                                                     *)
LEMMA RunningFinite ==
  ASSUME list \in Seq(Procs)
  PROVE  IsFiniteSet(Running) /\ Cardinality(Running) \in 0 .. Len(list)
<1>0. Len(list) \in Nat
  OBVIOUS
<1>1. IsFiniteSet(1 .. Len(list)) /\ Cardinality(1 .. Len(list)) = Len(list)
  BY <1>0, FS_Interval
<1>2. Running \subseteq 1 .. Len(list)
  BY DEF Running, Goroutines
<1>3. IsFiniteSet(Running) /\ Cardinality(Running) <= Len(list)
  BY <1>1, <1>2, FS_Subset
<1> QED
  BY <1>3, FS_CardinalityType

LEMMA InitListInv == Init => ListInv
<1> SUFFICES ASSUME Init PROVE ListInv
  OBVIOUS
<1>1. TypeOK
  BY ProcsAssumption DEF Init, TypeOK, Goroutines
<1>2. AliveDistinct
  BY ProcsAssumption DEF Init, AliveDistinct
<1> QED
  BY <1>1, <1>2 DEF Init, ListInv, Goroutines, WaitGroupCounts, ListDistinct,
                    ListedHaveKeywords, UnlistedPlatformDead

(* The scan: the list is every live process with a keyword, each once, and *)
(* every goroutine has still to return.                                    *)
LEMMA ScanListInv ==
  ASSUME HandleInv, ListInv, Scan
  PROVE  ListInv'
<1>1. PICK v \in [Procs -> UNION { Visits(q) : q \in Procs }] :
        /\ \A q \in Procs : v[q] \in Visits(q)
        /\ list' = Grouped(ByGroup(Filtered(Listed, v)))
        /\ gpc' = [k \in 1 .. Len(list') |-> "term"]
        /\ poll' = [k \in 1 .. Len(list') |-> "none"]
        /\ wg' = Len(list')
        /\ mpc' = IF list' = << >> THEN "finished" ELSE "wait"
  BY ScanEffect
<1>2. /\ list' \in Seq(Procs)
      /\ IsInjective(list')
      /\ Range(list') = KeywordProcesses
  BY <1>1, ScanListsKeywordProcesses DEF ListInv, TypeOK
<1>3. UNCHANGED <<life, signalled>>
  BY DEF Scan
<1>4. Running' = 1 .. Len(list') /\ Cardinality(Running') = Len(list')
  <2>1. Len(list') \in Nat /\ DOMAIN list' = 1 .. Len(list')
    BY <1>2
  <2>2. Running' = 1 .. Len(list')
    BY <1>1, <2>1 DEF Running, Goroutines
  <2> QED
    BY <2>1, <2>2, FS_Interval
<1>5. TypeOK'
  BY <1>1, <1>2, <1>3 DEF ListInv, TypeOK, Goroutines
<1>6. AliveDistinct'
  BY <1>3 DEF ListInv, AliveDistinct
<1>7. mpc' # "scan" /\ wg' = Cardinality(Running')
  BY <1>1, <1>4
<1>8. mpc' = "finished" => Running' = {}
  BY <1>1, <1>4
<1>9. \A j, k \in Goroutines' : list'[j] = list'[k] => j = k
  BY <1>2 DEF IsInjective, Goroutines
<1>10. \A k \in Goroutines' : KwOf(list'[k]) # {}
  <2>1. DOMAIN list' = 1 .. Len(list')
    BY <1>2
  <2>2. \A k \in Goroutines' : list'[k] \in KeywordProcesses
    BY <1>2, <2>1 DEF Range, Goroutines
  <2> QED
    BY <2>2 DEF KeywordProcesses
<1>11. \A q \in Yuanrong :
         KwOf(q) # {} /\ (\A k \in Goroutines' : list'[k] # q)
           => life'[q] = "dead"
  <2> SUFFICES ASSUME NEW q \in Yuanrong, KwOf(q) # {},
                      \A k \in Goroutines' : list'[k] # q
               PROVE  life'[q] = "dead"
    OBVIOUS
  <2>1. q \notin KeywordProcesses
    BY <1>2 DEF Range, Goroutines
  <2>2. q \in Procs /\ life[q] \in {"alive", "dead"}
    BY ProcsAssumption DEF HandleInv
  <2> QED
    BY <1>3, <2>1, <2>2 DEF KeywordProcesses
<1> QED
  BY <1>5, <1>6, <1>7, <1>8, <1>9, <1>10, <1>11
  DEF ListInv, WaitGroupCounts, ListDistinct, ListedHaveKeywords,
      UnlistedPlatformDead

(* A step that keeps the list and kills no platform process back to life  *)
(* keeps the facts about the list.                                         *)
LEMMA KeepList ==
  ASSUME ListInv, UNCHANGED <<mpc, list>>,
         \A q \in Yuanrong : life[q] = "dead" => life'[q] = "dead"
  PROVE  ListDistinct' /\ ListedHaveKeywords' /\ UnlistedPlatformDead'
BY DEF ListInv, ListDistinct, ListedHaveKeywords, UnlistedPlatformDead, Goroutines

(* The deferred wg.Done of a goroutine that had not returned: the counter  *)
(* and the goroutines still running go down by one together.               *)
LEMMA ReturnRunning ==
  ASSUME ListInv, NEW k \in Goroutines, gpc[k] # "done", Return(k),
         UNCHANGED <<mpc, list>>
  PROVE  /\ WaitGroupCounts'
         /\ gpc' \in [Goroutines' -> {"term", "wait", "kill", "done"}]
         /\ wg' \in 0 .. Len(list')
<1>1. k \in Running /\ list # << >>
  BY DEF Running, Goroutines
<1>2. mpc \notin {"scan", "finished"}
  BY <1>1 DEF ListInv, WaitGroupCounts
<1>3. Running' = Running \ {k}
  BY DEF Return, Running, Goroutines, ListInv, TypeOK
<1>4. IsFiniteSet(Running) /\ Cardinality(Running) \in 0 .. Len(list)
  BY RunningFinite DEF ListInv, TypeOK
<1>5. IsFiniteSet(Running') /\ Cardinality(Running') = Cardinality(Running) - 1
  BY <1>1, <1>3, <1>4, FS_RemoveElement
<1>6. wg' = Cardinality(Running')
  BY <1>2, <1>5 DEF Return, ListInv, WaitGroupCounts
<1>7. WaitGroupCounts'
  BY <1>2, <1>6 DEF WaitGroupCounts
<1>8. gpc' \in [Goroutines' -> {"term", "wait", "kill", "done"}]
  BY DEF Return, ListInv, TypeOK, Goroutines
<1>9. Cardinality(Running) # 0
  BY <1>1, <1>4, FS_EmptySet
<1>10. wg' \in 0 .. Len(list')
  BY <1>4, <1>5, <1>6, <1>9
<1> QED
  BY <1>7, <1>8, <1>10

(* SIGTERM: the goroutine returns when the PID is free, or waits.          *)
LEMMA TermListInv ==
  ASSUME HandleInv, ListInv, NEW k \in Goroutines, Term(k)
  PROVE  ListInv'
<1>1. UNCHANGED <<life, mpc, list>> /\ gpc[k] = "term"
  BY DEF Term
<1>2. ListDistinct' /\ ListedHaveKeywords' /\ UnlistedPlatformDead'
  BY <1>1, KeepList
<1>3. AliveDistinct'
  BY <1>1 DEF ListInv, AliveDistinct
<1>4. signalled' \in [Procs -> SUBSET {"TERM", "KILL"}]
  BY DEF Term, ListInv, TypeOK
<1>5. CASE Holder(PidOf[list[k]]) = {}
  <2>1. Return(k) /\ UNCHANGED <<signalled, poll>>
    BY <1>5 DEF Term
  <2>2. WaitGroupCounts' /\ gpc' \in [Goroutines' -> {"term", "wait", "kill", "done"}]
        /\ wg' \in 0 .. Len(list')
    BY <1>1, <2>1, ReturnRunning
  <2> QED
    BY <1>1, <1>2, <1>3, <2>1, <2>2 DEF ListInv, TypeOK, Goroutines
<1>6. CASE Holder(PidOf[list[k]]) # {}
  <2>1. /\ gpc' = [gpc EXCEPT ![k] = "wait"]
        /\ poll' = [poll EXCEPT ![k] = "polling"]
        /\ UNCHANGED wg
    BY <1>6 DEF Term
  <2>2. Running' = Running
    BY <1>1, <2>1 DEF Running, Goroutines, ListInv, TypeOK
  <2>3. WaitGroupCounts'
    BY <1>1, <2>1, <2>2 DEF ListInv, WaitGroupCounts
  <2> QED
    BY <1>1, <1>2, <1>3, <1>4, <2>1, <2>3 DEF ListInv, TypeOK, Goroutines
<1> QED
  BY <1>5, <1>6

(* The poller finds the PID free: only its report changes.                *)
LEMMA ProbeFailsListInv ==
  ASSUME ListInv, NEW k \in Goroutines, ProbeFails(k)
  PROVE  ListInv'
<1>1. UNCHANGED <<life, signalled, mpc, list, gpc, wg>>
  BY DEF ProbeFails
<1>2. Running' = Running
  BY <1>1 DEF Running, Goroutines
<1>3. poll' \in [Goroutines' -> {"none", "polling", "sending", "exited"}]
  BY <1>1 DEF ProbeFails, ListInv, TypeOK, Goroutines
<1>4. ListDistinct' /\ ListedHaveKeywords' /\ UnlistedPlatformDead'
  BY <1>1, KeepList
<1>5. WaitGroupCounts'
  BY <1>1, <1>2 DEF ListInv, WaitGroupCounts
<1> QED
  BY <1>1, <1>3, <1>4, <1>5 DEF ListInv, TypeOK, Goroutines, AliveDistinct

(* The select receives the poller's report: the goroutine returns.        *)
LEMMA ExitSeenListInv ==
  ASSUME ListInv, NEW k \in Goroutines, ExitSeen(k)
  PROVE  ListInv'
<1>1. UNCHANGED <<life, signalled, mpc, list>> /\ gpc[k] = "wait"
  BY DEF ExitSeen
<1>2. /\ WaitGroupCounts'
      /\ gpc' \in [Goroutines' -> {"term", "wait", "kill", "done"}]
      /\ wg' \in 0 .. Len(list')
  BY <1>1, ReturnRunning DEF ExitSeen
<1>3. poll' \in [Goroutines' -> {"none", "polling", "sending", "exited"}]
  BY <1>1 DEF ExitSeen, ListInv, TypeOK, Goroutines
<1>4. ListDistinct' /\ ListedHaveKeywords' /\ UnlistedPlatformDead'
  BY <1>1, KeepList
<1> QED
  BY <1>1, <1>2, <1>3, <1>4 DEF ListInv, TypeOK, AliveDistinct

(* The grace timer fires: the goroutine goes on to SIGKILL.               *)
LEMMA GraceListInv ==
  ASSUME ListInv, NEW k \in Goroutines, GraceExpires(k)
  PROVE  ListInv'
<1>1. UNCHANGED <<life, signalled, mpc, list, poll, wg>> /\ gpc[k] = "wait"
  /\ gpc' = [gpc EXCEPT ![k] = "kill"]
  BY DEF GraceExpires
<1>2. Running' = Running
  BY <1>1 DEF Running, Goroutines, ListInv, TypeOK
<1>3. gpc' \in [Goroutines' -> {"term", "wait", "kill", "done"}]
  BY <1>1 DEF ListInv, TypeOK, Goroutines
<1>4. ListDistinct' /\ ListedHaveKeywords' /\ UnlistedPlatformDead'
  BY <1>1, KeepList
<1> QED
  BY <1>1, <1>2, <1>3, <1>4 DEF ListInv, TypeOK, AliveDistinct, WaitGroupCounts

(* SIGKILL: the holders of the PID die and the goroutine returns.  Nobody *)
(* comes alive, so no two live processes come to share a PID.             *)
LEMMA KillListInv ==
  ASSUME ListInv, NEW k \in Goroutines, Kill(k)
  PROVE  ListInv'
<1>1. UNCHANGED <<mpc, list, poll>> /\ gpc[k] = "kill"
  BY DEF Kill
<1>2. \A q \in Procs : life'[q] = IF q \in Holder(PidOf[list[k]]) THEN "dead"
                                                                 ELSE life[q]
  BY DEF Kill
<1>3. life' \in [Procs -> {"unborn", "alive", "dead"}]
  BY DEF Kill, ListInv, TypeOK
<1>4. \A q \in Procs : life'[q] = "alive" => life[q] = "alive"
  BY <1>2
<1>5. \A q \in Procs : life[q] = "dead" => life'[q] = "dead"
  BY <1>2
<1>6. AliveDistinct'
  BY <1>4 DEF ListInv, AliveDistinct
<1>7. signalled' \in [Procs -> SUBSET {"TERM", "KILL"}]
  BY DEF Kill, ListInv, TypeOK
<1>8. /\ WaitGroupCounts'
      /\ gpc' \in [Goroutines' -> {"term", "wait", "kill", "done"}]
      /\ wg' \in 0 .. Len(list')
  BY <1>1, ReturnRunning DEF Kill
<1>9. ListDistinct' /\ ListedHaveKeywords' /\ UnlistedPlatformDead'
  BY <1>1, <1>5, KeepList, ProcsAssumption
<1> QED
  BY <1>1, <1>3, <1>6, <1>7, <1>8, <1>9 DEF ListInv, TypeOK, Goroutines

(* wg.Wait returns: the counter is zero, so every goroutine has returned. *)
LEMMA FinishListInv ==
  ASSUME ListInv, Finish
  PROVE  ListInv'
<1>1. UNCHANGED <<life, signalled, list, gpc, poll, wg>> /\ mpc = "wait"
      /\ wg = 0 /\ mpc' = "finished"
  BY DEF Finish
<1>2. IsFiniteSet(Running) /\ Cardinality(Running) = 0
  BY <1>1, RunningFinite DEF ListInv, TypeOK, WaitGroupCounts
<1>3. Running = {}
  BY <1>2, FS_EmptySet
<1>4. Running' = Running
  BY <1>1 DEF Running, Goroutines
<1>5. WaitGroupCounts'
  BY <1>1, <1>3, <1>4, FS_EmptySet DEF WaitGroupCounts
<1>6. ListDistinct' /\ ListedHaveKeywords' /\ UnlistedPlatformDead'
  BY <1>1 DEF ListInv, ListDistinct, ListedHaveKeywords, UnlistedPlatformDead,
     Goroutines
<1> QED
  BY <1>1, <1>5, <1>6 DEF ListInv, TypeOK, Goroutines, AliveDistinct

(* A process exits: nobody comes alive and the dead stay dead.            *)
LEMMA ExitsListInv ==
  ASSUME ListInv, NEW q \in Procs, ProcessExits(q)
  PROVE  ListInv'
<1>1. UNCHANGED <<signalled, mpc, list, gpc, poll, wg>>
      /\ life' = [life EXCEPT ![q] = "dead"]
  BY DEF ProcessExits
<1>2. life' \in [Procs -> {"unborn", "alive", "dead"}]
  BY <1>1 DEF ListInv, TypeOK
<1>3. \A r \in Procs : life'[r] = "alive" => life[r] = "alive"
  BY <1>1 DEF ListInv, TypeOK
<1>4. \A r \in Procs : life[r] = "dead" => life'[r] = "dead"
  BY <1>1 DEF ListInv, TypeOK
<1>5. AliveDistinct'
  BY <1>3 DEF ListInv, AliveDistinct
<1>6. Running' = Running
  BY <1>1 DEF Running, Goroutines
<1>7. ListDistinct' /\ ListedHaveKeywords' /\ UnlistedPlatformDead'
  BY <1>1, <1>4, KeepList, ProcsAssumption
<1> QED
  BY <1>1, <1>2, <1>5, <1>6, <1>7 DEF ListInv, TypeOK, Goroutines,
     WaitGroupCounts

(* A process outside the platform starts under a PID nobody holds: the    *)
(* live processes keep distinct PIDs and no platform process changes.     *)
LEMMA StartsListInv ==
  ASSUME ListInv, NEW q \in Procs, ProcessStarts(q)
  PROVE  ListInv'
<1>1. UNCHANGED <<signalled, mpc, list, gpc, poll, wg>>
      /\ life' = [life EXCEPT ![q] = "alive"]
      /\ life[q] = "unborn" /\ q \notin Yuanrong /\ Holder(PidOf[q]) = {}
  BY DEF ProcessStarts
<1>2. life' \in [Procs -> {"unborn", "alive", "dead"}]
  BY <1>1 DEF ListInv, TypeOK
<1>3. \A r \in Procs \ {q} : life'[r] = life[r]
  BY <1>1 DEF ListInv, TypeOK
<1>4. \A r \in Procs \ {q} : life[r] = "alive" => PidOf[r] # PidOf[q]
  BY <1>1 DEF Holder
<1>5. AliveDistinct'
  <2> SUFFICES ASSUME NEW a \in Procs, NEW b \in Procs,
                      life'[a] = "alive", life'[b] = "alive",
                      PidOf[a] = PidOf[b]
               PROVE  a = b
    BY DEF AliveDistinct
  <2>1. CASE a # q /\ b # q
    BY <1>3, <2>1 DEF ListInv, AliveDistinct
  <2>2. CASE a = q \/ b = q
    BY <1>3, <1>4, <2>2
  <2> QED
    BY <2>1, <2>2
<1>6. \A r \in Yuanrong : life'[r] = life[r]
  BY <1>1, <1>3, ProcsAssumption
<1>7. Running' = Running
  BY <1>1 DEF Running, Goroutines
<1>8. ListDistinct' /\ ListedHaveKeywords' /\ UnlistedPlatformDead'
  BY <1>1, <1>6, KeepList
<1> QED
  BY <1>1, <1>2, <1>5, <1>7, <1>8 DEF ListInv, TypeOK, Goroutines,
     WaitGroupCounts

LEMMA NextHandleInv == HandleInv /\ [Next]_vars => HandleInv'
<1> SUFFICES ASSUME HandleInv, [Next]_vars PROVE HandleInv'
  OBVIOUS
<1>1. CASE Scan
  BY <1>1, ScanHandleInv
<1>2. CASE Finish
  BY <1>2 DEF Finish, HandleInv, Goroutines
<1>3. CASE \E k \in Goroutines : Term(k) \/ ProbeFails(k) \/ ExitSeen(k)
                                \/ GraceExpires(k) \/ Kill(k)
  BY <1>3, TermHandleInv, PollHandleInv, KillHandleInv
<1>4. CASE \E q \in Procs : ProcessExits(q) \/ ProcessStarts(q)
  BY <1>4, EnvHandleInv
<1>5. CASE UNCHANGED vars
  BY <1>5 DEF vars, HandleInv, Goroutines
<1> QED
  BY <1>1, <1>2, <1>3, <1>4, <1>5 DEF Next

LEMMA NextListInv == HandleInv /\ ListInv /\ [Next]_vars => ListInv'
<1> SUFFICES ASSUME HandleInv, ListInv, [Next]_vars PROVE ListInv'
  OBVIOUS
<1>1. CASE Scan
  BY <1>1, ScanListInv
<1>2. CASE Finish
  BY <1>2, FinishListInv
<1>3. ASSUME NEW k \in Goroutines,
             Term(k) \/ ProbeFails(k) \/ ExitSeen(k) \/ GraceExpires(k) \/ Kill(k)
      PROVE  ListInv'
  BY <1>3, TermListInv, ProbeFailsListInv, ExitSeenListInv, GraceListInv,
     KillListInv
<1>4. ASSUME NEW q \in Procs, ProcessExits(q) \/ ProcessStarts(q)
      PROVE  ListInv'
  BY <1>4, ExitsListInv, StartsListInv
<1>5. CASE UNCHANGED vars
  <2>1. UNCHANGED <<life, signalled, mpc, list, gpc, poll, wg>>
    BY <1>5 DEF vars
  <2>2. Running' = Running
    BY <2>1 DEF Running, Goroutines
  <2> QED
    BY <2>1, <2>2 DEF ListInv, TypeOK, Goroutines, AliveDistinct,
       WaitGroupCounts, ListDistinct, ListedHaveKeywords, UnlistedPlatformDead
<1> QED
  BY <1>1, <1>2, <1>3, <1>4, <1>5 DEF Next

(* The inductive invariant of the stop.                                    *)
StopInv == HandleInv /\ ListInv

LEMMA StopInvInductive == Init /\ [][Next]_vars => []StopInv
<1>1. Init => StopInv
  BY InitHandleInv, InitListInv DEF StopInv
<1>2. StopInv /\ [Next]_vars => StopInv'
  BY NextHandleInv, NextListInv DEF StopInv
<1> QED
  BY <1>1, <1>2, PTL

(* Whatever the scan lists and whoever takes a freed PID, a goroutine of  *)
(* handleProcess calls wg.Done only once the platform process it was      *)
(* given is dead.  TLC checks, on the instance of yrstop_safe, that the   *)
(* scan lists every platform process (NoPlatformProcessLeft).              *)
THEOREM HandledProcessesDead == Spec => []HandledPlatformProcessDead
<1>1. HandleInv => HandledPlatformProcessDead
  BY DEF HandleInv, HandledPlatformProcessDead
<1> QED
  BY <1>1, InitHandleInv, NextHandleInv, PTL DEF Spec

(* `yr stop` never signals a process that does not hold a PID its scan    *)
(* listed.  When no PID is used twice, only the listed processes are       *)
(* signalled; when a PID is taken again during the stop, its new holder    *)
(* is (run stop_pid_reuse).                                                *)
THEOREM SignalsFollowListedPids == Spec => []SignalsOnlyToListedPids
<1>1. HandleInv => SignalsOnlyToListedPids
  BY DEF HandleInv, SignalsOnlyToListedPids
<1> QED
  BY <1>1, InitHandleInv, NextHandleInv, PTL DEF Spec
-----------------------------------------------------------------------------
(* The hypotheses on the node that the keyword filter of                  *)
(* yrStopYuanRong is written for: every platform process has one of the   *)
(* keywords in its path or arguments, no other process has, and no other  *)
(* process is given a platform process's PID.  Each is a hypothesis of    *)
(* the theorem that needs it, not an assumption on the model: a user's    *)
(* `tail -f .../runtime/log` (ShellArgKw of MC_StopProcesses) breaks the   *)
(* second, the PID reuse of run stop_pid_reuse the third.                  *)
PlatformHasKeywords == \A q \in Yuanrong : KwOf(q) # {}

OthersHaveNoKeywords == \A q \in Procs \ Yuanrong : KwOf(q) = {}

PlatformPidsNotReused ==
  \A q \in Procs, r \in Yuanrong : PidOf[q] = PidOf[r] => q = r

(* What the invariant gives for the three properties of the runs.        *)
LEMMA StopInvEachOnce == StopInv => EachProcessOnce
BY DEF StopInv, ListInv, ListDistinct, EachProcessOnce

LEMMA StopInvPlatformStopped ==
  ASSUME PlatformHasKeywords, StopInv
  PROVE  NoPlatformProcessLeft
<1> SUFFICES ASSUME mpc = "finished", NEW q \in Yuanrong
             PROVE  life[q] = "dead"
  BY DEF NoPlatformProcessLeft
<1>1. \A k \in Goroutines : gpc[k] = "done"
  BY DEF StopInv, ListInv, WaitGroupCounts, Running
<1>2. CASE \E k \in Goroutines : list[k] = q
  BY <1>1, <1>2 DEF StopInv, HandleInv
<1>3. CASE \A k \in Goroutines : list[k] # q
  BY <1>3 DEF StopInv, ListInv, UnlistedPlatformDead, PlatformHasKeywords
<1> QED
  BY <1>2, <1>3

LEMMA StopInvOnlyPlatform ==
  ASSUME OthersHaveNoKeywords, PlatformPidsNotReused, StopInv
  PROVE  OnlyPlatformSignalled
<1> SUFFICES ASSUME NEW q \in Procs \ Yuanrong, signalled[q] # {}
             PROVE  FALSE
  BY DEF OnlyPlatformSignalled
<1>1. PICK k \in Goroutines : PidOf[q] = PidOf[list[k]]
  BY DEF StopInv, HandleInv
<1>2. list[k] \in Procs /\ KwOf(list[k]) # {}
  BY DEF StopInv, ListInv, TypeOK, ListedHaveKeywords, Goroutines
<1>3. list[k] \in Yuanrong
  BY <1>2 DEF OthersHaveNoKeywords
<1> QED
  BY <1>1, <1>3 DEF PlatformPidsNotReused

(* Every state of `yr stop` is well typed: the WaitGroup counter stays    *)
(* between zero and the number of listed processes.                        *)
THEOREM TypeCorrect == Spec => []TypeOK
<1>1. StopInv => TypeOK
  BY DEF StopInv, ListInv
<1> QED
  BY <1>1, StopInvInductive, PTL DEF Spec

(* No two goroutines of handleProcess are given the same process, for any *)
(* number of keywords it matches and any order of the filter's map.       *)
THEOREM EachProcessStoppedOnce == Spec => []EachProcessOnce
BY StopInvEachOnce, StopInvInductive, PTL DEF Spec

(* When wg.Wait returns, no platform process is alive, provided each has  *)
(* a keyword: every goroutine has returned, so each listed process is     *)
(* dead, and a platform process the scan did not list was already dead.   *)
THEOREM PlatformStopped ==
  ASSUME PlatformHasKeywords
  PROVE  Spec => []NoPlatformProcessLeft
<1>1. StopInv => NoPlatformProcessLeft
  BY StopInvPlatformStopped
<1> QED
  BY <1>1, StopInvInductive, PTL DEF Spec

(* `yr stop` signals no process outside the platform, provided no other   *)
(* process has a keyword or a platform process's PID: a signal goes to    *)
(* the holder of a listed PID, a listed process has a keyword and so      *)
(* belongs to the platform, and only it holds that PID.                   *)
THEOREM OnlyPlatformProcessesSignalled ==
  ASSUME OthersHaveNoKeywords, PlatformPidsNotReused
  PROVE  Spec => []OnlyPlatformSignalled
<1>1. StopInv => OnlyPlatformSignalled
  BY StopInvOnlyPlatform
<1> QED
  BY <1>1, StopInvInductive, PTL DEF Spec
=============================================================================
