# Formal models of the `yr` command-line tool

This directory holds TLA+ models of the Go sources under
`src/functionsystem/pkg/cli`. It also holds the TLC configurations that
model-check them and the TLAPS proofs about them. `PROJECT.json` lists every
component, run, mutant, mapping from definitions to source lines, finding,
hazard and theorem. This file explains them.

## 1. The system

`yr` is a CLI with three commands: `start`, `stop` and `status`. It also has
a colour-printing library for its console output.

| Part | Source | State and operations | Concurrency |
|---|---|---|---|
| Keyword matcher | `utils/colorprint/ac.go` | Trie of the keywords (`addPattern`). BFS computation of failure links (`buildTrie`, `getTrieChild`). A left-to-right walk that cuts a line into literal and keyword segments (`splitWithAC`), with the overlap "roll back" of `matchString`. | none; a fresh automaton per call |
| Colour configuration | `colorprint.go`, `types.go`, `colorprint_unix.go` | `PrintStringConfig.ColorConfig`, a map keyword → colour. `NewColorConfig` points it at the package-global `defaultColorConfig` (no copy). `Add/DeleteColorConfig` mutate it. `split` builds an automaton, splits on `\n` and runs `splitWithAC` per line. Printing colours a segment iff it is a key. | a process-wide map shared by every configuration |
| `yr start` | `cmd/start/yr_start.go`, `utils/cmd_args.go` | The policy for the "current master info" link (`checkIfNodeAlreadyStartedYuanRong`). Launching `deploy.sh` (`ExecCommandUntil`). Readiness pollers on marker files and the deploy log (`untilMasterDeploySucceed`, `untilAgentDeploySucceed`). Symlinks (`yrMakeSymbolLink`, `CreateSymbolicLinkWithForce`). Block mode with a signal handler (`blockRun`). | A select among three goroutines: the poller, `cmd.Wait`, and the timeout. The signal goroutine. Concurrent invocations share `/tmp/yr_sessions`. |
| Master info | `utils/masterinfo.go` | Parsing of `k:v,k:v` (`ExtractMasterInfo`), `IsMasterNode`, `IsSameCluster` (sorts both lists in place). | none |
| `yr stop` | `cmd/stop/yr_stop.go`, `pkg/progress/progress.go` | Removes the current-master-info link. Scans `/proc`, filters by keyword (`filterProcesses`), orders by keyword group with PID dedup (`groupProcessesByKeywords`). For each process, SIGTERM then a race of the grace timer against an exit poller, then SIGKILL (`handleProcess`, `checkProcessExit`). A `WaitGroup` join. A spinner goroutine closed by `Done`. | one goroutine per process, the poller goroutines, the spinner |
| `yr status`, flags, version, `localip`, `raw`, `reader`, `memory` | `cmd/status`, `cmd/root.go`, `utils/*.go` | an etcd query and printing; flag definitions; pure string helpers | none |

The parts interact as follows:

- `start` and `stop` print through the colour library.
- `start` reads the master info that an earlier `start` left behind the link `/tmp/yr_sessions/yr_current_master_info`, and replaces that link.
- `stop` deletes the link.

Two invocations on one node can interleave these file operations.

## 2. Modules

| Module | Models | Status |
|---|---|---|
| `ACSplit` | `splitWithAC` and `matchString` (ac.go 101-144), with the trie of `addPattern` given by its nodes | done |
| `MC_ACSplit` | TLC instance: alphabet {1,2}, lines of up to 6 runes, keyword sets of 2-3-rune keywords | done |
| `ACSplitProofs` | TLAPS proofs of the type invariant, of `MatchedArePatterns`, and of `NoPanic` for keyword sets without nesting | done |
| `ACBuild` | `buildTrie`/`getTrieChild`: the BFS queue in map order, failure links | planned |
| `ColorConfig` | `NewColorConfig`, `Add/DeleteColorConfig`, `split` | not modelled (§5) |
| `YrStart` | one `yr start`: the dump policy, validation, `ExecCommandUntil` with both pollers, the child's exit and the deadline, `clearCmdProcess`, `yrMakeSymbolLink` and the three calls of `CreateSymbolicLinkWithForce`, the help message, block mode with `waitChan`, Pdeathsig and the signal handler; deploy.sh and a concurrent `yr stop`/`yr start` as environment | done |
| `YrStartProofs` | TLAPS proofs of the type invariant and of the refinement of `StartContract` by blocking starts | done |
| `YrStartContractProofs` | TLAPS proof of the refinement of `StartContract` by non-blocking starts | done |
| `StartContract` | the abstract specification of one `yr start` as seen from outside: launch, the end of deploy.sh, the return | done |
| `MC_YrStart` | TLC instance: flag sets by `--block` and `--verbose 0`, the five kinds of existing link | done |
| `MasterInfo` | `ExtractMasterInfo`, `IsMasterNode`, `IsSameCluster` as pure operators against a reference | planned |
| `StopProcesses` | `stopYuanRongProcesses`: the /proc scan, filtering, grouping, the per-process TERM/grace/KILL race with its exit poller, the WaitGroup; the node's processes and PID reuse as environment | done |
| `StopScanProofs` | TLAPS proof that the scan lists exactly the live processes with a keyword, each once | done |
| `StopProcessesProofs` | TLAPS proofs about `stopYuanRongProcesses`: a returned goroutine left its platform process dead, signals reach only holders of listed PIDs, the type invariant, `EachProcessOnce`, `NoPlatformProcessLeft` and `OnlyPlatformSignalled` | done |
| `YrStopProofs` | TLAPS proofs for the whole command: `TypeOKCmd`, the three properties above, and `NotFoundOnlyWhenNoneAlive` | done |
| `MC_StopProcesses` | TLC instance: deploy.sh, master, runtime, a user shell and a late process on four PIDs | done |
| `Progress` | the spinner goroutine `doing` and `Done` | done (composed into `YrStop`) |
| `YrStop` | the whole `yrStopYuanRong`: the link removal, `StopProcesses` with its `ReadDir` error, the spinner of `Progress` (by `INSTANCE`) around `wg.Wait`, and the final message | done |
| `MC_YrStop` | TLC instance: the node of `MC_StopProcesses`, `RepeatCount = 1` | done |

### ACSplit: how the model follows the code

- A line is a sequence of runes; the code converts to `[]rune` before it indexes.
- Indices stay 0-based as in Go: `Slice(s, lo, hi)` is `s[lo:hi]`.
- `SliceOK` is the condition under which that expression does not panic.
- The trie node reached by the path `p` is represented by `p` itself, so the set of nodes is the set of keyword prefixes (`TrieNodes`).

Variables `i`, `iter`, `start`, `end` and `results` are the local variables of `splitWithAC`. `out` is its return value. `pc` is `walk` in the loop, `done` after the return and `panic` after a failed slice.

One step of the model is one iteration of the `range chars` loop, taken whole:

- `Skip`: there is no edge on the rune, even after the fallback.
- `Extend`: an edge is taken to a node that is not a keyword.
- `Match`: an edge reaches a keyword node. The step includes the entire `matchString` call, with its roll back, and the new `end`.
- `MatchPanic`: the same step when `content[end+1:start]` is out of range.
- `Finish`: the code after the loop.

The failure-link loop at ac.go 107-110 never re-tests `ok`. Whenever the current node lacks an edge, it walks up to the root. The model says this directly: `Fallback` is `iter` or the root. The links computed by `buildTrie` therefore never influence a split, and `ACSplit` does not need them.

### StopProcesses: how the model follows the code

A process is a model value with a PID (`PidOf`) and two static sets: the keywords its executable path contains (`CmdKw`), and the keywords one of its arguments contains (`ArgKw`). Together these are everything `filterProcesses` looks at. `Yuanrong` is the ground truth of which processes belong to the platform.

`life` says whether a process is unborn, alive or dead. `signalled` records the signals it received from `yr stop`. The environment has two actions:

- `ProcessExits`: an alive process dies at any time, on SIGTERM or on its own;
- `ProcessStarts`: a non-platform process starts under a PID that is free.

The kernel semantics of `kill(pid, sig)` is `Holder(pid)`: the signal reaches whichever process holds the PID at that moment, or fails with ESRCH when none does.

The stop itself proceeds as follows:

- `Scan` is the main goroutine up to `wg.Wait`: `getProcesses` (`Listed`, in `ReadDir` order), `filterProcesses` and `groupProcessesByKeywords`. Go randomises map iteration afresh for each `range keywordSet`, so the step picks, per process, one of the keyword sequences `FilterVisit` yields over all orders.
- Each goroutine k (`gpc[k]`) steps through `Term`, then `ExitSeen` or `GraceExpires`, then `Kill`. Its poller (`poll[k]`) moves by `ProbeFails`. `Return` is the deferred `wg.Done`.
- `Finish` is `wg.Wait` returning.

The Go loops that append to a slice are written with two recursive functions on sequences: `SeqAt(s, I)` keeps the elements of `s` at the indices in `I`, in order (the `if ... { x = append(x, s[i]) }` loops), and `ConcatSeqs(c)` concatenates a sequence of sequences (the `append(groups...)` walk). Both are recursive functions (`f[i \in 0..Len(s)] == ...`), not `SelectSeq` or `RECURSIVE` operators, so TLAPS can reason about them. `Scan` binds each stage with `\E x \in {e}` rather than `LET`, because TLC re-evaluates a `LET` under `ENABLED` for each fairness check and the pipeline is the costly part of a state.

Fairness: weak fairness on the steps of `yr stop` as a whole (`StopStep`). The Go scheduler runs runnable goroutines and `time.After` fires. The node's processes get no fairness.

`Progress` has the two goroutines of `progress.go`. The caller's `Done` prints, then closes. `doing` tests the channel, prints (or fails to print and `continue`s) and sleeps. Output is abstracted to the last thing written.

### YrStop: the command around them

`YrStop` EXTENDS `StopProcesses` and takes `Progress` by `INSTANCE` (`P`). It adds the steps of `yrStopYuanRong` that are neither:

- `ClearCurrentMasterInfoSymbolLink`: `os.RemoveAll` of the link, which may fail; the error is only printed;
- `StopScan`: `Scan`, and `CreateAndDoing` when the scan found processes (`spun`). The spinner's variables keep their initial values until then, and `Spins` is enabled only once `spun` holds;
- `ReadProcFails`: `os.ReadDir("/proc")` fails, and `stopYuanRongProcesses` returns that error before listing anything;
- `HandleProcess`, `NodeProcess`, `WaitReturns`: the steps of `StopProcesses`, with the new variables unchanged;
- `ProgressDone`: `stopProgress.Done` after `wg.Wait`, its print and then its close;
- `Report`: the message is chosen by `errors.Is(err, errorGetZeroYuanRongProcesses)` alone (`StopErr`).

Fairness: weak fairness on the main goroutine's steps, on the `handleProcess` goroutines and on the spinner. The node's processes get none.

### YrStart: how the model follows the code

`mpc` is the main goroutine of `yrStartYuanRong`. It moves through these steps:

1. `Check` (the dump policy, from what the link shows now);
2. `Validate`;
3. `DeployLinkMade`;
4. `Prepare` (which installs `blockRun`'s handler for a blocking master);
5. `Exec` (`cmd.Start`, the deadline unless `--block`, and the two goroutines);
6. the three cases of the `select`: `SelectResult`, `SelectExit`, `SelectTimeout`;
7. `LinkStart`, `LinkLstat`, `LinkRemove`, `LinkSymlink` (`yrMakeSymbolLink` and the calls of `CreateSymbolicLinkWithForce`);
8. `Help` (`printMasterStartedHelpMsg`);
9. `Wait` (`return <-waitChan`).

Every early return is an outcome of the step it leaves. `SetupFails` stands for the error returns of the setup calls; it is not a step of its own. `Fail` is the error path with `clearCmdProcess`. `Return` adds Pdeathsig: in block mode deploy.sh dies with the CLI.

The channels are single values:
- `res` is `resultChan`;
- `exitChan` is `cmdExitChan`, which `ExecCommandUntil` also returns as `waitChan`. A value the select takes is gone.

The poller (`ppc`) is `untilMasterDeploySucceed` (`PollPid`, `PollInfo`), then `untilAgentDeploySucceed` (`PollScan`). `PollScan` models the Scanner at EOF: an unterminated tail comes back as a line, so a half-written ready line is consumed (`readHalf`) and its remainder never matches.

deploy.sh is the environment. It writes the pid file, then the info file (master only), and the ready line, whole or, when `TornWrites`, in two writes; then it exits with any status. A concurrent `yr stop` removes the link and later kills the deploy it finds (`StopRemovesLink`, `StopKills`). A concurrent `yr start` replaces the link (`OtherStartLinks`). `Interrupt` is the user's Ctrl-C on a blocking master.

The existing cluster's info is abstracted to six cases: absent, unreadable, an empty file, an agent, a master of the cluster the flags name, and another master. `DumpPolicy` maps them as `checkIfNodeAlreadyStartedYuanRong` does: an IF chain whose tests come in the order of the function's early returns. An empty info file parses to a `MasterInfo` whose fields are all empty. `IsMasterNode` accepts it, because `MasterIP == LocalIP` (masterinfo.go:109). Which info `IsSameCluster` accepts depends on the flags:
- with `--master_info` or `--etcd_addr_list`, only a master of that cluster;
- without them, the incoming info is empty too, so only the empty file (masterinfo.go:119-121). A stored empty file then gives the Nothing policy.

`--master_info_output` may name the link path itself (flag `oIsLink`). `Prepare` then removes the link (`RemoveAll`, yr_start.go:400). `LinkStart` leaves it alone (yr_start.go:547). deploy.sh's info file becomes the link (`WriteInfo`, yr_start.go:722).

Timing: the 120 s deadline is long next to the 500 ms poll. `Deadline` therefore passes only while yr start has no step to take: no result or exit waiting and no poller step enabled. This leaves out the race of a ready line written in the last poll interval before the deadline, which no code change could avoid.

Fairness is weak fairness on the main goroutine (`Main`), the poller and the passing of time. deploy.sh, the user and the other commands get none: deploy.sh may hang, and nobody need press Ctrl-C.

## 3. Runs

### Runs of the keyword matcher

The runs of `ACSplit` use `MC_ACSplit`:

- alphabet {1,2}: runes are numbers because TLC treats a string as a sequence of characters;
- every line of 0..6 runes: 127 lines;
- keyword sets chosen per run.

The walk terminates, so the runs say `CHECK_DEADLOCK FALSE` ("splitWithAC returns").

| Run | Keyword sets | Property | Result |
|---|---|---|---|
| `acsplit_safe` | every set of 1-3 keywords of length 2-3 in which no keyword contains another | `Reconstruction`, `MatchedArePatterns`, `NoPanic` | pass (150 528 states) |
| `acsplit_any` | every set of 1-2 keywords of 1-3 runes, prefixes and one-rune keywords included | `MatchedArePatterns` | pass (94 046 states) |
| `acsplit_panic` | {12, 122} | `NoPanic` | violated: `1,2,1,2,2` panics on `content[end+1:start]` |
| `acsplit_missed` | {122, 21} | `WholeLineOnlyWithoutKeyword` | violated: `1,2,1` contains `21` but is returned whole |

These bounds are enough for two reasons:

- Every branch of the loop and of `matchString` is taken by lines of 6 runes, including two consecutive roll backs and a match at position 0.
- A second alphabet symbol is all that overlapping and prefix-sharing keywords need.

The safe run is what the code guarantees when no keyword contains another. The two violation runs each show a bug (see "findings" in PROJECT.json). Two more come from the same model with other keyword sets, and are kept as hazards rather than standing runs:

- with {12, 122} (like fail/failed), `Reconstruction` fails: `1,2,1,1,2,2` loses its first rune (the roll back at ac.go:134);
- with the one-rune keyword {1}, `Reconstruction` fails: `1,1` becomes `1`,`1`,`1` (`end == 0` read as "no match yet", ac.go:137).

The default keyword set of `types.go` contains `fail`/`failed` and `succeed`/`succeeded`, and these bugs show on it: They are what the default keyword set of `types.go` exposes, which contains `fail`/`failed` and `succeed`/`succeeded`:

- `"the task failed"` is printed as `" task failed"`;
- a line that begins with `failed` (spec §8.5's `"success\nfailed"`) panics with `slice bounds out of range [3:0]`.

Each property of the passing run has a mutant: a plausible slip in the mapped code under which TLC finds the property violated.

| Property | Mutant |
|---|---|
| `Reconstruction` | the trailing literal taken from `end` rather than `end+1` |
| `MatchedArePatterns` | the start recorded by testing `iter` before the fallback |
| `NoPanic` | the `end == 0` case of matchString dropped |

### Runs of `yr stop` and the spinner

| Run | Property | Result |
|---|---|---|
| `yrstop_safe` | `TypeOKCmd`, `NoPlatformProcessLeft`, `EachProcessOnce`, `OnlyPlatformSignalled`, `NotFoundOnlyWhenNoneAlive`, `StopReturns`, `SpinnerEnds` | pass (209 072 states, about 2 minutes) |
| `yrstop_readdir` | `SucceedOnlyWhenStopped` | violated: `ReadDir("/proc")` fails, and `yr stop` prints "Yuanrong stop succeed." with every platform process alive |
| `stop_pid_reuse` | `OnlyPlatformSignalled` | violated: the master exits on its own, a new process takes its PID, and `handleProcess` sends it SIGTERM |

`NotFoundOnlyWhenNoneAlive` ties the keyword filter to the message: "Did not find any active Yuanrong processes" is printed only when no platform process is alive. `SucceedOnlyWhenStopped` is its twin for the success message. It holds on every path through the scan, and fails only through the error path that the message test treats as success. `RepeatCount = 1` makes the row of dots wrap on every other line. A larger count only lengthens the spinner's loop and adds no interleaving with the stop.

Beyond the standing runs, the same models show two more interleavings:

- Giving the shell an argument keyword (`ArgKw`) makes `OnlyPlatformSignalled` fail: `tail -f` of a runtime log is stopped with the platform (the substring test of yr_stop.go:180).
- In `Progress`, the spinner, which tests the channel before it prints, can print its line after `Done` printed the done message. Done closes the channel only after printing.

The instance of `yrstop_safe` has one process of each kind the filter treats differently:

- a `bash deploy.sh` found by an argument only;
- a master found by both path and argument, so the filter appends it twice and the grouping must drop one entry;
- a runtime found by its path;
- a shell with no keyword;
- a process that can start under a free PID.

Every process may exit before, during or after its goroutine runs, so every branch of `handleProcess` is taken. PIDs are distinct in `yrstop_safe`: that run asks what the code guarantees when the kernel does not reuse a PID within the grace time. `stop_pid_reuse` drops that assumption.

The `yr stop` and spinner properties have these mutants:

| Property | Mutant |
|---|---|
| `NoPlatformProcessLeft` | the filter's `break` misplaced |
| `EachProcessOnce` | the `processed` map dropped |
| `OnlyPlatformSignalled` | the argument test dropped |
| `NotFoundOnlyWhenNoneAlive` | the filter's `break` misplaced |
| `StopReturns` | `wg.Done` not deferred |
| `TypeOKCmd` | the row wrap tested with `>` |
| `SpinnerEnds` | `close` forgotten |

### Runs of `yr start`

| Run | Property | Result |
|---|---|---|
| `start_nonblock` | `ReturnsEventually`, `ContractSpec` | pass (23 716 states) |
| `start_block` | `ContractSpec` | pass (266 138 states) |
| `start_quiet` | `ErrorLeavesNothingRunning` | violated: with `--verbose 0` the help message returns an error after a good deploy, and deploy.sh keeps running |
| `start_link_error` | `SymlinkErrorPropagated` | violated: a concurrent start makes the link between Lstat and Symlink; yrDeployMaster warns and returns nil, against TestYrDeployMaster |
| `start_block_hang` | `BlockReturnsAfterExit` | violated: the select takes deploy.sh's exit status, and `<-waitChan` waits forever |

`ContractSpec` is the refinement check. `StartContract` states what one start promises:

- deploy.sh is launched at most once, and only before the return;
- the command returns once, with one result;
- only a blocking start's signal handler returns by `exit(0)`;
- a blocking start's deploy.sh ends with it, whatever it returns;
- a non-blocking start leaves deploy.sh running only when it returns success.

`YrStart` instantiates it with this mapping:

- `block` is `flags.block`;
- `launched` is `deploy # "idle"`;
- `running` is `deploy = "running"`;
- `returned` is `mpc = "returned"`;
- `result` is `result`.

TLC checks `C!Spec` as a property of both passing runs. In `start_nonblock` it subsumes the old invariant `ErrorLeavesNothingRunning`, which stays as the property of `start_quiet`.

Two behaviours are modelled but not checked by any run (see the hazards in PROJECT.json):

- with `TornWrites = TRUE` the Scanner consumes half of the ready line at EOF (yr_start.go:624). The start then waits for the deadline or deploy.sh's exit, which the contract allows;
- a blocking master's Ctrl-C handler removes the link whoever made it (yr_start.go:515). The contract says nothing of the link.

Bounds: `start_nonblock` tries every flag combination without `--block`. It covers every kind of existing link, and a second start that may replace the link at any point, including between Lstat and Symlink. `start_block` adds Ctrl-C, a concurrent stop and torn writes. Each environment event happens at most once. A second occurrence only repeats a state the run already has: the link is absent, another's, or this start's.

The `yr start` properties have these mutants:

| Property | Mutant |
|---|---|
| `ContractSpec` (`start_nonblock`) | the failure path without `clearCmdProcess` |
| `ContractSpec` (`start_block`) | the signal handler acting after the command returned |
| `ReturnsEventually` | the deadline armed only in block mode |

## 4. Proofs

`ACSplitProofs` proves the following for every alphabet, keyword set and line:

- `TypeCorrect`: `Spec => []TypeOK`.
- `MatchesAreKeywords`: `Spec => []MatchedArePatterns`.

The type invariant is not inductive by itself: the roll back reads `results[len-2]` and subtracts from `end`. The strengthening adds two facts:

- `results` always holds whole literal/match pairs (`InPairs`);
- once a match is recorded, `end` is a position of the line (`EndInLine`).

`MatchedArePatterns` rests on `IterOnLine`: the current trie node is exactly the text read since `start`. The key lemma, `StepString`, shows that `text[NewStart:i+1]` is the fallback node followed by the current rune. So the match `matchString` records is the node reached, which is a keyword.

- `NoPanicWithoutNesting`: `Spec => []NoPanic`, under the assumption that in every keyword set no keyword contains another. TLC shows the panic with nested keywords (`acsplit_panic`), so the hypothesis is needed. The strengthening `PanicFreeInv` adds to the invariant of `MatchedArePatterns`:
  - the walk never reaches the panic;
  - with no result recorded, `end` is 0;
  - otherwise `end < i`;
  - when the current node is neither the root nor a keyword, `end < start`.

  The last fact is the one that matters. Without nesting, a keyword is a leaf of the trie (`KeywordIsLeaf`), so the walk falls back to the root right after every match. A node that extends the text again is never a keyword (`ExtendedNodeNotKeyword`). The roll back of `matchString` therefore never moves `end` past `start` (`NoRollBack`), and the slice from the end of the last match to `start` is always valid. TLC checked `PanicFreeInv` on the substring-free keyword sets of `MC_ACSplit` before it was proved.

The following stay with TLC and are not proved:

- the reconstruction property, which fails in general and needs the recursive `Concat`;
- liveness and anything about `ENABLED`;
- facts about what a `RECURSIVE` operator computes for every input: `Concat` is one, so the module it is in cannot hold a theorem.

`YrStartProofs` proves the following for every set of flag combinations, existing links and concurrent commands:

- `TypeCorrect`: `Spec => []TypeOK`. The step lemma `TypeStep` has one case per action of the main goroutine (`MainTyped`) and of the other actors (`OthersTyped`).
- `BlockingStartKeepsContract`: `Spec => ContractSpec`, under the assumption that every flag set has `--block`. The argument follows the usual refinement proof:
  1. `Init` maps to the contract's `Init`.
  2. The invariant `ExecInv`, with `TypeOK`, says two things: `flags` is one of `FlagSets`, and before `Exec` deploy.sh is idle. So `Exec` is the contract's `Launch`.
  3. Every step of `Next` maps to a contract step or to a stutter. One lemma covers the main goroutine (`MainRefines`) and one covers the other actors (`OthersRefine`). Every step that sets `mpc` to `returned` meets `ReturnRefines`: deploy.sh is killed if it runs, the result is set, and `flags` is unchanged. That makes it the contract's `Return`. `DeployExits` and `yr stop`'s kill are `DeployEnds`. Every other step changes none of the mapped values (`StutterRefines`).

`YrStartContractProofs` proves `NonBlockingStartKeepsContract`: `Spec => ContractSpec` under two assumptions. No flag set has `--block` or `--verbose 0`, and the only other commands on the node are `yr start`s. It covers torn info writes too.

Without `--block`, an error return must not leave deploy.sh running. `Help` returns an error without calling `clearCmdProcess`. The invariant `NonBlockInv` explains why a master that reaches `Help` with deploy.sh running can read the info behind the link:
  - it reached `Help` through its poller's ready report, which waited for the info file;
  - the dump policy is never `invalid` past the check, and a `nothing` policy leaves a link that is not absent;
  - an `old` link shows readable old info;
  - when `-o` names the link path, the preparation removed the link and nothing links it again. Once deploy.sh has written the info file, the link is that file or another start's link, never absent;
  - before `Exec`, deploy.sh, the poller and its result are idle;
  - no signal handler is installed, and `yr stop` has not removed the link.

Both assumptions are needed:
  - With `--verbose 0`, `Help` always errs. `start_quiet` shows deploy.sh left running after that error, which the contract forbids.
  - With a concurrent `yr stop`, TLC finds this trace: `yr stop` removes the link while the main goroutine is at `help`, then `Help` returns an error while deploy.sh still runs.

TLC checked `NonBlockInv` on the non-blocking flag sets with torn writes (16,447 states) before it was proved. Proving it needed one change to the model: `DumpPolicy` had been a CASE whose arms overlap, so its value was left unspecified to the prover. It is now the IF chain of the Go code's early returns, with the same value.

`StopProcessesProofs` proves two theorems for every set of processes, PID assignment, keyword set and `/proc` order. They hold whatever the scan lists:
- `HandledProcessesDead`: `Spec => []HandledPlatformProcessDead`. A `handleProcess` goroutine reaches `wg.Done` only when the platform process it was given is dead. This holds on every path:
  - a SIGTERM that finds nobody at the PID;
  - a probe that finds the PID free;
  - the SIGKILL after the grace time, which kills every holder of the PID.

  The strengthening `HandleInv` says three things. A platform process is never unborn, and the platform never restarts one. A goroutine whose poller reported the exit left its process dead. No signal was sent before the scan (`FreePidMeansDead` turns a free PID into a dead process).
- `SignalsFollowListedPids`: `Spec => []SignalsOnlyToListedPids`. Every signalled process holds a PID the scan listed. With no PID reuse, only listed processes are signalled. `stop_pid_reuse` shows that the new holder of a reused PID can be signalled too.

`StopScanProofs` proves what the scan computes. `ScanListsKeywordProcesses` holds for every keyword list, map order of the filter, process set and `/proc` order, given that no two live processes share a PID. The list `Grouped(ByGroup(Filtered(Listed, v)))` is a sequence of processes with no repeats, and its elements are exactly the live processes with a keyword (`KeywordProcesses`). The lemmas follow the stages of the pipeline:
  - `SeqAtProps` and `SeqAtInjective` for `SeqAt`, and `ConcatSeqsProps` for `ConcatSeqs`;
  - `MapOrderOnto`: every map order visits every keyword;
  - `FilterVisitProps` and `FilteredProps` for the filter;
  - `ByGroupProps` and `GroupedProps` for the grouping, whose `processed` map removes the repeats;
  - `ListedProps` for `getProcesses`.

TLAPS cannot instantiate an induction rule with a predicate parameter, so each fact about a recursive function is proved from the least counterexample. `LeastNat` gives every non-empty set of naturals a least element. From it `PrefixInduction` proves that a set holding 0 and closed under successor up to `N` contains `0..N`. The lemmas apply it to the set of indices at which the fact holds for the prefix.

`StopProcessesProofs` combines that result with `HandleInv` into the inductive invariant `StopInv == HandleInv /\ ListInv`. `ListInv` adds five facts:
  - `TypeOK`;
  - the live processes have distinct PIDs (`AliveDistinct`);
  - before the scan the list is empty and `wg` is 0, after it `wg` is the number of goroutines that have not called `wg.Done`, and when `wg.Wait` has returned every goroutine has (`WaitGroupCounts`);
  - the list has no repeats (`ListDistinct`) and each listed process has a keyword (`ListedHaveKeywords`);
  - a platform process with a keyword that the scan did not list is dead (`UnlistedPlatformDead`): the scan listed every live one, and a platform process never comes back.

TLC checked `StopInv` as an invariant on the instance of `yrstop_safe`, on the PID-reuse instance and on the shell-with-argument instance before it was proved. There is one lemma per action. `Return` lowers `wg` and the running set together (`ReturnRunning`). `Finish` turns `wg = 0` into an empty running set. `ProcessStarts` keeps `AliveDistinct`, because it takes only a free PID. From `StopInv`:
  - `TypeCorrect`: `Spec => []TypeOK`.
  - `EachProcessStoppedOnce`: `Spec => []EachProcessOnce`.
  - `PlatformStopped`: `Spec => []NoPlatformProcessLeft`, assuming every platform process has a keyword (`PlatformHasKeywords`). A platform process whose path and arguments miss all five keywords is never found.
  - `OnlyPlatformProcessesSignalled`: `Spec => []OnlyPlatformSignalled`, assuming no other process has a keyword (`OthersHaveNoKeywords`) and none shares a PID with a platform process (`PlatformPidsNotReused`). The shell with a runtime argument (`ShellArgKw`) breaks the first assumption. `stop_pid_reuse` breaks the second, and TLC finds the property violated in both cases.

These hypotheses describe the node and are stated on the theorems, not as `ASSUME`s of the model. TLC confirmed that the instance of `yrstop_safe` satisfies all three.

`YrStopProofs` lifts these results to the whole command. `CmdStepIsStopStep` shows that every step of `NextCmd` is a step of `Next` or leaves its variables unchanged. The inductive invariant `CmdInv` adds three parts to `StopInv`:
  - `TypeOKCmd`;
  - `SpinnerCount`: the loop counter of `doing` is in `1..RepeatCount` at the select and in `0..RepeatCount-1` at the print and the sleep;
  - `CmdFacts`: the spinner runs exactly when the scan listed something, a ReadDir error leaves the stop before its scan, and "not found" is reported only after a finished scan that listed nothing.

TLC checked `CmdInv` with `RepeatCount` 1 and 2 before it was proved. The theorems are:
  - `CmdTypeCorrect` (`TypeOKCmd`) holds for every `RepeatCount`;
  - `CmdEachProcessOnce`, `CmdPlatformStopped` and `CmdOnlyPlatformSignalled` are the three properties of `yrstop_safe`, proved for `SpecCmd` under the same hypotheses;
  - `NotFoundMeansNoneAlive`: `SpecCmd => []NotFoundOnlyWhenNoneAlive`, assuming `PlatformHasKeywords`.

Only these stay model-checked in `yr stop`: the liveness properties `StopReturns`, `SpinnerEnds` and `StopTerminates`. `SucceedOnlyWhenStopped` is false (`yrstop_readdir`).

One quirk of the provers shaped these proofs. When an action sets a Boolean variable to a literal (`linkErr' = FALSE`), the SMT encoding of the whole `TypeOK'` does not finish. Those cases first prove `linkErr' \in BOOLEAN`, then conclude from that step alone.

## 5. Not modelled

- The colour configuration (`NewColorConfig`, `Add/DeleteColorConfig`, `PrintStringUsingColorConfig`, `split`): no command of the CLI creates or changes a configuration. The commands print through `PrintSuccess`/`PrintFail` with fixed colours. The one hazard of this API, every configuration sharing the global default map, is listed in PROJECT.json and has no caller to reach it.
- Escape-code formatting (`getColorCode`, `getPrintString`): pure formatting of one segment.
- `yr status`: one etcd read, then printing.
- The command-line parsing in `getProcesses` (`\x00` split): abstracted to the keyword sets above.
- Flag plumbing and `concatArgs`/`ParamCheck`: a regex filter on strings.
- `localip`, `memory`, `raw` and `reader`: pure I/O helpers.

None of them has state or interleavings that a property could be about.
