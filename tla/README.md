# TLA+ verification of logrotate-cache-lab

The lab runs a log writer and a log rotator side by side, stops them and judges
the files they left. Two rotation strategies are compared (`copytruncate` and
`rename-reopen`) against a baseline that does not rotate. This directory models
one run of the lab as a set of concurrent processes, and the memory sweep that
repeats such runs in containers to find the smallest memory limit a strategy
works in. Smaller models cover what surrounds them: the pacing arithmetic, the
monitor, the reports on disk, the commands and the cache metrics. TLC
model-checks all of it on small instances; TLAPS proves every safety property
that a passing run checks, for every value of the parameters.

## 1. Inventory

| Component | Source | State it keeps | Operations | Hard part |
|---|---|---|---|---|
| Go writer | `internal/writer/writer.go` | open file, buffer, `Generated`, `ReopenRequests`, `ReopenFailures`, reopen channel of capacity 1 | generate tick, flush tick, reopen, stop, `finish`; HTTP handlers on other goroutines | `select` order, flush after a failed flush, reopen that is queued but not done |
| C++ writer | `cpp/writer/main.cc` | the same, with a reopen flag and a polling loop | loop iteration, reopen or flush, last flush; one server thread | the stop signal and the reopen flag are looked at in one place of the loop |
| Rotator | `internal/rotator/*.go` | ordinal of the rotation, `events.csv`, backups | poll, the steps of copytruncate, the steps of rename-reopen, retention | works on a file another process is writing; does not wait for the reopen it asked for |
| Run harness | `internal/harness/run.go` | children, `summary.json` | start, health check, wait for the rotator, wait for reopens, stop, collect, accept | early returns, ignored timeouts, waits for one child only |
| Integrity analyzer | `internal/integrity/analyze.go`, `internal/record/record.go` | counts of a pass over the files | scan, parse, count | looks at the first fields of a line only |
| Memory sweep | `internal/sweep/*.go`, `cmd/loglab/main.go` | tested limits, attempts, bracket, the combined report | bisection, docker attempts, classification, the loop over strategies | timeouts, cancellation and OOM detection racing with the container's exit |
| Cache metrics | `internal/metrics/analyze.go` | none | rates, ranks, windows and slopes over samples and events | joins two files by wall-clock stamps |
| Monitor | `internal/monitor/monitor.go` | `samples.csv` | sample every interval | several calls on a directory that is being rotated |
| Report files | `internal/report/report.go`, `write_state_atomic` in `cpp/writer/main.cc` | `writer-state.json`, `integrity.json`, `summary.json`, the combined report | write, sync, rename | a crash between two steps, a second run in the directory |
| cgroup reader | `internal/cgroup/reader.go` | none | discovery, counters | counters differ between kernels |
| Command line | `cmd/loglab/main.go` | none | `run`, `memory-sweep`, wrappers of the children | what an exit status promises |
| copyprobe, scripts, manifests | `tools`, `scripts`, `deploy` | none | none of the lab's | none that a model would show |

How the parts meet: the writer and the rotator share the log directory; the
rotator asks the writer to reopen with `POST /reopen-logs`, which only queues
the request; the harness talks to both with signals and exit statuses, asks the
writer for `/healthz` and `/state`, and reads what they left.

What makes each part correct: the reopen handshake never collides with itself
or with the next rotation; a file that is open is never unlinked; what the
lossless strategies leave on disk is the record stream without a gap; what
copytruncate copied survives its truncate; a clean exit status means everything
was written; the verdict of a run is about the bytes on disk; the harness
returns, and leaves no child behind; the writers keep their rate; a sample
misses nothing that stays on disk; reports fit each other whatever kills the
lab; a sweep's boundary is wrong on one side only, and its report shows that it
may be; the metrics mean what their names say. `PROJECT.json` lists under `hazards` the
lines where each of these could go wrong.

## 2. Modules

| Module | Models |
|---|---|
| `Host` | external: directory, files, the reopen exchange; the constants and their assumption `HostAssumption` |
| `WriterCore` | the state and the steps both writers share |
| `GoWriter`, `CppWriter` | the control flow of each writer, one action per `select` case or stretch of the loop between two system calls |
| `Rotator` | one action per step of the rotator another process can observe |
| `Integrity` | the analyzer's counts as operators over the files |
| `Lab` | the harness, the composition of all processes, fairness, the properties |
| `LogStream` | abstract: an append-only log whose beginning may expire |
| `LabStream` | the files read in rotation order; the refinement of `LogStream`; the properties about the whole log |
| `MCLab` | the sets of command lines TLC runs |
| `LabProofs` | the inductive invariant of the lab and the theorems about it |
| `DataLemmas` | lemmas about data: induction over sets of numbers, division, concatenations, sums, counting |
| `LabStreamProofs` | the log across rotations and what the analyzer finds in it: their invariants and theorems |
| `DockerAttempt` | one attempt of the sweep: `dockerAttempt` and, external, its container |
| `Sweep` | `Search`: the tested limits, the repetitions and the bisection, on top of `DockerAttempt`; its properties |
| `MCSweep` | the ranges and needs TLC runs |
| `SweepProofs` | the inductive invariant of the sweep and the theorems about it |
| `Pacing` | `byteCredit` of both writers and the baseline's target, in integers that overflow |
| `PacingProofs` | its inductive invariant and theorems |
| `Monitor` | the monitor's loop, one action per system call on the log directory |
| `LabMonitor`, `MCLabMonitor` | the lab with the monitor as a further process; the command lines TLC runs |
| `LabMonitorProofs` | what a sample counts: its invariants and theorems |
| `AtomicFile` | `WriteJSONAtomic` and `write_state_atomic`; external: page cache, disk and journal |
| `Commands` | `loglab run`, repeated in one result directory, and `loglab memory-sweep`, as writers of reports |
| `CommandsProofs` | the inductive invariant of the reports and the theorems about it |
| `Cgroup` | which accounting file and counter stand for what |
| `Metrics` | `metrics.Analyze` as operators over samples and events |
| `Observation`, `MCObservation` | monitor and rotator stamping their rows, the clock, and the harness reading them back; the kernels TLC runs |
| `ObservationProofs` | the theorems about the cache metrics |

### State and its abstraction

`config` is the run's command line: strategy, writer and `--max-backups`; it is
chosen once, so one TLC run covers several command lines. `dir` maps a name (0
is the active log, k is backup k, `BackupPath`) to a file or `None`, `data` maps
a file to its contents, `fd` is the file the writer has open. A file therefore
keeps its contents when it is renamed or unlinked, which is what the strategies
depend on.

Contents are sequences of *units* of the record stream. Record s is the
`RecordBytes` consecutive units that end with number s * `RecordBytes`: the first
holds the run id and its space, the second the sequence number and its space,
the last the newline. So a short write, a copy that stops inside a record or a
truncate that beheads one all produce the lines that `record.Parse` would meet,
and `Integrity` models the scanner and the parser by what they do with such
lines. The buffer is not stored: it is always the units `flushed`+1 up to
`generated` * `RecordBytes`, and `off` says how much of it the flush in progress
has written.

`wpc`, `rpc` and `hpc` are the places of the three processes. `http` is the
reopen exchange as its client sees it (`idle`, `sent`, `ok`, `busy`); `reopen` is
the queued request. The rotator's client may give up while `http` is `sent`: the
request then still reaches the writer later.

### Faults

`Faults` selects the classes of failure an instance may see: `open` (opening or
closing the log), `write`, `encode`, `exit` (closing or saving the state), `rotator`
(any system call of the rotator, `appendEvent` included), `timeout` (the
client's two seconds, `waitReopens`), `startup`, `cancel` (context), `kill` (the
stop timeout), `oom` (SIGKILL at any time), `monitor`, `report`. A refused or
lost request and a name that is not as expected are no faults of the
environment: they follow from the state (`Fails`).

### The sweep

The lab and the sweep share no state: the sweep sees a run only as a container
that exits with a status and perhaps a summary, exits after an OOM kill, or
hangs. That the last is possible is a result of `Lab` (a dead writer leaves the
harness waiting). `limit` is the argument of the current call of `test`, `spc` and
`phase` say where `Search` is, `tested` is its map, `fail` and `pass` the bracket.
`need` is the memory the workload needs: below it the kernel kills a process of
the container, from it on memory plays no part. `RunFaults` selects what else may
go wrong: `prepare` (directory, volume or docker command), `exit` (status 1),
`summary` (missing, with a reopen failure, or rejected), `hang`, `timeout` (the
deadline while the container works), `cancel`. The three cases of `dockerAttempt`'s
`select` are actions of their own; when several are ready any may be taken.

At the deadline or on cancellation two things happen that nothing orders: the
context kills the docker command, and `docker rm -f` kills its container, which a
docker command that still lives reports as status 137. `RemovedStatus` therefore
allows -1 and 137, and the container's own status if it just ended. An attempt
that is cut off may so be recorded as an OOM; what tells it from one is
`timed_out`, which the attempts of the model keep, and the cancellation of the
sweep.

### Around a run

**Pacing.** In the lab a tick generates any burst of records. `Pacing` is the
arithmetic behind it. `MaxInt` stands for the greatest int64, `Second` for the
10^9 nanoseconds, so that TLC meets overflows; `Wrap` and `Quotient` are Go's
arithmetic. The C++ credit is a long double and modelled as exact (in units of
1/`Second` bytes). Go creates its ticker before it reads the clock, so the
first tick may carry an earlier stamp (`EarlyTick`).

**Monitor.** In `Lab` the monitor is an outcome of `WriterReaped`. In `LabMonitor`
it is a process, and `MonitorAllows` says what the harness's steps ask of it; its
glob is one read of the directory. `before` is history: the units on disk when
the sample began.

**Reports.** In `AtomicFile` readers see `view`, a power failure leaves `disk`, and
`journal` holds the renames between the two, in order. A rename whose file was
synced commits whole; without the sync the file may be torn. The code never
syncs the directory, so a rename may be lost although the call returned.
`Commands` reduces the children of a run to outcomes; a killed command is
killed with its children, as in a container. A search of a sweep is an outcome
too, as `Sweep` has it: the least limit that is enough, or, if something else than
memory made an attempt fail, any limit that is enough (`Minima`). What the strategy
needs and whether its search was disturbed are history. A report is identified by the
run that wrote it, and the summary by the state it was computed from as well.

**Metrics.** A quotient is a pair of integers, so the formulas are exact; the
rounding of floating point is not modelled. Sorting, filtering and summing are
written by what they do (an element's place in the sorted sequence is the number
of elements that do not come after it), so that the prover can expand them.
`Observation` keeps `actual`, the
group's charge at each sample, as history. The run's start time is passed on
the command line (`--start-unix-nano`), which drops Go's monotonic reading;
stamps are therefore wall-clock, and `SetBack` can make them go backwards. A
kernel is the set of its usage files and memory.stat counters.

## 3. Runs

| Run | Instance | Checks |
|---|---|---|
| `rename` | rename-reopen, both writers, 0, 1 or 2 backups kept, 3 rotations, all faults | the type invariant; the handshake (`ReopenNeverRefused`, `ReplacementPathFree`, `NextRotationWaitsForReopen`); `OpenFileStaysLinked`; `ChildrenReaped`; `CleanExitWroteEverything`; `VerdictIsExact` |
| `files` | all strategies, 2 rotations, all faults but `write` and `encode` | the lossless strategies implement `LogStream` (`KeepsStream`); `CopyIsPrefix`, `CopiedUnitsSurvive`, `CopytruncateKeepsOrder`; the analyzer's counters and ranges (`OnlyLossIsReported`, `RangesFollowRotations`) |
| `live` | all strategies and writers, no faults | `FaultFreeRunJudged` |
| `ends` | all strategies and writers, the faults listed in the cfg | `RunEnds` |
| `reopen_failure` | rename-reopen, fault `open` | violated: `ReopenFailureInvalidatesRun` |
| `sweep_search` | every range with lower bound 0..6, upper bound 0..13, step 0..4, every need 0..14, no faults | `LeastLimitFound` |
| `sweep_faults` | two ranges, two strategies, two repetitions, all faults | `TypeOK`, `ProbesAreNew`, `BoundaryMeasured`, `OOMMeansMemory`, `BoundaryErrsHigh`, `SearchEnds` |
| `sweep_mislabel` | one range, fault `exit` | violated: `FunctionalFailuresAreNoThreshold` |
| `pace` | both writers, 4 rates, ticks at 4 distances, 7 ticks, integers up to 31 | `NeverAhead`, `KeepsUp`, `BaselineVolumeReached` |
| `monitor` | rename-reopen and copytruncate, 0 or 1 backups kept, 2 rotations, one sample begun at any time, faults `monitor` and `startup` | `SampleCoversLog`, `SampleCountsOnce` |
| `results` | 2 commands of either kind in one directory, 2 kills or power failures; sweeps over 3 limits, 2 needs | `ReportsWhole`, `SummaryBacked`, `StatusZeroMeansOwnSummary`, `DeltaFollowsSearches` |
| `metrics` | 6 kernels, 2 rotations, up to 3 samples of 3 levels, 4 clock values, the clock set back at most once | `RatesFitSteps`, `RanksByCounting`, `TransientHappened`, `SegmentsCoverSamples`, `SlopeIsPairwise`, `CountersSurvive` |

A failing `write` is left out of `files` because the Go writer then
writes its buffer again from the start (`finish`), so the stream really repeats;
that the verdict notices is part of `rename` (`VerdictIsExact`).

**Bounds.** A record has three units, the smallest number with a run id, a
sequence number and a payload, so that every cut is a different kind of cut. The
buffer holds more than one record and less than two, and the rotation limit is
below a record's size or equal to it: files are rotated in the middle of a
flush. `FileCap` bounds the units in the open file and the buffer together: two
records, enough for a writer that runs ahead of the rotator by a record. It
binds only generation; a rotation frees room again, so it stops no run. Three
rotations with one or two backups kept make retention remove a backup twice
and let the next rotation meet the reopen of the one before. `Inodes` is large
enough for every file a run can create; the run could otherwise stop at
`CreateFile`, which deadlock checking would show.

The sweep's ranges in `sweep_search` include the invalid ones, those without an
aligned limit, those with one, and brackets up to twelve steps wide. In
`sweep_faults` one range has unaligned bounds and an unaligned midpoint and takes
up to two bisections, the other has a single aligned limit, so that the lower bound is
answered from the map; two repetitions are enough for one to pass and one to
fail, in both orders.

In `pace`, rates times distances reach far beyond `MaxInt`, and five stalls make a
debt that itself leaves the integers. One sample is enough in `monitor`, as
nothing of a sample is kept for the next; `FileCap` is four there, so that a
record and a part of the next are on their way. Two commands in `results` are
what a stale report needs, two accidents a crash of each; of the two needs one is
met by the lower bound, and a disturbed search may return each limit above. In `metrics` three
samples and two rotations give every relative order of stamps, empty and
overlapping windows included; `RanksByCounting` tries the rank itself for up to
60 samples.

**Fairness** (`FairSpec`). Processes that can run do run (weak fairness). Go's
`select` chooses uniformly among ready cases and the tickers are ready again and
again, so no case is passed over for ever (strong fairness of each case). The
C++ loop earns byte credit and flush time on the wall clock, so some iteration
generates and some iteration finds the interval elapsed. A server thread
answers as long as the writer has not been told to stop: a writer that leaves
may drop a request. Cancellation, kills and failing polls are under no fairness.

For the sweep: the search runs on, and so do the container and the attempt's
waiting, which always ends because a hanging container meets the poll or the
deadline. Nobody has to cancel.

**The disagreements.** The design says (section 6.2): "A reopen failure
invalidates the run." In the code the writer counts the failure and exits with
status 1, but nobody looks: the harness waits for the rotator, and the rotator
polls an active log that stays empty. `reopen_failure` shows the behaviour: the
reopen of a rotation that is not the last fails and `harness.Run` never returns.
Only a caller's timeout ends such a run, without a report. The same holds for
any other death of the writer before the last rotation, which is why `ends`
leaves out the faults `open`, `write`, `encode` and `oom`.

The design also says of the sweep (section 11): "Other non-zero exits are
recorded as functional failures and are not mislabelled as memory thresholds."
The attempts do keep their kind, but `Search` decides a limit by `Passed` alone.
`sweep_mislabel` shows a workload that needs no memory, fails once with status 1
at the lower bound and is reported with a resolved boundary there. An attempt
that never starts, and the one that runs when the sweep is cancelled, decide a
limit in the same way. What is left is `BoundaryErrsHigh`: a boundary so mistaken is
too high, never too low, and an attempt at the failing limit shows that it may
be. A delta errs with the searches it is taken from (`DeltaFollowsSearches`).

**What the retention verdict shows.** `FaultFreeRunJudged` records a property of
the acceptance rule: a rename-reopen run that keeps fewer backups than it makes
is rejected even though nothing went wrong, because the analyzer counts the
removed records as missing. The design keeps all backups in integrity runs.

**Observations on the way**, for which no run of their own exists:

- A Go writer below 100 B/s never writes: each tick of 10 ms earns less than a
  byte and drops it. `KeepsUp` allows exactly that loss. The C++ writer keeps it.
- After a stall that overflows the product, the Go writer owes bytes and is
  silent until they are paid off. It can run ahead only when accumulated debt
  leaves the integers too, which takes as many stalls as a second has clock
  units; `NeverAhead` states that limit, and without it TLC finds the case
  (`MaxInt` 127, `Second` 4, rate 43, ticks three units apart).
- The test `TestClassifyProcessFailureSeparatesNonOOMTimeout`
  (docker_test.go:95-99) demands of a timeout without an OOM kill that it is not
  recorded as one; it tries the exit code -1 only. A container that hangs may be
  removed at the deadline while its docker command still lives; the command then
  reports 137 and the attempt is recorded as an OOM (docker.go:108-111, 158-159).
  The model allows it, and `OOMMeansMemory` promises no more than the code keeps:
  such an attempt says that it timed out, or the sweep was cancelled.
- The repository's README (lines 147-148) divides the positive deltas by the "time
  spent in positive sample-to-sample intervals". The code takes an interval
  without change for a positive one (analyze.go:32), which lowers the positive
  rate. `Metrics` follows the code; `RatesFitSteps` claims of a rate only that some
  interval of growth reached it, which holds under either reading.
- The README (lines 153-154) limits `rotation_transient_max_bytes` to completed
  rotations, and so does the design (line 209). A rotation during which the clock
  is set back may be stamped as over before it began; its window then has no end
  (analyze.go:86-92), and any later rise is reported. `TransientHappened` names
  this as the only exception.
- The README also calls the field the maximum cache *observed*; the code computes the
  rise above the first sample of a window, as the design has it.
  `TransientHappened` is about the rise.
- An RSS that cannot be read is recorded as 0 (monitor.go:85), unlike the
  optional counters, which stay absent (`CountersSurvive`).
- `events.csv` is appended to and never reset: a second run in the same result
  directory analyses the first run's events as well.

## 4. Proofs

`LabProofs` proves, for every number of rotations, every limit, record and
buffer size, every set of faults and command lines and both writers:

| Theorem | States |
|---|---|
| `TypeCorrect` | `TypeOK` |
| `ReopenQueueNeverFull` | `ReopenNeverRefused` |
| `NoReopenInRenameWindow` | `ReplacementPathFree` |
| `RotationsFollowReopens` | `NextRotationWaitsForReopen` |
| `WriterNeverWritesUnlinked` | `OpenFileStaysLinked` |
| `BackupIsPrefix` | `CopyIsPrefix` |
| `TruncateKeepsCopied` | `CopiedUnitsSurvive` |
| `NoChildLeft` | `ChildrenReaped` |
| `ZeroStatusWroteEverything` | `CleanExitWroteEverything` |

The only assumption is `HostAssumption`: positive sizes, records of at least
three units, `None` is no file.

The handshake properties are not inductive. Nothing in the rotator waits for
the writer, and yet a rotation never meets a reopen that is still under way. The
reason is in the *contents of a file*: from the request until the reopen is done
the active log is the empty replacement, which the writer does not have open
(`Pending`), so the size test of the poll fails. To carry this through the steps
the invariant also says: at most one request exists, in the exchange, in the
queue or being carried out (`OneRequest`); a writer with another file than the
active log open leaves the active log empty (`OldFileOpen`); which place each
process can be in relative to the others (`Startup`, `RotatorView`); the backup
name of the coming rotation is free (`Ordinals`); an unused file is empty
(`Fresh`); the file that is open is the active log or the newest backup
(`Linked`), which retention never removes because its limit is at least one;
requests asked for equal rotations made (`Counted`). `CopyView` is the prefix
property of copytruncate with what it needs. The steps of both writers are first
reduced to six effects (`WriterEffect`) on the state the invariant reads, so that
preservation is proved once for both.

The last two theorems need two more conjuncts (`EndInv`): which children are
gone at each place of the harness (`ChildrenFollow`), and that a writer that has
seen no error and passed its last flush has an empty buffer (`BufferDrained`).

`LabStreamProofs` proves, for the same parameters:

| Theorem | States |
|---|---|
| `StreamIsKept` (refinement) | `KeepsStream`, if no write fails |
| `CopytruncateInOrder` | `CopytruncateKeepsOrder`, if no write fails |
| `JudgedRunsOnlyLose` | `OnlyLossIsReported` |
| `RangesAreRotations` | `RangesFollowRotations` |
| `VerdictAlwaysExact` | `VerdictIsExact` |

The hypothesis `"write" \notin Faults` of the first two is the code's: after a
failed write the Go writer flushes its whole buffer again, units are written
twice, and both properties are really violated. The last three say nothing of
a run that is not judged and need no such hypothesis.

The files are first put in rotation order: names hold different files, the open
one is the newest, and only copytruncate has a window with two copies
(`Directory`). Every step of every process is then one of six things that can
happen to the log: nothing, units are written, copied or dropped by the
truncate, a file moves, the oldest one expires (`LogEffect`). Against these six the
order of the units is proved (`Flow`): each file holds an unbroken stretch of the
stream (`Contiguous`), the open one ends where the writer is (`Tip`), no unit is
beyond that (`Ahead`), and an earlier file holds earlier units (`InOrder`). From it
the lemmas on concatenation show each effect to be a step or a stutter of
`LogStream`. `LogInv` is the lab's invariant with `Directory` and `Flow`.

For the analyzer, `Judged` says that a summary exists only when the rotator is
done and the writer has exited with status 0, after which the files are still;
status 0 also excludes a failed write, hence no fault hypothesis. With `Flow`,
`Duplicates` and `DescendingTransitions` are zero by counting: lines map one to one to
sequence numbers. `VerdictAlwaysExact` needs in addition that a lossless strategy
cuts files only between records (`Records`): they begin with a run id (`Framed`)
and end with a newline unless a flush is under way.

`LabMonitorProofs` proves, for the same parameters and any number of samples:

| Theorem | States |
|---|---|
| `SampleMissesNothing` | `SampleCoversLog`, if no write fails |
| `SampleCountsNothingTwice` | `SampleCountsOnce`, if no write fails |

`Covered` says at each of the monitor's calls that what was on disk at the beginning,
still is and is not yet measured fits into what has been measured plus what is
listed; that a rename moves units only towards names measured later is the reason
it is kept. For the second theorem the order of the directory is needed: of two
backups the one with the lower number holds earlier units (`BackupsInOrder`), and the
monitor measures them in that order, so what it has counted is at most what the
writer had written up to the backup it measured last (`CountedSoFar`), even if that is
gone by now. Both hold with the monitor's own failures included; the hypothesis is
again the code's.

`SweepProofs` proves, for every set of ranges, every number of repetitions and
every outcome of the attempts:

| Theorem | States |
|---|---|
| `SweepTypeCorrect` | `TypeOK` |
| `ProbesShrinkBracket` | `ProbesAreNew` |
| `BoundaryIsMeasured` | `BoundaryMeasured` |
| `OOMIsExplained` | `OOMMeansMemory` |
| `BoundaryOnlyErrsHigh` | `BoundaryErrsHigh` |
| `SearchFindsLeast` | `LeastLimitFound`, if `RunFaults = {}` |

The assumption is `SweepAssumption`: bounds and step are integers, repetitions are
positive. The invariant says that the bracket's ends are tested multiples of
the step with nothing tested between them (`Bracket`), what `tested` holds during
the two calls before the bisection (`Bounds`), and that `tested` is what the
recorded attempts say (`Measured`, `Current`, `NoStray`). The arithmetic is
`MidpointInside`: the aligned midpoint of two multiples more than a step apart
lies strictly between them. It follows that the correction `mid = fail + step`
(search.go:78-80) is never needed. `OOMIsExplained` rests on what a container that was
killed tells of the limit and on the mark of an attempt that was cut off
(`Truthful`, `Explained`); no order of the removal and the end of the docker command is
assumed. `BoundaryOnlyErrsHigh` carries that a limit below the need never passes
(`LowerBound`) through the recorded attempts. `SearchFindsLeast` is about runs in
which only memory makes an attempt fail, as its property is: with other faults the
search takes any failure for a threshold, which is the second disagreement of
section 3. Its invariant says that an attempt passes if and only if the limit is
enough (`MemoryDecides`), so that `tested` holds the truth (`Measures`).

`PacingProofs` proves, for every rate, record size, clock unit, greatest integer
and number of ticks:

| Theorem | States |
|---|---|
| `WritersNeverAhead` | `NeverAhead` |
| `WritersKeepUp` | `KeepsUp` |
| `BaselineTargetExact` | `BaselineVolumeReached` |

The assumption is `PacingAssumption`: flags are positive integers of the code, a
second has at least two clock units, a record is at most half the greatest
integer. None of the three is inductive. The invariant accounts for what the
rate has earned: what is in records, what is in the credit, and what is lost
(`Lost`). In C++ nothing is lost (`CppExact`). In Go a tick loses less than a byte, a
stall at least the modulus (`GoLost`); the debt a stall leaves is at most
`MaxInt` + 1 (`GoDebt`), so the credit itself wraps only after `Second` of them;
and a record is paid for only out of a credit that is not negative (`GoAhead`).
`WrapFacts`, `WrapIdentity`, `WrapLarge` and `QuotientFacts` are the arithmetic;
`TargetFacts` shows that the division undoes the multiplication exactly when
the product did not overflow.

`CommandsProofs` proves, for any number of commands, kills and power failures and
any bounds of a sweep:

| Theorem | States |
|---|---|
| `ReportsAreWhole` | `ReportsWhole` |
| `SummaryIsBacked` | `SummaryBacked` |
| `StatusZeroIsOwn` | `StatusZeroMeansOwnSummary` |
| `DeltaErrsAsSearches` | `DeltaFollowsSearches` |

The assumption is `CommandsAssumption`: the four report paths, bounds of a sweep
with the lower one positive, needs that the upper one meets (if not, the search
fails, which is an action of its own). The invariant has two halves. `Stored` orders the
reports by the number of their run: the journal never takes a path back to an
earlier run (`Rising`), what processes see is on disk or will be once the journal
is committed (`SeenIsKept`), and each summary in the journal finds the reports it
rests on on the disk or before it in the journal (`SummariesKept`), so that a power failure, which
keeps a prefix, leaves a backed summary (`Backed`). `Doing` says what the command
that is running has written so far.

`ObservationProofs` proves, for every set of kernels, any number of samples and
rotations, and any clock:

| Theorem | States |
|---|---|
| `CountersRead` | `CountersSurvive` |
| `TransientsAreRises` | `TransientHappened` |
| `RatesAddUp` | `RatesFitSteps` |
| `RanksAreCounts` | `RanksByCounting` |
| `SegmentsCover` | `SegmentsCoverSamples` |
| `SlopesArePairwise` | `SlopeIsPairwise` |

The assumption is `ObservationAssumption`: levels and the number of rotations are
natural numbers, a strategy's first phase is `copy-start` or `rename`, a kernel is two
sets of names. The metrics are computed once, from the rows, so the invariants are about
rows: samples hold what the kernel had (`Observed`); as long as the clock was not set
back stamps increase (`Ordered`); the events of rotation q are the two rows 2q-1 and
2q, stamped in that order unless the clock was set back (`Paired`). From the last it
follows that a window ends at its own rotation's completion and at no other, and is
open only if that completion is stamped earlier. The rest of the proofs is about the
operators. A sum is characterised by what removing one element does to it
(`SumRemove`); growth and reclaim add up by telescoping, and a rate is reached in some
interval because a quotient of sums is at most the greatest of the quotients
(`Mediant`). Sorting by places is a one-to-one map onto 1..n; counting below and up
to a place gives the ranks. That no sample falls between two boundaries is the greatest boundary not after it. The two
forms of the slope are equal by induction on the greatest sample of the
interval.

`DataLemmas` holds what these proofs share. The library's induction theorems take an
operator as a parameter and cannot be used, but for a *set* of numbers induction
follows from its least element (`LeastNatural`, `SetInduction`, `BoundedInduction`).
With it the recursive function behind a fold or a concatenation is shown to exist
and to obey its equation (`JoinsExist`, `SumExists`), and from the equation all else.

**Only model-checked.** Liveness under fairness, which is beyond the prover:
`RunEnds`, `FaultFreeRunJudged`, `SearchEnds`. The two runs that show
disagreements have their counterexamples from TLC. Some theorems carry the
hypotheses named above; without them TLC finds the properties violated, or, for
`LeastLimitFound`, they are about something else.

## 5. Not modelled

- Resident memory of the writers, byte counts in events, file modes and owners,
  the text of JSON and CSV, flags and their defaults: data no property is about.
- RSS summed over `/proc` and the parsing of accounting files (cgroup reader):
  input without state. So the reader is partly modelled.
- The wrappers `writer`, `rotate` and `monitor` of the command line, which build a
  configuration and call the component modelled elsewhere: partly modelled.
- The mean, the maximum and the overall rate of the cache metrics, the list of
  missing examples, the failure counters of the sweep report and the workload
  echoed in reports: sums and copies of what is modelled.
- `copyprobe`, the scripts, the image and the Kubernetes job: no state or
  protocol of their own. The scripts start each run in a directory of its own;
  `Observation` and `Lab` assume that, `Commands` does not.

## 6. Plan

1. `CopytruncateKeepsOrder` and `KeepsStream` with failing writes: a weaker promise
   that holds after the repeated flush (nothing is lost, repetitions are of the
   buffer that failed), to be stated, checked and proved.
2. An action property of the search: the bracket never widens (its ends are in the
   invariant, `Bracket`).
