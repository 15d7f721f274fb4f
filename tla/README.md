# A TLA+ model of modbusctl

This directory holds TLA+ models of `modbusctl` (a command line tool for Modbus
devices: read, scan, poll, record, write, discover, serve a recording), the TLC
configurations that check them, and TLAPS proofs about them in eight modules.
Paths below are relative to the repository; where only a file name is given,
`scan_algo*.go`, `client.go`, `poll.go`, `discover.go`, `server.go` and the
`collect_*.go` files are in `internal/modbus/`, `recorder.go` and `legacy.go` in
`internal/capfile/`, `validate.go` in `internal/validate/`.

`PROJECT.json` is the index: components, runs, the faulty form that each
property was seen to catch, the source lines behind every definition, hazards,
findings and theorems.

## 1. The system

| Part | State | Operations | Interacts with |
|---|---|---|---|
| Scan strategies (`scan_algo*.go`): safe, smart, deep, stepped, linear, boundary, sunspec | position, queues, phases, search bounds | `Init`, `Next`, `OnResult`, `Done` | the executor, which calls them in that order, one read at a time |
| Scan executor (`ScanAndRecord`, `client.go`) | statistics, the strategy | the loop: next task, read, one repetition, report, wait | strategy, device link, recorder, context |
| Device link (`deviceLink`, `exchange`) | the client connection or none | `exchange` with retries, `reconnect`, `Close` | go-modbus client, recorder |
| Recorder (`recorder.go`) | pending PDUs per token, writer, last flush, closed | `Begin`, tap, `Commit`, `Close` | go-modbus tap (callback), mbcap writer, one device link |
| Unit collectors (`collect_report_server_id.go`, `collect_identify.go`, `client_pool.go`) | channels of units and results, clients | worker pool, serial loop | go-modbus clients, context |
| Read, poll, record (`client.go`, `poll.go`) | counters, a cadence | loops over `exchange` | link, recorder, output stream |
| Write, diagnostics, fingerprint, decode, sunspec commands | rows of a result | single requests, loops over units and functions | client |
| Discovery (`discover.go`) | host walk, job channel, list of devices | producer and workers | clients, ARP, context |
| Server and replay (`server.go`, `internal/replay/`) | a device per unit (immutable), clock, counters, sessions | request handlers, callbacks of the library | capture files, several clients |
| Validation (`validate.go`, `internal/config/`, recording plan) | none | a check per command, and the computation of what is sent | every command |
| Runner, errors, exit codes (`internal/runner/`, `internal/errs/`, `cmd/`) | the error and the result of one run | attach format, check, collect, write, classify, render | every command, signal |
| Capture analysis, output formats, file helpers | none | formatting and I/O | — |

What is hard in it: the strategies are state machines driven by a device that
may refuse any subset of registers or lose any read, with 16-bit addresses and
inclusive ends at 65535; an exchange mixes retry, re-dial, cancellation and
recording; the recorder is fed from a callback and keeps what retried attempts
leave behind apart; two worker pools must neither lose results, nor close a
channel too early, nor hang; a server answers several clients from one
compressed recording while its clock runs; a check of the flags is made once, and what is sent is computed again
later; and every command must turn whatever ended it — an answer, an error deep
in a chain, a signal, a disk that is full — into one exit code that is true.
All of it may be cancelled by a signal at any time. Section 8 lists what makes
each component correct; the hazards with their lines are in `PROJECT.json`.

## 2. Modules

```
ScanSettings            constants of a scan, and the assumptions validation gives
   └ ScanLoop           device, read in progress, what was captured or refused
      ├ SafeScan ┐                         RangeScan: the promise of an
      ├ SmartScan┼─ ExhaustiveScan         exhaustive scan (abstract)
      ├ DeepScan ┘      └ MCExhaustiveScan
      ├ BoundaryScan ┐
      ├ LinearScan   ┼─ SearchingScan
      ├ SteppedScan  │      └ MCSearchingScan
      └ SunSpecScan  ┘
ScanExecutor                        statistics, repetition, waits, return
Recorder      └ MCRecorder          capture recorder, several callers
   └ Exchange                       attempts of a request, one caller of it
UnitPool      └ MCUnitPool          identify / reportserverid

Replay                              device built from samples, answers, clock
   └ Server   └ MCServer            server static / replay, several clients

ExitCodes                           errors, kinds, classification
   └ Invocation                     one run: check, collect, write, exit code
      ├ DeviceCommands ┐            read, decode, diagnostic, write
      ├ PollCommand    │
      ├ RecordCommand  ┼─ Commands └ MCCommands
      ├ FingerprintCommand │
      ├ SunSpecCommands│
      └ Discovery ─────┘            with Subnets, the walk over the hosts

Endpoints, Requests  ┐              addresses, TLS; windows, values, plans
Subnets              ┴ Validation └ MCValidation

ExhaustiveScan_proofs (with its three strategies), SearchingScan_proofs (with
its four), ScanExecutor_proofs, Exchange_proofs (with Recorder), UnitPool_proofs,
Server_proofs, Commands_proofs (with the modules of the commands),
Validation_proofs
```

### Scans

**ScanLoop** is the executor's loop (`client.go:604-672`) seen from a strategy.
`device` is chosen once: the registers it has, and whether it is *lossy*. A
read of a block can only succeed when the device has every register of it; then
it does, unless the device is lossy, which may fail any read (timeouts, busy
gateways, limits on block sizes). `Issue` is `Next()` handing out a task,
`Answered`/`Refused` the result passed to `OnResult`, `Leave` the end of the
loop. `captured` and `refused` remember registers that were read, and those
whose single-register read failed. Register contents play no part in any
strategy but sunspec and are left out.

**SafeScan, SmartScan, DeepScan, SteppedScan, LinearScan, BoundaryScan,
SunSpecScan** have the fields of the Go structs as variables, one action per
branch of `Next()` and `OnResult()`. A branch that returns without a task and
calls `Next()` again is an action of its own; since only the strategy runs
then, no behaviour is added. Representation choices:

- the `candidates`/`candidateIndex` pair of safe is the set `ladder` of sizes
  not yet tried (they are tried largest first), and the count of registers
  left is kept in 16 bits as in the code (`Remaining`);
- the heap of smart is the set of its blocks with the order of `Less`. No block
  is ever in it twice, which is why a set is enough: theorem `NothingDropped`;
- the refinement queue of deep is a set of reads with the order in which they are
  queued (edge, start, count); each is there once, at the first edge that calls
  for it, which is what `refinementSeen` is for;
- `leftLow/High/Floor`, `rightLow/High/Ceil` and the two binary searches of
  linear are records; linear never runs its two searches at once, so they share
  `search`;
- what sunspec reads — a marker, a model ID, a length — is chosen at the read,
  so a device may hold any chain of models, and change it under the scan. Its
  address arithmetic wraps at 16 bits where the code's does.

**ExhaustiveScan** and **SearchingScan** are `newScanStrategy`: they choose the
strategy by `--algo` in the initial state. Grouping them lets one run ask the
same question of several strategies. Variables of strategies that were not
chosen keep a constant value.

**RangeScan** is the abstract specification of the three exhaustive strategies:
blocks of the range are captured and single registers given up in any order, and
the scan may conclude only when all registers are one or the other. `ScanLoop`
states the refinement, with the range for `First` and `Last`, `refused` for
`missing` and `finished` for `concluded`; the queues, ladders and probes of the
strategies are what it hides.

**ScanExecutor** abstracts the strategy to any that ends and a read to the
outcome of an exchange.

### Link, recorder, pool

**Exchange** extends **Recorder** and is one of its callers (`Link`): `Begin`,
the tap and `Commit` are the recorder's own actions inside the steps of
`exchange` (`BeginAttempt`, `CommitAttempt`). The
go-modbus client is external: a call exchanges PDUs and returns one of five
kinds of outcome; after a dropped connection the client is broken until it is
replaced.

**Recorder** makes every method one step (they hold the mutex), `Commit` split
by how it ends: dropped, written, or failed on an unknown function, on a sample
the writer refuses, or on the flush. `ReadsAmong` is its loop over the pending
PDUs. Time is a counter. The callers are a set: that several may use one recorder
at once is its contract (`recorder.go:49`), while every recorder of this
repository is fed by one device link, one request after the other.

**UnitPool** is both collectors; their loops are the same program. A worker's
steps are: take a unit, look at the context, ask, receive, send. `serial` is
chosen in the initial state; the serial loop is one worker whose result the loop
itself appends.

### Server

**Replay** is `internal/replay/`: `Build` drops a point whose value did not
change (`appendPoint` and its copies), `ValueAt` is the search for the latest
point, `ClockAt` maps elapsed to replay time. Samples are in file order; the
loop over them, sorted by time and stably, is a recursive function on sets of
samples that adds the latest one last. The float position of the clock is an
exact fraction, of which the model keeps the whole ticks.

**Server** is `server static` and `server replay`: choose the targets, build a
device for each, listen, then per client `Arrive` (OnRequest), `Handle` (the
handler reads the clock once and answers) and `Deliver` (OnResponse or OnError),
so that requests of several clients, the clock and the stop interleave. The
Modbus server is a library and external. `ServerAssumption` says what may be in a
file and in a request: a sample of a function that captures support has the
form the parser gave it (`CaptureTyped`; a file with any other is refused in
`Prepare`), the parser gives times that are not negative, and the library hands on
reads of at least one address, inside the address space (`RequestTyped`).

### Commands

**ExitCodes** models a Go error as its outermost kind and the set of causes that
`errors.Is` would find in its chain. The functions that wrap and classify keep
the code's order, which matters: a dial that timed out is a connection error, and
any chain that holds a cancellation is an interruption.

**Invocation** is one run of the program (`internal/runner/`, `cmd/`): the stages
of `RunE`, the fatal error rendered once, the exit code; plus the link and
the capture that commands share. `Collected` is the end of collecting with its
deferred calls, which may themselves fail. The command modules add what happens
between: **DeviceCommands** (one request), **PollCommand** and **RecordCommand**
(loops in time), **FingerprintCommand** (units times functions, errors kept in
rows), **SunSpecCommands** (detect, models, map, probe around the library's
detection), **Discovery** (a producer, a queue of 4 hosts per worker, workers;
the final sort is any rearrangement of the devices that is in order).
**Commands** joins them; there the exchange, the scan executor and the unit pools
are one step with the outcomes their own modules find. `server` either fails to
start or reaches the stage `serving`, which only a signal ends.

### Validation

A check only reads the configuration; the command later computes what it
sends from the same configuration, often in 16 bits. **Requests** and
**Endpoints** hold both sides as operators, **Validation** runs one
configuration through `Accepts` and then `Sends`. The properties compare the
result with what the protocol allows. `ConfigsAssumption` gives the widths of
the fields the numbers depend on (an address has 16 bits), and that no codec a
write names takes no register. The walk of **Subnets** is shared by `discover`
and by the host count of its check.

Loops whose result is proved about are written as recursive functions over the
index (`Given`, `Ascending`, `FileResponseSize`, `ReadsAmong`), and the sort of
discovery as a choice among the rearrangements in order: the folds and sorts of
the library hide an induction that the provers do not see through.

## 3. Runs

All runs finish within three minutes on two workers.

| Run | Module | States | What it shows |
|---|---|---|---|
| `ExhaustiveScan` | MCExhaustiveScan | 96,026 | safe, smart, deep: `ReadsStayInRange`, `EveryAddressSettled`, `CapturesWhatIsReadable`, `ReadsBounded`, `EdgesAreRetried`, refinement of `RangeScan`, `Terminates` |
| `SearchingScan` | MCSearchingScan | 160,749 | boundary, linear, stepped, sunspec: `ReadsStayInScope`, `BlockIsCaptured`, `EdgesAreExact`, `HitsAreExpanded`, `ReadsBounded`, `Terminates` |
| `UnitPool` | MCUnitPool | 308,278 | `ResultIsComplete`, `ClosedWhenQuiet`, `CancelStopsAtNextUnit`, `PoolDrains`; deadlock is checked |
| `Exchange` | Exchange | 73,676 | `OnlySuccessIsRecorded`, `BrokenLinkIsReplaced`, `FinalFailuresEnd` |
| `Recorder` | MCRecorder | 927,958 | `CaptureHoldsAccepted`, `NothingLingers`, `UnflushedAreRecent`; the two callers are symmetric |
| `ScanExecutor` | ScanExecutor | 23,026 | `SummaryAddsUp`, `OneResultPerTask`, `Returns` |
| `Server` | MCServer | 600,710 | `HoldsLatest`: every answer is the sample-and-hold of one instant, computed from the samples alone; `CountersAddUp`; `ClockKeepsPace` |
| `Commands` | MCCommands | 375,315 | all 17 commands with a signal at any time: `ExitCodeTells`, `WriteIsSentOnce`, `PollsAddUp`, `CaptureIsFinished`, `DiscoveryIsExact`, `CommandEnds`; deadlock is checked |
| `Validation` | MCValidation | 9,588 | 20 commands: `AcceptedRequestsFit`, `ChangesAreConfirmed`, `UnitsAskedOnce` |
| `WholeSpaceScan` | MCExhaustiveScan | — | violates `EveryAddressSettled` (section 6) |
| `LastReadFailure` | Exchange | — | violates `LastReadFailureIsReturned` |
| `LostSample` | ScanExecutor | — | violates `LostSampleIsFatal` |

Every property of a passing run is violated when one definition of the model is
replaced by a faulty form of it; these forms stand at the head of the modules
("Faulty forms of the definitions below") and are named in `PROJECT.json`.

### Bounds, and why they are enough

- *ExhaustiveScan*: 8 addresses, range 1..7 ending at the last address of the
  space, blocks of at most 4, sizes {4, 2, 1}. Every subset of the registers is
  a device. The initial blocks of smart are 4 and 3 long (equal and unequal
  halves), safe meets every order of failures of its three sizes, and the
  16-bit count is exercised next to its limit. The refinement of deep has a
  window of 2 and counts {1, 2}, so two edges can want the same read.
  `RefinementCap = 9` is above
  the number of refinement reads for some devices and below it for others.
- *SearchingScan*: range 1..9 of 12 addresses, reads of at most 3, so a block
  can span three search windows on a side and both ends of the range can be the
  edge; three seeds, one of them outside the range. Step 8 with half steps gives
  base positions at both ends, a half step between them and one that wraps.
  sunspec gets candidate lists with the last addresses of the space in them, a
  given base next to the end, and limits on models and span that are met before
  and after the chain ends; bodies are up to three reads long.
- A lossy device has all registers (exhaustive, sunspec) or a middle part
  (searching): what it refuses is chosen at every read, so other sets add no
  behaviour of the strategy.
- `RequestCap` (30, 40) stops the counter of reads; it lies above every bound
  asserted, so a strategy that exceeds a bound is seen before it stops.
- *Exchange*: two exchanges on one link (the second sees the state the first
  left), two attempts, two PDUs per attempt; LastReadFailure has the single
  attempt of read and scan. *Recorder*: two goroutines, two attempts, two PDUs
  each, two ticks with a flush due after one. *ScanExecutor*: four tasks.
  *UnitPool*: four units and three workers, so that after a cancellation there is
  one more unit that a worker could wrongly ask; a pool limited by the number of
  its units is covered by the proofs. Each worker is as good as another.
- *Server*: captures of up to eleven samples that are out of order, at one
  time, come back to an earlier value, hold exceptions, short and inconsistent
  responses and identity in pages; with one or two targets, a clash of units, a
  function that cannot be served, a declared and a missing end. Speeds below,
  at and above one, one, two and endless rounds, all of `--missing` and
  `--before-first`. Two clients with two requests are enough to interleave;
  six ticks see two rounds.
- *Commands*: two requests of a plan, two units, two functions, two polls (three
  when unbounded, `MaxPolls`), a duration of three with intervals of 0, 1 and 2
  (`MaxIterations = 2` bounds the run without a pause); two discovery workers
  and four lists of overlapping subnets among 16 addresses: a host, a pair,
  larger ones, one inside another, one that ends at the last address, and a
  subnet followed by the /0. The devices are sorted as texts, which differs from
  the order of the numbers; the proofs cover every order.
- *Validation*: the limits are scaled down (16 addresses, reads of 3 registers
  or 5 bits, units up to 7) with their order kept. Per command: a usual
  configuration, the same with each flag changed to every interesting value, and
  the product of the numbers that together decide the window that is sent.

### Fairness

- Scans: `WF_vars(Next)`. The loop is sequential and each read ends by the
  client's timeout; nothing else is assumed, in particular not that any read
  succeeds.
- ScanExecutor: weak fairness of the loop, not of the cancellation.
- UnitPool: weak fairness for the collector and for each worker (goroutines are
  scheduled; a request or a dial ends by its timeout), none for the cancellation.
- Commands: weak fairness of the program's steps (each request, dial and write
  ends) and of the clock, none for the signal. `CommandEnds` asks nothing of a
  server or an unbounded poll that is not interrupted, nor of a /0. Serving has no
  step but the one a signal enables, so fairness cannot end it.
- Exchange, Recorder, Server and Validation are checked for safety only.

`CHECK_DEADLOCK FALSE` is set where the program ends or a bound is used up;
UnitPool and Commands have an explicit last step instead.

## 4. Theorems

`tlapm` proves the following for every value of the constants that satisfies
the assumptions of the module: ranges, numbers of units, clients, attempts or
tasks, limits and configurations of any size.

The assumptions on a scan (`ScanSettings`) are what the validation and the tables
of the code give: a range inside the address space; reads of at least two
registers (a probe of stepped takes two); size 1 among the sizes of safe; stepped
sizes that descend; and seeds that are reads of the address space
(`validate.go:198-202`).

*ExhaustiveScan_proofs*: each strategy alone, then `Spec` of the scan with any of
the three (`ExhaustiveInvariant`).

- *safe*, `SafeIInv`: a read in progress (other than the probe) starts at
  `current`, fits in the range, and size 1 is still to come unless it is the one
  being read; the left-boundary probe reads a settled register between two
  addresses; everything below `current` is settled. None of `TypeOK`,
  `ReadsStayInRange` and `EveryAddressSettled` is inductive alone: that a failed
  ladder settles its address needs size 1 to have been tried last.
  `SafeTypeCorrect`, `SafeStaysInRange`, `ProbesRevisit` hold for every range;
  `SafeEverySettled` and `SafeImplements` (of `RangeScan`) under `NotWholeSpace`:
  for the whole address space they are false (section 6).
- *smart*, `SmartIInv`: the waiting blocks and the block being read are disjoint
  parts of the range, apart from or strictly inside every block handed out
  before, and apart from what was captured; every register is settled, being
  read or waiting. Lemmas: the initial blocks partition the range, the two halves
  partition a block. `SmartTypeCorrect`, `SmartStaysInRange`, `SmartEverySettled`,
  `SmartImplements` for every range, the whole space included (smart counts in 32
  bits); `NothingDropped`: no waiting block was handed out before, so the
  `visited` check can never drop registers; `CapturesOnce`.
- *deep*, `DeepIInv`: smart's until the refinement begins, from then on all is
  settled and what is left to read fits in the range. `DeepImplements`: its first
  phase does what smart does, its second adds nothing to what is settled.
- *the scan*: `ScanTypeOK`, `ScanStaysInRange`; and, unless safe scans the whole
  space, `ScanSettles`, `ScanCapturesWhatIsReadable` (with `HonestInv`: what was
  captured the device has, what a faithful device refused it lacks) and
  `ScanImplements`.

- *what a scan costs*, `ScanReadsBounded`, from a second invariant (`CostInv`) that
  has every read paid for. safe: the reads so far, and the sizes that an address
  still has to try, fit in what the settled addresses bring. smart: a waiting
  block of n registers may cost 2n - 1 reads, and the two halves of a block
  together one less than the block. deep adds its queue, which the cap bounds.
  The request counter stops at `RequestCap`, which may be any number, so
  the bound holds of as many reads as one likes to count.
- *deep, its edges*: `EdgesRetried` (`EdgesAreRetried`), an action property of the
  step that builds the queue. `FailedInv` says what phase 1 left in the intervals;
  the rest is which reads survive the cap, by the cardinality of the ordered set.

*SearchingScan_proofs*, with an invariant for each strategy
(`SearchingInvariant`):

- `BlockIsCapturedTheorem`, `EdgesAreExactTheorem`, `ReadsStayInScopeTheorem`. The
  core of the invariant relates a search window to the device: the block up to the
  lower end was read, and what lies beyond the upper end was refused together with
  the registers up to the block, so on a device that answers what it can one of
  them is missing. For sunspec it says where detection is among the bases and how
  far the chain of models has come, with the limits that end it.
- `TypeCorrect`: only the chosen strategy uses its fields. It is not inductive
  alone: that an address stays in the address space needs the places above.
- `ReadsBoundedTheorem`, from `CostInv` (`SearchingTypes`). linear: until something
  answers, each read passes one block of the range. stepped: a position may cost
  `PositionCost` reads (six probes, then the sizes), and as many positions are
  behind as the rank of the current one among all step positions, half steps
  included, as in `ALGOS.md:325` and not in the printed hint (section 6). sunspec:
  a base may cost one read, and a model pays for its whole body when its header
  has been read.
- `HitsAreExpandedTheorem`, from `HitInv`, on a device that answers what it can:
  the probes tried at a position were not readable, so the first that is becomes
  the hit (`ProbesInv`); the sizes tried at a hit were not readable (`Futile`); and
  for every position behind, what is owed was captured (`PassedInv`). Since the
  sizes descend, a block that is answered holds every smaller one.

*ScanExecutor_proofs*: `StatsAreExact` and `TasksAreToldOnce`. The two properties
speak of the moments between tasks; the invariant follows the counters through
a task: which reads are counted already (`StatsFollow`), what the repetition
may still cost (`ReadsAreAllowed`), and by how much the strategy is behind.

*Exchange_proofs*, the recorder for any number of callers, attempts and PDUs
(`RecIInv`):

- `AttemptsAreApart`: a token belongs to one attempt of one caller.
  `PendingIsFreed` (`NothingLingers`) needs it: the end of an attempt frees its
  PDUs and no other caller's.
- `CaptureIsAccurate` (`CaptureHoldsAccepted`): the capture holds the reads of the
  accepted attempts, each attempt's together, once, in order, and nothing else.
  What the loop of `Commit` selects is computed by induction over the PDUs; the
  invariant adds that the capture knows nothing of an attempt in progress.
- `FlushesAreMade` (`UnflushedAreRecent`): no PDU is from the future, so a flush
  that is not due leaves recent samples only.

and the exchange on a link of it:

- `LinkIsReplaced` and, as an action property, `FinalFailures`. The invariant ties
  the state of the link to the place in `exchange`: a broken client is seen only
  between the call that broke it and the decision about it (`LinkInv`), and
  whenever another attempt may begin, the last one failed in a way that is
  retried (`RetryInv`). The Commit of a dropped call cannot fail
  (`DroppedIsNotKept`), so it never hides the drop.
- `OnlySuccess` (`OnlySuccessIsRecorded`): `RecordInv` says that the attempts of
  this exchange before the latest failed, and which outcome the latest had.

*UnitPool_proofs*: `ClosesInOrder` (`ClosedWhenQuiet`) from `PhasesInv`, which
ties the open clients and the place of every worker to the phase of the
collector; `CancellationStops` from `LateInv`: the requests begun after a
cancellation and the workers about to begin one are together no more than the
workers, since none looks at the context in time any more; `ResultsAreComplete`
from `UnitsInv`: every unit is waiting, in the hands of one worker, sent or
collected, and in one of these places only, until the units are drained.

*Server_proofs*, for any capture, flags, clients and requests:

- `SummaryAccounts` (`CountersAddUp`), from `CountsInv`. The lemmas `ValuesAnswers`,
  `IdentityAnswers` and `ResponseAnswers` show, for each kind of function, that
  under `--missing silence` exactly the requests counted as unrecorded get no
  answer; the rest is a count of the sessions.
- `AnswersHoldLatest` (`HoldsLatest`), from `AnswersInv`: the devices are those that
  `Build` makes of the file, and every answer that waits to be delivered holds
  the latest samples as of its time. `Tracks` relates the points of one value to
  its samples: at every time the points up to then end with the value of the
  latest sample up to then. `NextSampleTracked` shows that the next sample keeps
  this, whether or not its value is dropped as unchanged; `BuildTracks` carries it
  over the loop, by induction over the number of samples (the recursive function
  is first shown to exist, `Builds`); `ValueIsHeld` shows that the search finds what
  `Tracks` says. The induction is over a set of numbers (`SetInduction`), from the
  least element of its complement, so no theorem with an operator parameter is
  needed.
- `ReplayKeepsPace` (`ClockKeepsPace`): `ClockInWindow` turns the comparison of
  products in `Clock.At` into one of rounds (`QuotientReaches`), `PaceIsKept` bounds
  what the two roundings of one tick can add or take.

*Commands_proofs*: `CommandsInvariant` over the stages of a run, with a part for
the link and the capture, for what may have been blamed so far, and for the
counters of each command; every action of every command module is a case.

- `ExitCodeTellsTheorem`: only a signal leads to 130, and an error keeps the kind it
  was given on its way through the wrappers to the exit code.
- `WriteIsSentOnceTheorem`, `CaptureIsFinishedTheorem`, `PollsAddUpTheorem`.
- `DiscoveryIsExactTheorem`, for any list of subnets of one address family and any
  number of workers: `WalkIs` shows that the walk over a subnet visits the
  assignable hosts and no other (by arithmetic on powers of two, /31 and /32 and
  the last address of the space included), `EndlessWalk` that over a /0 there is
  always a next host, so only a signal leads past it, and `PoolInv` that every host
  seen is queued, in the hands of one worker, or asked once, unless the run was
  cancelled. The result is in the order of `Rank`, any order in which no two
  addresses are equal: that of numbers for IPv4, of texts for IPv6.

*Validation_proofs*, for all configurations and all limits in the order of
`LimitsAssumption`; one case per command:

- `NothingChangesUnconfirmed` (`ChangesAreConfirmed`); the lemma
  `PlannedRequestsAreHarmless` shows that `Check` lets no request into a
  recording plan that changes a device.
- `EveryUnitIsAsked` (`UnitsAskedOnce`): the sorted list of the parsed units is
  strictly ascending.
- `AcceptedRequestsExist` (`AcceptedRequestsFit`): the loops over values, parts and
  records are computed by induction over their sets (`LoopComputes`), then every
  window is seen to fit although the command computes it in 16 bits.

Only model-checked, and why:

- liveness (`Terminates`, `PoolDrains`, `Returns`, `CommandEnds`): out of the
  prover's reach.

Every invariant, action property and refinement that a passing run checks is the
statement of a theorem. Three of them are proved under `NotWholeSpace`, as the
run `WholeSpaceScan` shows they must be.

## 5. Plan

Done: all the strategies, executor, exchange, recorder, both worker pools,
server and replay, all commands to their exit codes, the validation of all
commands, and the proofs above. What would come next:

1. A worst case for boundary, for which the hint gives no number and
   no property states one: stated from its searches, checked, then proved.
2. The executor over the strategies: `ScanExecutor` with its abstract strategy
   replaced by one of the `*Scan` modules, at the small bounds of that run.
3. The selection of a target and a function for the capture commands, and the
   stitching of legacy blocks, if they grow decisions beyond filtering.

## 6. Divergences met while modelling

Shown by a run:

- **WholeSpaceScan**: `candidateCountsSafe` (`scan_algo.go:129`) counts the
  registers left in 16 bits. For 0..65535 that is 0, so the safe strategy ends
  before its first read; `ALGOS.md:107` takes every size that fits.
- **LastReadFailure**: `client.go:418-419` says the caller must see the read
  failure of the last attempt, not the outcome of the re-dial; when that
  re-dial fails, `client.go:420-421` returns its error.
- **LostSample**: `docs/exitcodes.md:33` says failing to write a capture exits
  10; the executor looks for it only after the first read of a task
  (`client.go:614`), not after its repetition (`client.go:628`).

Read in the code, with no run of their own; where a model reaches the place, it
does what the code does:

- Stepped expansions may start one register below the range (a hit of a probe
  at `StartAddress - 1`); the comment `scan_algo.go:601` and `ALGOS.md:271,334`
  say strictly within. `ReadsStayInScope` states what does hold.
- A half step of stepped is added in 16 bits (`scan_algo.go:515`) and may wrap
  (`ALGOS.md:288` has no wrap).
- The worst case that `client scan` prints for stepped ignores half steps
  (`scan_algo.go:1196-1206`): with `--step-half-offset` a scan may take up to twice
  the reads announced. `ReadsBounded` is the worst case of `ALGOS.md:325,564`, six
  reads for each position, half steps included; it does not say that the printed
  number holds.
- The gap probe of linear re-reads the register the tail search has just
  settled (`scan_algo.go:825`); `ALGOS.md:374` expects it to find islands.
- `recorder.go:31-33` says a crash loses at most ten seconds of samples; a
  flush happens only in a later `Commit`, so with no further request the last
  samples stay in memory. `UnflushedAreRecent` states what does hold.
- `docs/exitcodes.md:17` gives 130 to a signal before a one-shot command had its
  result. A cancelled scan without `--delay` and an interrupted
  `sunspec probe` write a result with failures (7), an interrupted `discover`
  the devices found so far (0), and the serial loop of the unit collectors a
  result when its last unit was in progress. `docs/exitcodes.md:37` says an
  interrupted `fingerprint` writes its result and exits 7: not when the signal
  arrives in the pause of `--interval`, which ends it with 130.
- `record` exits 0 however many of its requests failed, and with an interval of
  0 it looks at the context only after a request that failed.
- In `capture extract` and `capture decode` a write that fails counts as a
  capture that cannot be loaded (3, where a failed write is 10); `strings` and
  `frequencies` do not notice it, and no export notices a failed close
  (`internal/cli/output_file.go:32`).
- `client diagnostic --data` of blanks alone passes as no data
  (`validate.go:372`) and sends none, where no flag at all sends two zero bytes
  (`collect_diagnostics.go:33`). It also accepts unit 0, which the other
  commands refuse.
- A /0 passes the checks with `--force-large-scan` (`validate.go:430`). Its walk
  (`discover.go:204`) wraps, never leaves the subnet, and hands out the network and
  broadcast addresses that the comment `discover.go:179` says are omitted; when
  every address was met it no longer looks for a signal. `DiscoveryIsExact` has this
  case in it, `CommandEnds` excludes it.
- `legacy.go:37` has the blocks of an iteration share its number; a read that
  failed shifts the ones after it.

## 7. Not modelled

- *Output types and formats*: rendering of results as text, tables and JSON.
- *Capture analysis*: single passes over a loaded capture that format what they
  meet; only how the capture commands end is in Commands. The selection of
  records for them and the reading of 2.x captures.
- *Libraries*: the MBCAP file format, TLS, serial lines, codecs, the Modbus
  protocol, go-sunspec's detection and header walk, cobra. Their outcomes are
  nondeterministic choices.
- *Discovery* of MAC addresses (one ARP lookup per device found), and lists that
  mix IPv4 and IPv6: the addresses of a list are numbers of one width.
- *Environment and flags*: a malformed variable ends a run in Invocation;
  precedence and registration of flags are left out.
- The float rounding of the replay clock; the wording of progress output (the
  numbers of its cost hint are the bounds of `ReadsBounded` for safe, smart, deep
  and linear). AddTarget and
  AddStream of the recorder happen once before the first attempt. A second
  Ctrl-C has no effect of its own. The poll counter has 32 bits and does not
  come near its limit.
- File and conversion helpers, the test harness and the health check hold no
  logic of the program's own.

## 8. What makes each component correct

- *safe, smart, deep*: settle every register, never leave the range, capture
  exactly what is readable, stay within the documented cost, retry edges (deep),
  end — whatever the device does.
- *boundary, linear*: what they take for a block was read; its edges are exact;
  they end. *stepped*: no position lost, the largest block at every hit.
  *sunspec*: stays within its bases, models and span, and ends on any chain.
- *executor*: the summary agrees with the reads performed and the capture; one
  result per task; at most one repetition; it returns.
- *exchange*: nothing of a failed attempt is recorded; no call on a dead
  connection; a final failure is not repeated.
- *recorder*: all the reads of an accepted attempt, once and in order, and
  nothing else; no memory of finished attempts; a due flush happens.
- *unit pool*: complete sorted results or an error; no send on a closed channel;
  no open connection afterwards; a cancellation stops at the next unit; drains.
- *server, replay*: every answer is what the capture held at one instant; the
  clock stays in its window and keeps its pace; each request counts once.
- *commands*: the exit code tells what happened; a write goes out once and only
  confirmed; poll counts what it wrote; a capture is whole or the command
  failed; every command ends, a server and an unbounded poll by a signal.
- *discovery*: every assignable host once, and the devices are those that
  answered; a /0 only until a signal.
- *validation*: an accepted configuration dials the device it names and sends
  requests that exist, asks each unit once, and changes nothing unconfirmed.
