# A verification of queryAPIBenchmarks-go

The program is a command-line benchmark of two Neo4j HTTP APIs. It runs one of
eight benchmarks (implicit or managed transactions, sequential or concurrent,
fresh or pooled connections), times each request, and prints a table, JSON or
benchstat lines. Its worth is that the numbers can be trusted, so that is what
is verified here: every request is accounted for exactly once, timed inside the
clock, summarised and printed as what it was, on connections that are the
benchmark's own; and a run that cannot be measured is not reported as one that
was.

## Inventory

| Component | State | Operations | Hard behaviour | What makes it correct |
|---|---|---|---|---|
| Runner, `internal/runner/runner.go` | per-worker shards, the `jobs` channel, the wait group, the clock | `Run`, `RunConcurrent`, `warmup`, `measure`, `shard.record`, `mergeShards`, `collectSamples` | producer, workers, ticker and caller interleave; bounded channel; counts from flags unchecked | the Result is an exact account; the clock covers every call; it returns |
| Progress, `internal/runner/progress.go` | an atomic counter, the stop channel, the terminal line | `startProgress`, `render`, `Stop` | a tick racing `Stop`; load and draw are two steps | the line is never ahead of the truth, never drawn after the closing line |
| Result and statistics, `result.go` | none (values) | `computeStats`, `percentile`, ratios | rounding, overflow, n = 1, p near 1 | percentiles between neighbours, monotone in p |
| Error classes, `errclass.go` | none | `classify`, `summarize`, `TruncateRunes` | several tests match one error; cutting inside a rune | one stable label per cause, length bound |
| Managed transactions, `internal/managed` | none in the client; a transaction on the server | `RunTransaction` = begin, execute, commit, or rollback | lost and late responses, an expired context, a balancer that changes nodes | nil means committed; a transaction is left open only after a fault |
| Benchmarks, `benchmarks` | the http.Client of one benchmark | eight entry points, `newSessionClient`, `effectiveConcurrency` | the pool must be released on every path | the pool fits the workers that run |
| Transport, `internal/transport` | the idle connection pool (net/http) | `NewFresh`, `NewSession`, `NewSessionHTTP2`, `poolSize` | client and proxy both close idle connections | no connection churn below the pool size |
| Rendering, `internal/results` | none | `PrintTable`, `PrintJSON`, `PrintBenchstat` | entries without successes | no failure passes unseen |
| Command line, `cmd/bench` | the entries and `aborted` | the runs x queries x tests loop | some benchmarks of a run fail; output only at the end | the exit code is 0 only if every benchmark ran and none had all its requests failed |
| Query file, `httperr` | none | `Load`, two error types | none | none |
| Deployment, `docs/awsSetup` | external (HAProxy, Neo4j) | round robin, retry rules, timeouts | retries of what was already sent | the tool's assumptions hold under it |

How they interact: `cmd/bench` calls one benchmark at a time; the benchmark
builds an http.Client and a `TxFunc` over it and hands both to the runner; the
runner calls the `TxFunc` from its workers, with a context that carries the
request timeout; the managed client makes two to four HTTP calls per `TxFunc`.
Everything the components share is memory of one process; the server is
reached through HTTP only.

## Plan

1. `Benchmark`, `Progress`, `Runner`, and their proofs: the core. **Done.**
2. `Transaction` and `ManagedTx`: `RunTransaction` against several nodes behind
   a balancer, with requests and responses lost or late, their proofs and the
   refinement. **Done.**
3. `Pool`: the session client's idle pool, `poolSize`, `effectiveConcurrency`
   against the workers the runner really starts, and its release, with the
   proofs. **Done.**
4. `Latency`, `ErrorClass` and, over them, `Report`: `computeStats`,
   `percentile`, `classify`, `summarize`, `TruncateRunes` and the three
   printers, with the proofs. **Done.**
5. `Bench`: from the command line to the exit code, with the proofs. **Done.**

With these, every safety property, action property and refinement that a passing
run checks is a theorem too. Not modelled is what the inventory's components say of
themselves in `PROJECT.json`: the HTTP/2 client, the SDK's inside, number
formatting, and the build.

## Modules

| Module | Models | Lines |
|---|---|---|
| `Progress` | the counter, the ticker goroutine, the line on the terminal | progress.go |
| `Runner` | the warmup, the timed phase, the merge; extends `Progress` and drives it | runner.go |
| `Benchmark` | the abstract promise: reject or begin, answers in any order, one exact report | result.go's account |
| `MCRunner` | the instances TLC checks | |
| `ManagedTx` | begin, execute, commit, rollback of concurrent calls, and the cluster around them | managed.go |
| `Transaction` | the abstract promise of one call | |
| `Pool` | the http.Client of a benchmark, its connections and its workers, the proxy | benchmarks.go, transport.go |
| `MCPool` | the instances TLC checks: all eight benchmarks, and a cluster | |
| `Latency` | the summary of a set of durations, as operators | result.go |
| `ErrorClass` | the label of an error and the shortening of text, as operators | errclass.go |
| `Report` | the three printers, entry by entry; extends the two above | table.go |
| `MCReport` | the durations, errors and entries TLC tries | |
| `Bench` | the command: flags, query file, loop, flush, exit code | main.go, queryfile.go |
| `MCBench` | the command lines TLC tries | |
| `RunnerProofs` | types and control; the books: shards, clock, Result; `Runner` implements `Benchmark` | |
| `RunnerDisplayProofs` | what a user sees: the progress line, the error samples | |
| `ManagedTxProofs` | isolation, what nil and an error mean, what is left open; `ManagedTx` implements `Transaction` | |
| `PoolProofs` | no dead connection, the release, the pool stays warm | |
| `BenchProofs` | stdout and the exit code | |
| `LatencyProofs` | sorting, sums, the mean, the deviation and the percentiles of any durations | |
| `ErrorClassProofs` | which texts and errors share a label | |
| `ReportProofs` | the lines of a report, over the two above | |

### How Runner corresponds to the code

`pc` is the program counter of the goroutine that called `Run` or
`RunConcurrent`. Its actions follow the source from top to bottom:

- `SkipWarmup`, `StartWarmup`, `WarmupRequest`, `StopWarmup`, `EndWarmup` are
  `warmup`. `EndWarmup` holds the abort test. The code computes it in floating
  point; `10 * failures > total` has the same value, because 0.10 rounds up and
  a product that is exactly a whole number cannot be rounded below it.
- `Allocate` is the prologue of `measure` with `RunConcurrent`'s choice of the
  number of workers; `PanicOnNegativeCapacity` is the same prologue when
  `make` is given a negative capacity (`-n -2`).
- `PlainIterate`, `PlainEnd` are the channel-free path, `Spawn`, `Send`,
  `CloseJobs`, `WaitWorkers` the dispatching one, `JoinProgress` is `p.Stop()`.
- `MergeShard`, `CollectSample`, `FinishMerge` are `mergeShards` and
  `collectSamples`, one step per shard and per visit.

Each worker has a counter in `wpc`: `Receive` takes a token, `Return` is `fn`
returning followed by `shard.record`, `Count` is `done.Add(1)`, `Exit` is the
end of the `range` over a closed and empty channel. The shard belongs to one
goroutine, so returning and recording are one step; the atomic counter is
shared, so counting is another. The two workers' code paths (plain and
dispatched) share `Begin`, `Return` and `Count` as they share `run` in the code.

The tokens on `jobs` carry nothing, so the channel is the pair `sent`, `taken`,
its fill is the difference, and a request is named by the order in which it was
taken. A duration in a shard is represented by the request it timed, which is
what makes "exactly one duration per request" expressible. `answer` is a
history variable: what `fn` returned for each request. No action reads it.

`-n`, `-warmup` and `-workers` are not checked by the program, so
configurations range over the integers, zero and negative ones included.

In `Progress` a tick loads the counter and draws the line in two steps, so a
line may be stale when it is drawn; `Quit` and `Tick` compete when the stop
channel is closed, as Go's `select` picks at random. `screen` is the last line
drawn and whether it is the closing one.

### How ManagedTx corresponds to the code

`pc[c]` is the exchange call `c` is in. `Enter(c, op)` builds the request of
`op` and hands it to `httpClient.Do`: with an expired context `Do` fails and
nothing is sent, otherwise the request is `pending`. An exchange ends in one of
the ways the code tells apart: accepted (`Accepts`: a 2xx, and for the legacy
flavor a body without errors or one that cannot be decoded), rejected
(`Rejects`: another status, a legacy errors array) or failed in `Do`
(`DoFails`: the deadline or a broken connection). What follows is
`RunTransaction`: `BeginSucceeds`, `BeginFails`, `ExecuteSucceeds`,
`ExecuteFails` (which starts the rollback), `RollbackEnds`, `CommitSucceeds`,
`CommitFails`. The URL that begin returned is a host and a number, and
`Resolve` keeps the host of an absolute Location.

The environment is external and deliberately hostile. A request may be served
late, after the client gave up on it and even after it returned, or never; a
later request may overtake it. A node may refuse a request, fail a statement
(leaving the transaction open or not), end a transaction on its own, and answer
begin without a Location. The balancer sends begin to any node and, as
`retry-on empty-response` says, sends it again after a node has served it.
Nodes number their own transactions, so numbers collide between nodes: this is
what makes a request that reaches the wrong node dangerous and not just a 404.
`log` holds, per node and transaction, who did what to it. `hit` and `faults`
record what went wrong outside the client; no action reads `hit`, and `faults`
only bounds the run.
Each node's Location names that node, the first of the two things the package
comment requires. A relative Location would be resolved on the balancer's
address; that deployment is excluded by the same comment.

### How Pool corresponds to the code

A benchmark is its three traits (session or fresh client, `Run` or
`RunConcurrent`, SDK or managed transactions). `OpenClient` is the construction
of its http.Client with the limits of `NewSession` or `NewFresh`; `StartTx` is
the `TxFunc`, known here by the hosts its requests go to, which for a managed
transaction are the proxy for begin and the node of the Location after that;
`Release` is the deferred `CloseIdleConnections`, after the runner has
returned. `Started` is what the runner starts and `SharedBy` what the pool is
sized for: two calculations in two packages that must agree.

net/http is external. Its part follows what `http.Transport` does with these
settings: a request takes the last used idle connection of its host or waits for
a dial, and is served by whichever comes first, the dialled connection or one
that another worker gives back (`TakeIdle`, `Dial`, `DialEnds`, `Respond`); a
connection is returned to the pool before the caller goes on, subject to the
limit per host and the limit in all, beyond which the oldest is closed
(`PutIdle`). The idle connections of a host are a list, the one longest in the
pool first; when the limit in all is reached and the oldest connections of two
hosts have the same age, which of them is closed is left open. A dial outlives the request that started it; `CloseIdleConnections`
sets a flag that the next request clears. Time passes in ticks of ten seconds:
the client's 20 s are two, the proxy's 30 s three. The idle timer may be late by
any amount, and the transport's check of the age when it takes a connection is
what then keeps it from being used. Any number of exchanges break, dials fail
and deadlines pass. `warm` is a history variable that no action reads.

### How Latency, ErrorClass and Report correspond to the code

A duration is an integer in `-Half..Half - 1` (`Half` is 2^63 in the code) and
`Wrap` is what the sum does when it leaves that range. Sorting is by rank: the
k-th element of `Ordered(S, R)` is the one with k - 1 others before it in the
linear order `R`, and equal durations are told apart by their places, which leaves
the sorted values the same. Floating point is a set of results: a product that is exactly a
whole number may be computed just below it and lose one when it is truncated, so
`percentile` and `NsPerOp` are sets of one or two values, and a line of the
report takes any of them. That the error is no larger is assumed by `Truncated`
and not derived: it grows with the number of durations times the gap between two
neighbours, divided by 2^53, and must stay below a thousandth of a nanosecond.
A thousand requests with gaps of a second do; the default is 50 requests. The
position `p * (n - 1)` itself is exact where it is whole, for the five
percentiles used.

An error is what its chain answers to `errors.Is` and `errors.As`; `Tests` is the
order in which `classify` asks. A text is a sequence of runes of which the kind
matters: a digit, a space, the separator after a URL, or something else.
`summarize` is then a composition of what its four statements do to those.
Sums, `Squeeze` and the list `Shown` of the entries that have a line are recursive
functions on the places of a sequence, so that they can be reasoned about.
`AResult` and `AnEntry` are what a printer may be given: times that are not
negative, since Go's clock is monotonic, and any text. `RequestCount` is a field
of its own, as the runner sets it from `-n`: it is the sum of successes and
failures unless `-n` is negative.

Each of `PrintTable`, `PrintJSON` and `PrintBenchstat` is an action that takes one
entry to its line, and `SkipEntry` is the `continue` of `PrintBenchstat`;
`EndReport` prints the table's note. A line is a record of what is said, with the
layout left out.

### How Bench corresponds to the code

`pc` is where `main` is. `RefuseFlags` and `AcceptFlags` are the checks,
`resolveQueries` the query file, `BeginRun` and `EndRun` one turn of the outer
loop, the two `Dispatch` actions that return the body of the inner ones,
`DispatchPanics` the panic of the runner on a negative capacity (`-n -2`),
`FlushLine`, `FlushNothing` and `EndFlush` the flush of a benchstat run,
`Output` and `Finish` the end. What a benchmark returns is any outcome that
`Benchmark` promises, which the runner is proved to implement. `out` is what is
on stdout, which is not buffered; a kill within the lines of one entry counts as
a kill before it. `tried` is a history variable that no action reads. Labels and
statements are members of `Texts`, of which only the empty one is special.
`Reportable`, which the properties compare `out` with, is a recursive function
and not a filter operator, so that it can be reasoned about.

## Runs

| Run | Shows |
|---|---|
| `runner` | every safety, action and liveness property below, and the refinement |
| `runner_unreachable` | a disagreement: `-warmup 1` against a dead target is still measured |
| `managed_call` | one call under up to four faults: what an error means, what is left open, that it returns, the refinement |
| `managed_pair` | two calls on two nodes, two faults: isolation, and that nil means committed |
| `managed_rollback` | a disagreement: after a timeout the rollback is not sent |
| `pool` | all eight benchmarks against one host, with every way a connection can end |
| `pool_cluster` | a disagreement: hosts share a limit that counts the workers of one |
| `report` | durations, errors and entries of every kind in each format |
| `report_mark` | a disagreement: the asterisk is cut off a long name |
| `bench` | every kind of command line, with failing benchmarks, killed at any moment |
| `bench_failures` | a disagreement: benchstat says nothing of a benchmark without a success |
| `bench_runs` | a disagreement: `-runs` has an effect with a table or JSON |

Properties of `runner`:

- `TypeOK`: the type invariant.
- `ShardsExact`: an answered request is in exactly one shard, once, under the
  right list, and an unanswered one is nowhere, at every moment.
- `ResultExact`: the Result accounts for every request; counts, durations,
  failure durations and the count of each error class all agree with what `fn`
  returned, and for `-n` of 0 or more the request count is their sum.
- `ClockCoversCalls`: no call runs outside the timed region, and when it ends
  every request has returned.
- `SamplesRepresentative`: the round-robin of `collectSamples` shows every
  worker's first error before any second one, and no error twice.
- `ScreenHonest`, `ScreenForward`: the progress line never counts a request
  that has not returned, never goes back, is not drawn over once closed, and
  the closing line counts them all.
- `Terminates`: with a request timeout the run returns.
- `ImplementsBenchmark`: refinement of `Benchmark`.

Each of them has a mutant of the code's definitions that it catches: a send too
many, failures filed as successes, an overwritten class count, a wait left out,
a flat sample order, a shared progress counter, a progress join left out, a
channel left open, a worker that stops before the buffer is empty.

Properties of `managed_call` and `managed_pair`:

- `TypeOK`: the type invariant.
- `Pinned`: no call executes in, commits or rolls back another's transaction.
- `NilMeansCommitted`: nil is returned only if a transaction with exactly the
  call's begin, execute and commit was committed, unless a legacy response
  could not be decoded (`checkBody` takes that for success, by design).
- `ErrorMeansNotCommitted`: committed work is reported as a failure only if
  the deadline passed or the commit exchange itself broke.
- `NothingLeftOpen`: a transaction is left open only after the deadline or a
  fault of begin, commit or the rollback; a fault of execute, or a failed
  statement, is always cleaned up after. It names the code's four leaks: no
  rollback is sent after the deadline, none after a failed commit, none when
  begin's answer is lost, and the rollback's own failure is ignored.
- `CallsReturn`: with a deadline every call returns, in the rollback too.
- `ImplementsTransaction`: the statement takes effect at most once, before nil
  is returned, and perhaps after an error was.

Their mutants: 202 taken for an error, the rollback left out, the rollback
under a context of its own, the error of execute ignored, a Location used
without resolving, only its number kept, the legacy errors array not looked at.

Properties of `pool`:

- `TypeOK`: the type invariant; the pool is never over its limit.
- `NoDeadConnection`: no request is written on a connection the proxy has
  closed. It holds because 20 s is less than 30 s and not because the timer is
  punctual.
- `SocketsReleased`: an idle socket exists only while a session benchmark runs,
  the connection of a dial that ends after the release included.
- `StaysWarm`: once a host has as many connections as there are workers, only
  the network, the proxy or a timeout takes one away.

Their mutants: no floor under the pool size, an idle timeout longer than the
proxy's, the release left out, the pool sized from the raw `-workers`.

Properties of `report`:

- `FiguresOrdered`: minimum, percentiles, maximum are in order in whatever way
  floating point rounds, and mean and deviation are within the range unless the
  sum overflowed. In 64 bits that is 292 years of summed latency.
- `PercentilesInterpolated`: each percentile lies at its rank's place between the
  two observations the rank falls between, which are found by counting instead of
  sorting, up to the one unit of rounding that `Truncated` assumes.
- `BucketsByCause`: one label per cause: not one per number in the message, not
  one for two statuses, and a timeout is one whatever it wraps.
- `FailuresListed`: the classes shown are all of them, once each, adding up, in
  an order independent of the map's.
- `ReportComplete`: every entry is shown in order with its own failures and
  request count, and a report with failures is qualified as such; benchstat's
  entries without a success are excepted here and are what `bench_failures` is
  about.
- `TextFits`: names and samples fit their columns. The list of failures and the
  cells of numbers are not bounded by the code and not by the property.

Their mutants: a copy not sorted, the truncated index the code once had, truncation before the
digits are collapsed, the comparison of counts turned round, a tolerated share
of failures, an ellipsis added to a full prefix.

Properties of `bench`:

- `TypeOK`: the type invariant.
- `ReportExact`: what is on stdout is always a beginning of the results
  obtained, which come in the order asked for; all of them if the command exits
  by itself without a panic, with every benchmark of each run it began tried and,
  with benchstat, as many runs as `-runs` says. How many runs the other formats
  should make is not its question: `bench_runs` asks that.
- `ExitTellsTruth`: 0 only if every benchmark of each run begun gave a result that
  is not all failures; 1 if one did not, or if nothing was measured or written.
- `FinishedRunsKept`: with benchstat a kill loses nothing of the finished runs.

Their mutants: a run too many, an all-failed benchmark that is not an entry, an
error that is logged and not counted, a benchstat flush only at the end.

### Bounds, and why they are enough

`MCConfigs` has nine configurations, each for a path of the code: more requests
than workers (3 on 2), as many requests as workers (3), workers unset (2
requests, 2 warmups), more workers than requests, one request (the channel-free
path through `RunConcurrent`), `Run`, no requests with 20 warmups (the ratio at
its boundary: 2 failures pass, 3 abort), and the two negative counts. Three
requests on two workers are the least at which one worker takes a second token
while another still holds its first. `JobBufferMax` is 1 (1024 in the code), so
the producer blocks; `MaxErrorSamples` is 2 (3 in the code) and
`MergedSampleCap` is 2 (8), so both caps cut something with three errors. Two
of the three errors have the same class, so class counts add up across workers.
No bound is placed on the state itself: the state space is finite because the
counts are. The passing run has about 750,000 distinct states. Deadlock is
checked; the end states stutter through `Terminated`, so any other stop is one.

In `ManagedTx` calls meet only through the nodes' numbering, so two calls on two
nodes are the least instance in which a number names two transactions, and more
add no new kind of meeting; calls that follow each other are interleavings in
which one returns before the other begins, their late requests included.
`MaxFaults` bounds how often something outside the client goes wrong: 4 for one
call, which makes at most three exchanges, so each may break and begin may be
replayed besides; 2 for two calls. The deadline is not counted.

In `Pool` two and three workers are enough for one to give back a connection
while another waits and a third dials. The configurations hold all eight
benchmarks, workers unset, more workers than requests and no request at all
(`-n -1`). `MinPoolSize` is 2 (100 in the code), so that the pool is a limit at
all: at 100 no configuration TLC could check would reach it, and three workers
on a pool of two are what the mutant of `effectiveConcurrency` must meet.
`MaxDials` bounds the dials under way for one host: a worker that gives up leaves
its dial behind, and 5 is more than any instance has workers, so a surplus of at
least two dials always occurs; the run of the cluster needs only one. There is no
bound on requests: workers start transactions for ever.

In `Report` `Half` is 64, so the sum of the twelve durations below, 78, overflows; the sets
are every sequence of up to four durations of three values, and of two with
another top, and one of twelve in which the ranks of the five percentiles differ.
`SummaryLimit` and `SampleLimit` are 5 (70 and 120 in the code), so the texts of
up to nine runes are on either side of both, and a number one digit longer makes
the difference for one of them before its digits are collapsed. Names are the code's shortest and
its longest benchmark name with a label of the repository's query file, and
terminals are of 60, 80 and 200 columns.

In `Bench` tests, queries and runs are one and two in every combination (three
runs of a repeated test besides), in each format and an unknown one, with every
way a query file can be bad, and request counts at -2, -1, 0, 1 and 2.

### Fairness

`Main`, the workers and the ticker's drawing are weakly fair: the Go scheduler
runs every goroutine that can run. The calls of `fn` are fair only under
`HasTimeout`, the request context's deadline: `fn` passes the context to every
HTTP call. Without a timeout nothing makes a call return, and `Terminates`
claims nothing. `Quit` is strongly fair: while `stop` is closed, each time the
goroutine reaches its `select` the stop case is ready, and `select` picks at
random among the ready cases, so it cannot choose the tick for ever.

In `ManagedTx` only the deadline, and a client that has an answer or an expired
context, are weakly fair. The cluster and the network owe nothing: `CallsReturn`
holds although no request is ever sure to be served.

## Proofs

Every theorem holds for all values of the constants that the modules' named
assumptions allow. Those say no more than what the code's types and
configuration say: counts from flags are integers, also negative ones;
`classify` is a function and the marker values are not errors; the caps are
natural numbers, the job buffer is at least one (the code's `min` of the request
count and 1024, taken when there are two workers or more) and so is the floor of
the pool size; the balancer is not a node; the empty text is a text; the limits on runes are
natural numbers and terminal sizes integers; the entries of a report are those of
`AnEntry`; and different labels have different places in the order of strings.

### Runner

1. `TypeCorrect`. Types alone are not inductive: that `sent` stays within the
   iterations, or that `shards[merged.shard + 1]` exists, depends on where the
   caller is. `Control` adds what each value of `pc` implies for the workers,
   the channel, the clock and the merge, and `ControlStep` proves it inductive.
2. `ShardsCorrect`, `ResultCorrect`, `ClockCorrect`. `Invariant` adds to
   `Control`:
   `Dispatch`, that no two workers hold the same request and that the taken
   requests are exactly the answered ones and those in flight;
   `Filed`, that a request is in a shard's list exactly when it was answered
   so, that lists repeat nothing and that shards do not overlap;
   `Counted`, that each shard's class counts are the numbers of its failures by
   class; `MergedSoFar`, the same facts about the union of the shards merged so
   far; and `Published`, that the Result is that union at the end. Exactness at
   the end needs all of it at every step before: a Result cannot be known exact
   unless the shards were disjoint when they were concatenated.
3. `RunnerImplementsBenchmark`. `StepMaps` shows each action of the runner is,
   through `PhaseOf` and `ReportOf`, an action of `Benchmark` or a stutter;
   the step that publishes uses `Published`.
4. `ScreenIsHonest`, `ScreenMovesForward`. `Display` adds `Line` (the line is
   not ahead of what the goroutine loaded, nor that ahead of the counter), `Tally`
   (the counter is behind the answers by exactly the workers between
   `shard.record` and `done.Add`) and `ClosingLine`. The closing line counts
   every request because `p.Stop()` comes after `wg.Wait()`: then no worker is
   between the two.
5. `SamplesAreRepresentative`. `Fair` says how far the round robin of
   `collectSamples` has come: in the first round only first errors are shown, and
   those of every shard visited; after it all of them are. No text is shown twice
   although two workers may have kept the same one, because of the test before
   the append.

### ManagedTx

Client and cluster know of each other only through requests that may be late and
answers that may be lost. The invariant (`CallOK`, for each call) therefore says
what a request on its way and an answer not yet looked at imply:

- `Placed`: what the place of a call says of its URL, answer and outcome, and
  that a URL it holds names a transaction it began;
- `OnTheWay`: where a call can be while each of its requests is under way, which
  is what forbids a late commit to follow a rollback that was answered;
- `Shaped`: what can have been done in an open or a committed transaction: a
  closed set of short histories, all of one call;
- `Pending`: how far the open transaction of a call is, by what is under way;
- `Known`: a committed transaction is the one the call asked to commit, and the
  call knows unless the commit exchange broke;
- `Cleaned`: without an excuse, an open transaction is the one the call is
  working on, and once commit or rollback was sent it is still on its way.

`Pinned` follows from `Shaped`, `NilMeansCommitted` and
`ErrorMeansNotCommitted` from `Known`, `NothingLeftOpen` from `Cleaned`. No part
is inductive without the others: that a commit finds execute done is `Pending`,
which holds because of `OnTheWay`. `ManagedTxImplementsTransaction` follows,
action by action: a statement takes effect in the step that serves a commit, for
one call, and nothing else changes what `Transaction` sees, a replayed begin and
a request served after its call returned included.

### Pool

- `SocketsAreReleased`: `Lifetime` ties size, idle lists and the transport's flag
  to the client's phase. What keeps a late dial out of a released client is that
  the flag was set after the last request, and only a request clears it.
- `NoDeadConnectionUsed`: `ClosedLate` says that what the proxy closed is at
  least 30 s old (three ticks), and one that has been idle longer than 20 s (two
  ticks) is not taken, whether or not its timer has run.
- `StaysWarmOnOneHost`: with no host but the proxy. A connection is not kept only
  if `size` others of its host are idle already, and `Settings` proves that `size`
  covers the workers that run, for every `-workers` and `-n`: the two calculations
  of the two packages agree. None is closed to make room, because with one host
  the limit in all is never reached before the limit of the host. The hypothesis
  is needed: `pool_cluster` refutes the property with more hosts.

### Bench

The command is a nest of three loops over a list of entries that is printed now
or later. `Stage` counts through the nest: so many benchmarks have been tried as
the finished runs and the current one add up to. `InOrder` then is arithmetic:
the k-th benchmark is found from k by division, once by the run and once by the
query (`Quotient`, `ItemIsAsked`). `Delivered` says that nothing is lost between
the benchmark and stdout: what is there, followed by what `entries` has a line
for, is what the results have a line for. `Counted` and `Ended` tie `aborted` and
the exit code to what was tried. `RunsAreKept` is a part of the invariant,
`ReportIsExact` and `ExitIsTrue` follow from it.

`Lines` is recursive, so what it does to a list of any length is proved by
induction. The library's induction theorems take a predicate as a parameter,
which the provers cannot instantiate; `FromZeroUp` and `ByAppend` do without, with
a set for the predicate and its least member for the induction, from the
library's theorem that the order of the naturals is well founded.

### Report, Latency and ErrorClass

The printers are simple and what they call is not, so the invariant is short and
the lemmas are long. `ReportInv` says that the lines are, one for one, lines the
code can print of the entries that have one (`LinesMatch`), and that the note at
the end is there for a failure and only then (`FootnoteTrue`). It is needed because
a property about a line speaks of its entry, and the printer knows only the one it
is at. `ReportIsComplete` and `TextsFit` follow from it and from what
`TruncateRunes` returns; the other four are facts about every value an operator
can return, for durations and texts of any length and size.

- `FailuresAllListed`. A rank in a linear order on a finite set is a bijection onto
  an initial segment of the naturals (`OrderedLists`: ranks are injective because
  the order is total, and an injection between finite sets of one size misses
  nothing). So a sorted list shows each label once, and the counts of all labels,
  in whatever order, add up to the failures (`CountsAddUp`).
- `FiguresInOrder`. `InOrderSorted` is that bijection for durations, and
  `TotalPermuted` that a sum does not depend on the order, so whether it overflows
  can be said of the unsorted durations; without an overflow `Wrap` changes no
  partial sum (`NoWrap`). The mean is then between the extremes, each squared
  distance is at most the square of the range, and so is their mean
  (`DeviationWithin`). For the percentiles, `PercentileMeans` covers both ways the
  product can be rounded: the result of a later rank is not below that of an earlier
  one (`PercentilesGrow`): either both fall into the same gap, one further on than
  the other, or an observation lies between them.
- `PercentilesWellPlaced`. The property finds the neighbours by counting and the
  code by sorting. `SortedIsSmallest` and `SmallestUnique` say these are the same
  element.
- `CausesCounted`. One more rune in a run is the text with one place doubled
  (`Doubled`). Each statement of `summarize` either removes the doubling, when it
  collapses that kind of rune, or passes on a text doubled in one place
  (`SqueezeDoubledRune`, `SqueezeDoubledOther`, `DropUrlOfDoubled`, `TrimDoubled`), and
  the truncation comes after the last of them, when the texts are the same: cut first,
  they would be cut at different places, as the mutant is. `CodesApart` and `DeadlineFirst` are the order of the tests.

These operators are recursive functions, too; `Recursion` in `LatencyProofs` shows
that such a function exists and what each of its values is, by the induction over an
interval (`UpTo`) that `BenchProofs` uses in its own form.

### Only model-checked

- `Terminates` and `CallsReturn`: liveness under fairness is out of this
  prover's reach.
- `StaysWarm` with more than one host, which is false.

## Disagreements found

- `runner.go:82` says the warmup aborts when more than the ratio of its
  requests fail, so that an unreachable target no longer yields a results
  table. With `-warmup 1` the floor of two failures (line 109, explained at
  line 21 as protection of small warmups from one blip) cannot be reached, and
  the dead target is measured.
- `managed.go:99` says a rollback is attempted when execute fails. It runs
  under the context of the call: if execute failed because that expired, the
  DELETE is never sent.
- `table.go:71` says a run that had failures is marked with an asterisk. The
  mark is appended to the name and then cut off with it:
  `filtered-scan/GoroutinesSessionsImplicit *`, from the repository's own query
  file, is 42 characters in a column of 38 at a width of 80.
- `transport.go:34` explains that the pool is sized so that no surplus
  connection is closed and dialled again. The size is the limit of all hosts
  together (`MaxIdleConns`, line 81), and managed transactions use the proxy and
  each node: with three nodes and the floor of 100 it is exceeded from 26
  workers on.
- `table.go:270` says failures are appended so that they cannot pass unnoticed.
  An entry without a success has no line at all (line 277); stderr and the exit
  code tell.
- `main.go:111` warns that `-runs` has no effect with a format other than
  benchstat. The loop (line 182) does not look at the format: the runs are made,
  and each has its entries in the table or the JSON.

Seen on the way and not given a run: `result.go:18` defines `RequestCount` as
successes plus failures, but it is set from the flag (`runner.go:223`), so that
`-n -1`, which attempts nothing, is printed as -1 requests (`ResultExact` says when
the definition holds, and a report of such an entry is among those of `report`);
`effectiveConcurrency` says it mirrors the runner and does not clamp workers to
requests (harmless: the pool is only larger); `-n 0` exits 0 with nothing measured,
and with `-n -2` the first benchmark that passes its warmup ends the process with
a panic.

## Not modelled

The content of requests, responses and messages; time itself (a duration is the
request it measures, a timeout the choice of an error); the formatting of the
tables; the parsing of flags, environment and TOML; the HTTP/2 client, which
multiplexes one connection per host; the Neo4j server and HAProxy beyond what the client
sees (HTTP redirects, and the transport's own retries on a dead pooled
connection, are among what is left out); query-go-sdk, whose source is not in the repository; goroutine creation
as a step of its own (a goroutine that has not started yet looks like one that
waits for its first token); that one process runs its benchmarks one after the
other, which makes the clients of two of them independent.
