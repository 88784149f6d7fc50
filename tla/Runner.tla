------------------------------- MODULE Runner -------------------------------
(***************************************************************************)
(* internal/runner/runner.go: Run and RunConcurrent.  A warmup phase, then *)
(* the timed phase: either one worker in the caller's goroutine, or        *)
(* several behind a bounded dispatch channel, each with a private shard;   *)
(* the shards merged into one Result at the end.  Both phases drive the    *)
(* progress line of module Progress.                                       *)
(*                                                                         *)
(* The tokens of the dispatch channel carry no data, so the channel is two *)
(* counters, tokens sent and tokens taken, and a request is known by the   *)
(* order in which it was taken.  A duration in a shard is represented by   *)
(* the request it timed.  What fn returned for each request is kept in the *)
(* history variable answer, which no step reads.                           *)
(***************************************************************************)
EXTENDS Progress, Integers, Sequences, FiniteSets, Functions

CONSTANTS
  Configs,          \* the configurations a run may have: see ConfigAssumption
  Errors,           \* the errors fn may return
  Classes,          \* the labels classify gives them
  ClassOf,          \* classify: a function from Errors to Classes
  Ok, None,         \* fn returned nil; no value yet
  HasTimeout,       \* whether cfg.Timeout > 0: then every call of fn returns
  JobBufferMax,     \* jobBufferMax, 1024 in the code
  MaxErrorSamples,  \* maxErrorSamples, 3 in the code
  MergedSampleCap   \* mergedSampleCap, 8 in the code

(* Counts come unchecked from flags, so they may be zero or negative. *)
ASSUME ConfigAssumption ==
  Configs \subseteq [requests: Int, warmup: Int, workers: Int, concurrent: BOOLEAN]

ASSUME ErrorAssumption ==
  /\ ClassOf \in [Errors -> Classes]
  /\ Ok \notin Errors /\ None \notin Errors /\ Ok # None

ASSUME BoundAssumption ==
  /\ HasTimeout \in BOOLEAN
  /\ JobBufferMax \in Nat \ {0}
  /\ MaxErrorSamples \in Nat
  /\ MergedSampleCap \in Nat

VARIABLES
  cfg,       \* the Config, and whether RunConcurrent was called
  pc,        \* where the calling goroutine is
  warmed,    \* warmup requests made
  failures,  \* warmup requests that failed
  workers,   \* measure's workers, 0 before
  shards,    \* one accumulator per worker
  wpc,       \* per worker: "recv", "call", "count" or "exited"
  cur,       \* per worker: the request it works on, or worked on last
  sent,      \* tokens sent on jobs
  taken,     \* requests begun: tokens received, or iterations of the plain loop
  closed,    \* whether jobs is closed
  clock,     \* the timed region: "unset", "running", "stopped"
  merged,    \* mergeShards so far
  collected, \* collectSamples so far: the next visit, and out
  result,    \* the Result returned, None before
  answer     \* history: what fn returned for each request

callVars == <<shards, answer>>
poolVars == <<wpc, cur, sent, taken, closed>>
warmVars == <<warmed, failures>>
mainVars == <<workers, clock, merged, collected, result>>
vars == <<progressVars, cfg, pc, warmVars, callVars, poolVars, mainVars>>

-----------------------------------------------------------------------------
Answers == Errors \cup {Ok}
Iterations(c) == IF c.requests > 0 THEN c.requests ELSE 0
Requests == 1..Iterations(cfg)
Workers == 1..workers
AtMost(a, b) == IF a < b THEN a ELSE b
InFlight == {w \in Workers : wpc[w] = "call"}

EmptyShard ==
  [success |-> <<>>, failure |-> <<>>,
   errors |-> [c \in Classes |-> 0], samples |-> <<>>]

NothingMerged ==
  [shard |-> 0, nSuccess |-> 0, nFailure |-> 0,
   durations |-> <<>>, failureDurations |-> <<>>, errors |-> [c \in Classes |-> 0]]

NothingCollected == [round |-> 1, at |-> 1, out |-> <<>>]

Shard ==
  [success: Seq(Requests), failure: Seq(Requests),
   errors: [Classes -> Nat], samples: Seq(Errors)]

MergeState ==
  [shard: 0..workers, nSuccess: Nat, nFailure: Nat,
   durations: Seq(Requests), failureDurations: Seq(Requests),
   errors: [Classes -> Nat]]

CollectState == [round: Nat \ {0}, at: Nat \ {0}, out: Seq(Errors)]

Result ==
  [requestCount: Int, successCount: Nat, failureCount: Nat,
   durations: Seq(Requests), failureDurations: Seq(Requests),
   errors: [Classes -> Nat], errorSamples: Seq(Errors)]

TypeOK ==
  /\ ProgressTypeOK
  /\ cfg \in Configs
  /\ pc \in {"start", "warmup", "warmupStop", "ready", "spawn", "plain", "send",
             "wait", "join", "merge", "collect", "done", "aborted", "panicked"}
  /\ warmed \in Nat /\ failures \in Nat
  /\ workers \in Nat
  /\ shards \in [Workers -> Shard]
  /\ wpc \in [Workers -> {"recv", "call", "count", "exited"}]
  /\ cur \in [Workers -> 0..Iterations(cfg)]
  /\ sent \in 0..Iterations(cfg) /\ taken \in 0..Iterations(cfg)
  /\ closed \in BOOLEAN
  /\ clock \in {"unset", "running", "stopped"}
  /\ merged \in MergeState
  /\ collected \in CollectState
  /\ result \in Result \cup {None}
  /\ answer \in [Requests -> Answers \cup {None}]

Init ==
  /\ ProgressInit
  /\ cfg \in Configs
  /\ pc = "start"
  /\ warmed = 0 /\ failures = 0
  /\ workers = 0
  /\ shards = [w \in Workers |-> EmptyShard]
  /\ wpc = [w \in Workers |-> "recv"]
  /\ cur = [w \in Workers |-> 0]
  /\ sent = 0 /\ taken = 0 /\ closed = FALSE
  /\ clock = "unset"
  /\ merged = NothingMerged
  /\ collected = NothingCollected
  /\ result = None
  /\ answer = [k \in Requests |-> None]

-----------------------------------------------------------------------------
(***************************************************************************)
(* warmup                                                                  *)
(***************************************************************************)
WarmupFailureFloor == 2

(* failures > warmupFailureRatio * WarmupRequests, the ratio being 1/10. *)
OverRatio(failed, total) == 10 * failed > total

TooManyFailures(failed, total) ==
  failed >= WarmupFailureFloor /\ OverRatio(failed, total)

SkipWarmup ==
  /\ pc = "start" /\ cfg.warmup <= 0
  /\ pc' = "ready"
  /\ UNCHANGED <<progressVars, cfg, warmVars, callVars, poolVars, mainVars>>

StartWarmup ==
  /\ pc = "start" /\ cfg.warmup > 0
  /\ StartProgress
  /\ pc' = "warmup"
  /\ UNCHANGED <<cfg, warmVars, callVars, poolVars, mainVars>>

(* One warmup iteration: fn returns o, the counters are bumped. *)
WarmupRequest(o) ==
  /\ pc = "warmup" /\ warmed < cfg.warmup
  /\ warmed' = warmed + 1
  /\ failures' = failures + (IF o = Ok THEN 0 ELSE 1)
  /\ AddDone
  /\ UNCHANGED <<cfg, pc, callVars, poolVars, mainVars>>

StopWarmup ==
  /\ pc = "warmup" /\ warmed = cfg.warmup
  /\ CloseStop
  /\ pc' = "warmupStop"
  /\ UNCHANGED <<cfg, warmVars, callVars, poolVars, mainVars>>

EndWarmup ==
  /\ pc = "warmupStop"
  /\ FinishStop
  /\ pc' = IF TooManyFailures(failures, cfg.warmup) THEN "aborted" ELSE "ready"
  /\ UNCHANGED <<cfg, warmVars, callVars, poolVars, mainVars>>

-----------------------------------------------------------------------------
(***************************************************************************)
(* run, one iteration of the timed phase, in worker w's goroutine: fn      *)
(* returns o and shard.record files it, then done.Add(1).  The shard is    *)
(* private, so returning and recording are one step.                       *)
(***************************************************************************)
RecordMixed(s, k, o) ==   \* mutant: failures filed under success too
  IF o = Ok THEN [s EXCEPT !.success = Append(@, k)]
  ELSE [s EXCEPT !.success = Append(@, k),
                 !.failure = Append(@, k),
                 !.errors[ClassOf[o]] = @ + 1]

Record(s, k, o) ==
  IF o = Ok THEN [s EXCEPT !.success = Append(@, k)]
  ELSE [s EXCEPT !.failure = Append(@, k),
                 !.errors[ClassOf[o]] = @ + 1,
                 !.samples = IF Len(@) < MaxErrorSamples THEN Append(@, o) ELSE @]

Begin(w) ==
  /\ taken' = taken + 1
  /\ cur' = [cur EXCEPT ![w] = taken + 1]
  /\ wpc' = [wpc EXCEPT ![w] = "call"]

Return(w, o) ==
  /\ wpc[w] = "call"
  /\ answer' = [answer EXCEPT ![cur[w]] = o]
  /\ shards' = [shards EXCEPT ![w] = Record(@, cur[w], o)]
  /\ wpc' = [wpc EXCEPT ![w] = "count"]
  /\ UNCHANGED <<progressVars, cfg, pc, warmVars, cur, sent, taken, closed, mainVars>>

Count(w) ==
  /\ wpc[w] = "count"
  /\ AddDone
  /\ wpc' = [wpc EXCEPT ![w] = "recv"]
  /\ UNCHANGED <<cfg, pc, warmVars, callVars, cur, sent, taken, closed, mainVars>>

-----------------------------------------------------------------------------
(***************************************************************************)
(* RunConcurrent's and measure's choice of the number of workers.          *)
(***************************************************************************)
EffectiveWorkers(c) ==
  LET asked == IF ~c.concurrent THEN 1
               ELSE IF c.workers <= 0 THEN c.requests
               ELSE AtMost(c.workers, c.requests)
  IN IF asked < 1 THEN 1 ELSE asked

(* The capacity make([]time.Duration, 0, perShard) asks for; below zero it panics. *)
PerShard(c) == c.requests \div EffectiveWorkers(c) + 1

Allocate ==
  /\ pc = "ready" /\ PerShard(cfg) >= 0
  /\ workers' = EffectiveWorkers(cfg)
  /\ shards' = [w \in 1..workers' |-> EmptyShard]
  /\ wpc' = [w \in 1..workers' |-> "recv"]
  /\ cur' = [w \in 1..workers' |-> 0]
  /\ StartProgress
  /\ IF workers' = 1
       THEN pc' = "plain" /\ clock' = "running"
       ELSE pc' = "spawn" /\ UNCHANGED clock
  /\ UNCHANGED <<cfg, warmVars, answer, sent, taken, closed, merged, collected, result>>

PanicOnNegativeCapacity ==
  /\ pc = "ready" /\ PerShard(cfg) < 0
  /\ pc' = "panicked"
  /\ UNCHANGED <<progressVars, cfg, warmVars, callVars, poolVars, mainVars>>

(* workers = 1: the caller's goroutine runs the iterations itself. *)
PlainIterate ==
  /\ pc = "plain" /\ wpc[1] = "recv" /\ taken < Iterations(cfg)
  /\ Begin(1)
  /\ UNCHANGED <<progressVars, cfg, pc, warmVars, callVars, sent, closed, mainVars>>

PlainEnd ==
  /\ pc = "plain" /\ wpc[1] = "recv" /\ taken = Iterations(cfg)
  /\ wpc' = [wpc EXCEPT ![1] = "exited"]
  /\ clock' = "stopped"
  /\ CloseStop
  /\ pc' = "join"
  /\ UNCHANGED <<cfg, warmVars, callVars, cur, sent, taken, closed, workers, merged, collected, result>>

(* workers > 1.  The goroutines exist but nothing is on the channel yet. *)
Spawn ==
  /\ pc = "spawn"
  /\ clock' = "running"
  /\ pc' = "send"
  /\ UNCHANGED <<progressVars, cfg, warmVars, callVars, poolVars, workers, merged, collected, result>>

JobsCapacity == AtMost(Iterations(cfg), JobBufferMax)

SendOneMore ==   \* mutant: off by one
  /\ pc = "send" /\ sent <= Iterations(cfg)
  /\ sent - taken < JobsCapacity
  /\ sent' = sent + 1
  /\ UNCHANGED <<progressVars, cfg, pc, warmVars, callVars, wpc, cur, taken, closed, mainVars>>

Send ==
  /\ pc = "send" /\ sent < Iterations(cfg)
  /\ sent - taken < JobsCapacity
  /\ sent' = sent + 1
  /\ UNCHANGED <<progressVars, cfg, pc, warmVars, callVars, wpc, cur, taken, closed, mainVars>>

CloseJobsNoClose ==   \* mutant: the channel is left open
  /\ pc = "send" /\ sent = Iterations(cfg)
  /\ pc' = "wait"
  /\ UNCHANGED <<progressVars, cfg, warmVars, callVars, poolVars, mainVars>>

CloseJobs ==
  /\ pc = "send" /\ sent = Iterations(cfg)
  /\ closed' = TRUE
  /\ pc' = "wait"
  /\ UNCHANGED <<progressVars, cfg, warmVars, callVars, wpc, cur, sent, taken, mainVars>>

Receive(w) ==
  /\ workers > 1 /\ wpc[w] = "recv" /\ taken < sent
  /\ Begin(w)
  /\ UNCHANGED <<progressVars, cfg, pc, warmVars, callVars, sent, closed, mainVars>>

ExitEarly(w) ==   \* mutant: a closed channel ends the loop although tokens are left
  /\ workers > 1 /\ wpc[w] = "recv" /\ closed
  /\ wpc' = [wpc EXCEPT ![w] = "exited"]
  /\ UNCHANGED <<progressVars, cfg, pc, warmVars, callVars, cur, sent, taken, closed, mainVars>>

Exit(w) ==
  /\ workers > 1 /\ wpc[w] = "recv" /\ closed /\ taken = sent
  /\ wpc' = [wpc EXCEPT ![w] = "exited"]
  /\ UNCHANGED <<progressVars, cfg, pc, warmVars, callVars, cur, sent, taken, closed, mainVars>>

WaitWorkersNoWait ==   \* mutant: wg.Wait left out
  /\ pc = "wait"
  /\ clock' = "stopped"
  /\ CloseStop
  /\ pc' = "join"
  /\ UNCHANGED <<cfg, warmVars, callVars, poolVars, workers, merged, collected, result>>

WaitWorkers ==
  /\ pc = "wait"
  /\ \A w \in Workers : wpc[w] = "exited"
  /\ clock' = "stopped"
  /\ CloseStop
  /\ pc' = "join"
  /\ UNCHANGED <<cfg, warmVars, callVars, poolVars, workers, merged, collected, result>>

JoinProgress ==
  /\ pc = "join"
  /\ FinishStop
  /\ pc' = "merge"
  /\ UNCHANGED <<cfg, warmVars, callVars, poolVars, mainVars>>

-----------------------------------------------------------------------------
(***************************************************************************)
(* mergeShards, one step per shard, and collectSamples, one per visit.     *)
(***************************************************************************)
MergeErrorsOverwrite(m, s) ==   \* mutant: = for +=
  [c \in Classes |-> IF s[c] > 0 THEN s[c] ELSE m[c]]

MergeErrors(m, s) == [c \in Classes |-> m[c] + s[c]]

MergeShard ==
  /\ pc = "merge"
  /\ LET i == merged.shard + 1
         s == shards[i]
     IN /\ merged' =
             [shard            |-> i,
              nSuccess         |-> merged.nSuccess + Len(s.success),
              nFailure         |-> merged.nFailure + Len(s.failure),
              durations        |-> merged.durations \o s.success,
              failureDurations |-> merged.failureDurations \o s.failure,
              errors           |-> MergeErrors(merged.errors, s.errors)]
        /\ pc' = IF i = workers THEN "collect" ELSE "merge"
  /\ UNCHANGED <<progressVars, cfg, warmVars, callVars, poolVars, workers, clock, collected, result>>

(***************************************************************************)
(* collectSamples looks at sample number round of shard at, round by       *)
(* round, until every visit is made or the report is full.                 *)
(***************************************************************************)
NextVisitFlat(round, at) ==   \* mutant: shard by shard
  IF round < MaxErrorSamples THEN <<round + 1, at>>
  ELSE IF at < workers THEN <<1, at + 1>> ELSE <<MaxErrorSamples + 1, 1>>

NextVisit(round, at) ==
  IF at < workers THEN <<round, at + 1>> ELSE <<round + 1, 1>>

Collected ==
  \/ collected.round > MaxErrorSamples
  \/ Len(collected.out) >= MergedSampleCap

CollectSample ==
  /\ pc = "collect" /\ ~Collected
  /\ LET round   == collected.round
         out     == collected.out
         samples == shards[collected.at].samples
         next    == NextVisit(round, collected.at)
     IN collected' =
          [round |-> next[1],
           at    |-> next[2],
           out   |-> IF round > Len(samples) \/ samples[round] \in Range(out) THEN out
                     ELSE Append(out, samples[round])]
  /\ UNCHANGED <<progressVars, cfg, pc, warmVars, callVars, poolVars, workers, clock, merged, result>>

FinishMerge ==
  /\ pc = "collect" /\ Collected
  /\ result' = [requestCount     |-> cfg.requests,
                successCount     |-> merged.nSuccess,
                failureCount     |-> merged.nFailure,
                durations        |-> merged.durations,
                failureDurations |-> merged.failureDurations,
                errors           |-> merged.errors,
                errorSamples     |-> collected.out]
  /\ pc' = "done"
  /\ UNCHANGED <<progressVars, cfg, warmVars, callVars, poolVars, workers, clock, merged, collected>>

-----------------------------------------------------------------------------
Returned == {"done", "aborted", "panicked"}

Terminated == pc \in Returned /\ UNCHANGED vars

Main ==
  \/ SkipWarmup \/ StartWarmup \/ StopWarmup \/ EndWarmup
  \/ Allocate \/ PanicOnNegativeCapacity
  \/ PlainIterate \/ PlainEnd
  \/ Spawn \/ Send \/ CloseJobs \/ WaitWorkers \/ JoinProgress
  \/ MergeShard \/ CollectSample \/ FinishMerge

Goroutine(w) == Receive(w) \/ Count(w) \/ Exit(w)

Ticker == RenderLoop /\ UNCHANGED <<cfg, pc, warmVars, callVars, poolVars, mainVars>>

Next ==
  \/ Main
  \/ \E o \in Answers : WarmupRequest(o)
  \/ \E w \in Workers : Goroutine(w)
  \/ \E w \in Workers, o \in Answers : Return(w, o)
  \/ Ticker
  \/ Terminated

(***************************************************************************)
(* The Go scheduler runs every goroutine that can run.  fn is sure to      *)
(* return only if the request context carries a deadline.  The ticker's    *)
(* select picks among ready cases at random, so a closed stop channel is   *)
(* not passed over for ever.                                               *)
(***************************************************************************)
Rest == UNCHANGED <<cfg, pc, warmVars, callVars, poolVars, mainVars>>

Fairness ==
  /\ WF_vars(Main)
  /\ WF_vars(\E w \in Workers : Goroutine(w))
  /\ HasTimeout => /\ WF_vars(\E o \in Answers : WarmupRequest(o))
                   /\ WF_vars(\E w \in Workers, o \in Answers : Return(w, o))
  /\ WF_vars(Render /\ Rest)
  /\ SF_vars(Quit /\ Rest)

Spec == Init /\ [][Next]_vars

FairSpec == Spec /\ Fairness

-----------------------------------------------------------------------------
(***************************************************************************)
(* Properties                                                              *)
(***************************************************************************)
Times(field(_), k) ==
  Cardinality({v \in Workers \X Requests :
                 v[2] <= Len(field(shards[v[1]])) /\ field(shards[v[1]])[v[2]] = k})
Successes(s) == s.success
Failures(s) == s.failure

(***************************************************************************)
(* At every moment, and however the workers interleave, a request that     *)
(* returned nil is in exactly one shard, once, and under success; one that *)
(* returned an error likewise under failure; one still in flight, queued   *)
(* or unsent is nowhere (shard, record, and the receive loop of measure).  *)
(***************************************************************************)
ShardsExact ==
  \A k \in Requests :
    /\ Times(Successes, k) = IF answer[k] = Ok THEN 1 ELSE 0
    /\ Times(Failures, k) = IF answer[k] \in Errors THEN 1 ELSE 0

AnsweredOk == {k \in Requests : answer[k] = Ok}
AnsweredError == {k \in Requests : answer[k] \in Errors}
AnsweredAs(c) == {k \in AnsweredError : ClassOf[answer[k]] = c}

(***************************************************************************)
(* The Result returned is an exact account of what the requests returned:  *)
(* every request answered, each success one duration and each failure one  *)
(* failure duration, the counts and the per-class counts right (result.go: *)
(* "one entry per successful request", "counts failures by class"); and    *)
(* the request count is the requests attempted, "successes + failures",    *)
(* but for a negative -n, which it repeats although nothing is attempted.  *)
(***************************************************************************)
ResultExact ==
  pc = "done" =>
    /\ AnsweredOk \cup AnsweredError = Requests
    /\ Range(result.durations) = AnsweredOk /\ IsInjective(result.durations)
    /\ Range(result.failureDurations) = AnsweredError
    /\ IsInjective(result.failureDurations)
    /\ result.successCount = Cardinality(AnsweredOk)
    /\ result.failureCount = Cardinality(AnsweredError)
    /\ \A c \in Classes : result.errors[c] = Cardinality(AnsweredAs(c))
    /\ cfg.requests >= 0 => result.requestCount = result.successCount + result.failureCount

(***************************************************************************)
(* TotalSeconds covers every timed request and nothing else: no call of fn *)
(* is under way unless the clock runs, and when it stops every request of  *)
(* the run has returned.                                                   *)
(***************************************************************************)
ClockCoversCalls ==
  /\ InFlight # {} => clock = "running"
  /\ clock = "stopped" => \A k \in Requests : answer[k] # None

(***************************************************************************)
(* The round-robin of collectSamples: no worker's second error is shown    *)
(* while another worker's first is left out, and no error is shown twice.  *)
(***************************************************************************)
FirstErrors == {shards[w].samples[1] : w \in {v \in Workers : shards[v].samples # <<>>}}

SamplesRepresentative ==
  pc = "done" =>
    LET out == Range(result.errorSamples)
    IN /\ IsInjective(result.errorSamples)
       /\ \/ FirstErrors \subseteq out
          \/ Len(result.errorSamples) = MergedSampleCap /\ out \subseteq FirstErrors

(***************************************************************************)
(* The line on the terminal never counts a request that has not returned,  *)
(* and the closing line of the timed phase counts them all.                *)
(***************************************************************************)
ScreenHonest ==
  workers > 0 =>
    /\ screen.n <= Cardinality({k \in Requests : answer[k] # None})
    /\ screen.final => screen.n = Iterations(cfg)

(***************************************************************************)
(* Within a phase the line never goes backwards, and once Stop has drawn   *)
(* the closing line nothing draws over it until the next phase starts.     *)
(***************************************************************************)
ScreenForward ==
  [][\/ pc \in {"start", "ready"} /\ screen' = [n |-> 0, final |-> FALSE]
     \/ ~screen.final /\ screen'.n >= screen.n]_screen

(***************************************************************************)
(* warmup's comment: it "aborts the benchmark", where once "a completely   *)
(* unreachable target still produced a results table".  So no warmup that  *)
(* failed on every request is followed by the timed phase.                 *)
(***************************************************************************)
UnreachableAborts ==
  workers > 0 /\ cfg.warmup > 0 => failures < cfg.warmup

(***************************************************************************)
(* With a request timeout set, Run and RunConcurrent return: the           *)
(* dispatcher, the workers, wg.Wait and the progress join never block each *)
(* other for good.                                                         *)
(***************************************************************************)
Terminates == HasTimeout => <>(pc \in Returned)

-----------------------------------------------------------------------------
(***************************************************************************)
(* The runner implements the Benchmark specification.                      *)
(***************************************************************************)
PhaseOf ==
  CASE pc \in {"start", "warmup", "warmupStop", "ready"} -> "warmup"
    [] pc \in {"spawn", "plain", "send", "wait", "join", "merge", "collect"} -> "timed"
    [] pc = "done" -> "reported"
    [] pc = "aborted" -> "aborted"
    [] pc = "panicked" -> "crashed"

ReportOf ==
  IF pc # "done" THEN None
  ELSE [ requestCount |-> result.requestCount,
         successCount |-> result.successCount,
         failureCount |-> result.failureCount,
         timed        |-> Range(result.durations),
         timedFailed  |-> Range(result.failureDurations),
         errors       |-> result.errors ]

Promise == INSTANCE Benchmark WITH phase <- PhaseOf, report <- ReportOf

(* Every run of the runner, seen through PhaseOf and ReportOf, is one of Benchmark. *)
ImplementsBenchmark == Promise!BenchmarkSpec

=============================================================================
