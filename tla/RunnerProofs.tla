---------------------------- MODULE RunnerProofs ----------------------------
(***************************************************************************)
(* Proofs about module Runner, for every set of configurations and errors  *)
(* and every value of the buffer and sample bounds: its types and control, *)
(* the books a run keeps, and that it implements Benchmark.                *)
(***************************************************************************)
EXTENDS Runner, FiniteSetTheorems, SequenceTheorems, TLAPS

Before == {"start", "warmup", "warmupStop", "ready", "aborted", "panicked"}
Timing == {"plain", "send", "wait"}
After == {"join", "merge", "collect", "done"}

(* Before measure allocates, none of its variables has been touched. *)
Untouched ==
  pc \in Before =>
    /\ workers = 0 /\ sent = 0 /\ taken = 0 /\ ~closed
    /\ answer = [k \in Requests |-> None]

(* Which path measure took, and what the clock and the channel say there. *)
PathOK ==
  /\ pc \notin Before => workers > 0
  /\ pc = "plain" => workers = 1
  /\ pc \in {"spawn", "send", "wait"} => workers > 1
  /\ pc = "spawn" => sent = 0 /\ taken = 0 /\ ~closed
  /\ clock = "running" <=> pc \in Timing
  /\ clock = "stopped" <=> pc \in After
  /\ closed => sent = Iterations(cfg)
  /\ workers > 1 => taken <= sent

(* A worker that left its loop left no request behind. *)
WorkersOK ==
  /\ \A w \in Workers : wpc[w] = "exited" => taken = Iterations(cfg)
  /\ \A w \in Workers : wpc[w] = "call" => cur[w] \in 1..taken
  /\ pc \in After => \A w \in Workers : wpc[w] = "exited"
  /\ pc = "spawn" => \A w \in Workers : wpc[w] = "recv"

(* How far the merge is. *)
MergeOK ==
  /\ pc \notin {"merge", "collect", "done"} => merged = NothingMerged
  /\ pc = "merge" => merged.shard < workers
  /\ pc \in {"collect", "done"} => merged.shard = workers
  /\ pc # "collect" /\ pc # "done" => collected = NothingCollected
  /\ pc = "collect" => collected.at <= workers
  /\ pc # "done" => result = None

Control == Untouched /\ PathOK /\ WorkersOK /\ MergeOK

LEMMA EffectiveWorkersType ==
  ASSUME NEW c \in Configs
  PROVE  /\ EffectiveWorkers(c) \in Nat \ {0}
         /\ Iterations(c) \in Nat
         /\ EffectiveWorkers(c) > 1 => c.requests > 1
  BY ConfigAssumption DEF EffectiveWorkers, Iterations, AtMost

LEMMA EmptyShardType == EmptyShard \in Shard
BY EmptySeq DEF EmptyShard, Shard

LEMMA InitControl == Init => TypeOK /\ Control
<1> SUFFICES ASSUME Init PROVE TypeOK /\ Control
  OBVIOUS
<1> USE DEF Init, Workers, Requests
<1>1. Iterations(cfg) \in Nat
  BY EffectiveWorkersType
<1>2. NothingMerged \in MergeState
  BY EmptySeq DEF NothingMerged, MergeState
<1>2a. NothingCollected \in CollectState
  BY EmptySeq DEF NothingCollected, CollectState
<1>3. TypeOK
  <2>1. ProgressTypeOK
    BY DEF ProgressInit, ProgressTypeOK
  <2>2. sent \in 0..Iterations(cfg) /\ taken \in 0..Iterations(cfg)
    BY <1>1
  <2>3. /\ shards \in [Workers -> Shard]
        /\ wpc \in [Workers -> {"recv", "call", "count", "exited"}]
        /\ cur \in [Workers -> 0..Iterations(cfg)]
    BY EmptyShardType, <1>1
  <2>4. answer \in [Requests -> Answers \cup {None}]
    OBVIOUS
  <2> QED  BY <1>2, <1>2a, <2>1, <2>2, <2>3, <2>4 DEF TypeOK
<1>4. Control
  BY DEF Control, Untouched, PathOK, WorkersOK, MergeOK, Before, Timing, After
<1> QED  BY <1>3, <1>4

(* Record keeps a shard a shard. *)
LEMMA RecordType ==
  ASSUME NEW s \in Shard, NEW k \in Requests, NEW o \in Answers
  PROVE  Record(s, k, o) \in Shard
<1>1. CASE o = Ok
  <2>1. Append(s.success, k) \in Seq(Requests)
    BY DEF Shard
  <2> QED  BY <1>1, <2>1 DEF Record, Shard
<1>2. CASE o # Ok
  <2>1. o \in Errors
    BY <1>2 DEF Answers
  <2>2. ClassOf[o] \in Classes
    BY <2>1, ErrorAssumption
  <2>3. Append(s.failure, k) \in Seq(Requests) /\ Append(s.samples, o) \in Seq(Errors)
    BY <2>1 DEF Shard
  <2>4. [s.errors EXCEPT ![ClassOf[o]] = @ + 1] \in [Classes -> Nat]
    BY <2>2 DEF Shard
  <2> QED  BY <1>2, <2>3, <2>4 DEF Record, Shard
<1> QED  BY <1>1, <1>2


(***************************************************************************)
(* Type correctness, and the coordination of the caller with the workers,  *)
(* hold together: each step of one needs the other.                        *)
(***************************************************************************)
LEMMA ControlStep ==
  TypeOK /\ Control /\ [Next]_vars => TypeOK' /\ Control'
<1> SUFFICES ASSUME TypeOK, Control, [Next]_vars
             PROVE  TypeOK' /\ Control'
  OBVIOUS
<1> USE DEF Workers, Requests
<1>0. /\ Iterations(cfg) \in Nat /\ cfg \in Configs
      /\ EffectiveWorkers(cfg) \in Nat \ {0}
  BY EffectiveWorkersType DEF TypeOK
<1>a. cfg' = cfg => Requests' = Requests /\ Shard' = Shard /\ Result' = Result
  BY DEF Shard, Result, Iterations
<1>b. cfg' = cfg /\ workers' = workers => MergeState' = MergeState /\ Workers' = Workers
  BY DEF MergeState, Iterations
<1>c. cfg' = cfg => Iterations(cfg)' = Iterations(cfg)
  BY DEF Iterations
<1>1. CASE SkipWarmup
  <2>1. TypeOK'
    BY <1>1, <1>0, <1>a, <1>b, <1>c
    DEF TypeOK, SkipWarmup, ProgressTypeOK, progressVars,
        warmVars, callVars, poolVars, mainVars
  <2>2. Control'
    BY <1>1, <1>0
    DEF TypeOK, Control, Untouched, PathOK, WorkersOK, MergeOK, Before, Timing, After,
        SkipWarmup, progressVars, warmVars, callVars, poolVars, mainVars
  <2> QED  BY <2>1, <2>2
<1>2. CASE StartWarmup
  <2>1. TypeOK'
    BY <1>2, <1>0, <1>a, <1>b, <1>c
    DEF TypeOK, StartWarmup, StartProgress, ProgressTypeOK, progressVars,
        warmVars, callVars, poolVars, mainVars
  <2>2. Control'
    BY <1>2, <1>0
    DEF TypeOK, Control, Untouched, PathOK, WorkersOK, MergeOK, Before, Timing, After,
        StartWarmup, StartProgress, progressVars, warmVars, callVars, poolVars, mainVars
  <2> QED  BY <2>1, <2>2
<1>3. ASSUME NEW o \in Answers, WarmupRequest(o)
      PROVE  TypeOK' /\ Control'
  <2>1. TypeOK'
    BY <1>3, <1>0, <1>a, <1>b, <1>c
    DEF TypeOK, WarmupRequest, AddDone, ProgressTypeOK, progressVars,
        warmVars, callVars, poolVars, mainVars
  <2>2. Control'
    BY <1>3, <1>0
    DEF TypeOK, Control, Untouched, PathOK, WorkersOK, MergeOK, Before, Timing, After,
        WarmupRequest, AddDone, progressVars, warmVars, callVars, poolVars, mainVars
  <2> QED  BY <2>1, <2>2
<1>4. CASE StopWarmup
  <2>1. TypeOK'
    BY <1>4, <1>0, <1>a, <1>b, <1>c
    DEF TypeOK, StopWarmup, CloseStop, ProgressTypeOK, progressVars,
        warmVars, callVars, poolVars, mainVars
  <2>2. Control'
    BY <1>4, <1>0
    DEF TypeOK, Control, Untouched, PathOK, WorkersOK, MergeOK, Before, Timing, After,
        StopWarmup, CloseStop, progressVars, warmVars, callVars, poolVars, mainVars
  <2> QED  BY <2>1, <2>2
<1>5. CASE EndWarmup
  <2>1. TypeOK'
    BY <1>5, <1>0, <1>a, <1>b, <1>c
    DEF TypeOK, EndWarmup, FinishStop, ProgressTypeOK, progressVars,
        warmVars, callVars, poolVars, mainVars
  <2>2. Control'
    BY <1>5, <1>0
    DEF TypeOK, Control, Untouched, PathOK, WorkersOK, MergeOK, Before, Timing, After,
        EndWarmup, FinishStop, progressVars, warmVars, callVars, poolVars, mainVars
  <2> QED  BY <2>1, <2>2
<1>6. CASE Allocate
  <2>1. TypeOK'
    <3>1. workers' = EffectiveWorkers(cfg) /\ workers' \in Nat
      BY <1>6, <1>0 DEF Allocate
    <3>2. /\ shards' \in [Workers' -> Shard]
          /\ wpc' \in [Workers' -> {"recv", "call", "count", "exited"}]
          /\ cur' \in [Workers' -> 0..Iterations(cfg)]
      BY <1>6, <1>0, <3>1, EmptyShardType DEF Allocate
    <3>3. merged' \in MergeState'
      <4>1. merged' = NothingMerged
        BY <1>6 DEF Allocate, Control, MergeOK
      <4> QED  BY <4>1, <3>1, EmptySeq DEF NothingMerged, MergeState
    <3>4. ProgressTypeOK'
      BY <1>6 DEF Allocate, StartProgress, ProgressTypeOK
    <3>5. UNCHANGED <<cfg, warmVars, answer, sent, taken, closed, collected, result>>
      BY <1>6 DEF Allocate
    <3>6. pc' \in {"plain", "spawn"} /\ clock' \in {"running", clock}
      BY <1>6 DEF Allocate
    <3> QED  BY <3>1, <3>2, <3>3, <3>4, <3>5, <3>6, <1>a, <1>c DEF TypeOK, warmVars
  <2>2. Control'
    BY <1>6, <1>0
    DEF TypeOK, Control, Untouched, PathOK, WorkersOK, MergeOK, Before, Timing, After,
        Allocate, StartProgress, progressVars, warmVars, callVars, poolVars, mainVars
  <2> QED  BY <2>1, <2>2
<1>7. CASE PanicOnNegativeCapacity
  <2>1. TypeOK'
    BY <1>7, <1>0, <1>a, <1>b, <1>c
    DEF TypeOK, PanicOnNegativeCapacity, ProgressTypeOK, progressVars,
        warmVars, callVars, poolVars, mainVars
  <2>2. Control'
    BY <1>7, <1>0
    DEF TypeOK, Control, Untouched, PathOK, WorkersOK, MergeOK, Before, Timing, After,
        PanicOnNegativeCapacity, progressVars, warmVars, callVars, poolVars, mainVars
  <2> QED  BY <2>1, <2>2
<1>8. CASE PlainIterate
  <2>1. TypeOK'
    <3>1. taken' \in 0..Iterations(cfg)
      BY <1>8, <1>0 DEF TypeOK, PlainIterate, Begin
    <3>2. cur' \in [Workers -> 0..Iterations(cfg)]
      BY <1>8, <3>1 DEF TypeOK, PlainIterate, Begin
    <3> QED
      BY <1>8, <3>1, <3>2, <1>a, <1>b, <1>c
      DEF TypeOK, PlainIterate, Begin, ProgressTypeOK, progressVars,
          warmVars, callVars, mainVars
  <2>2. Control'
    BY <1>8, <1>0
    DEF TypeOK, Control, Untouched, PathOK, WorkersOK, MergeOK, Before, Timing, After,
        PlainIterate, Begin, progressVars, warmVars, callVars, poolVars, mainVars
  <2> QED  BY <2>1, <2>2
<1>9. CASE PlainEnd
  <2>1. TypeOK'
    BY <1>9, <1>0, <1>a, <1>b, <1>c
    DEF TypeOK, PlainEnd, CloseStop, ProgressTypeOK, progressVars,
        warmVars, callVars, poolVars, mainVars
  <2>2. Control'
    BY <1>9, <1>0
    DEF TypeOK, Control, Untouched, PathOK, WorkersOK, MergeOK, Before, Timing, After,
        PlainEnd, CloseStop, progressVars, warmVars, callVars, poolVars, mainVars
  <2> QED  BY <2>1, <2>2
<1>10. CASE Spawn
  <2>1. TypeOK'
    BY <1>10, <1>0, <1>a, <1>b, <1>c
    DEF TypeOK, Spawn, ProgressTypeOK, progressVars,
        warmVars, callVars, poolVars, mainVars
  <2>2. Control'
    BY <1>10, <1>0
    DEF TypeOK, Control, Untouched, PathOK, WorkersOK, MergeOK, Before, Timing, After,
        Spawn, progressVars, warmVars, callVars, poolVars, mainVars
  <2> QED  BY <2>1, <2>2
<1>11. CASE Send
  <2>1. TypeOK'
    BY <1>11, <1>0, <1>a, <1>b, <1>c
    DEF TypeOK, Send, ProgressTypeOK, progressVars,
        warmVars, callVars, poolVars, mainVars
  <2>2. Control'
    BY <1>11, <1>0
    DEF TypeOK, Control, Untouched, PathOK, WorkersOK, MergeOK, Before, Timing, After,
        Send, progressVars, warmVars, callVars, poolVars, mainVars
  <2> QED  BY <2>1, <2>2
<1>12. CASE CloseJobs
  <2>1. TypeOK'
    BY <1>12, <1>0, <1>a, <1>b, <1>c
    DEF TypeOK, CloseJobs, ProgressTypeOK, progressVars,
        warmVars, callVars, poolVars, mainVars
  <2>2. Control'
    BY <1>12, <1>0
    DEF TypeOK, Control, Untouched, PathOK, WorkersOK, MergeOK, Before, Timing, After,
        CloseJobs, progressVars, warmVars, callVars, poolVars, mainVars
  <2> QED  BY <2>1, <2>2
<1>13. ASSUME NEW w \in Workers, Receive(w)
      PROVE  TypeOK' /\ Control'
  <2>1. TypeOK'
    BY <1>13, <1>0, <1>a, <1>b, <1>c
    DEF TypeOK, Receive, Begin, ProgressTypeOK, progressVars,
        warmVars, callVars, poolVars, mainVars
  <2>2. Control'
    BY <1>13, <1>0
    DEF TypeOK, Control, Untouched, PathOK, WorkersOK, MergeOK, Before, Timing, After,
        Receive, Begin, progressVars, warmVars, callVars, poolVars, mainVars
  <2> QED  BY <2>1, <2>2
<1>14. ASSUME NEW w \in Workers, NEW o \in Answers, Return(w, o)
      PROVE  TypeOK' /\ Control'
  <2>1. TypeOK'
    <3>1. cur[w] \in Requests
      BY <1>14, <1>0 DEF TypeOK, Return, Control, WorkersOK
    <3>2. shards' \in [Workers -> Shard]
      BY <1>14, <3>1, RecordType DEF TypeOK, Return
    <3>3. answer' \in [Requests -> Answers \cup {None}]
      BY <1>14, <3>1 DEF TypeOK, Return
    <3> QED
      BY <1>14, <3>2, <3>3, <1>a, <1>b, <1>c
      DEF TypeOK, Return, ProgressTypeOK, progressVars, warmVars, mainVars
  <2>2. Control'
    BY <1>14, <1>0
    DEF TypeOK, Control, Untouched, PathOK, WorkersOK, MergeOK, Before, Timing, After,
        Return, progressVars, warmVars, callVars, poolVars, mainVars
  <2> QED  BY <2>1, <2>2
<1>15. ASSUME NEW w \in Workers, Count(w)
      PROVE  TypeOK' /\ Control'
  <2>1. TypeOK'
    BY <1>15, <1>0, <1>a, <1>b, <1>c
    DEF TypeOK, Count, AddDone, ProgressTypeOK, progressVars,
        warmVars, callVars, poolVars, mainVars
  <2>2. Control'
    BY <1>15, <1>0
    DEF TypeOK, Control, Untouched, PathOK, WorkersOK, MergeOK, Before, Timing, After,
        Count, AddDone, progressVars, warmVars, callVars, poolVars, mainVars
  <2> QED  BY <2>1, <2>2
<1>16. ASSUME NEW w \in Workers, Exit(w)
      PROVE  TypeOK' /\ Control'
  <2>1. TypeOK'
    BY <1>16, <1>0, <1>a, <1>b, <1>c
    DEF TypeOK, Exit, ProgressTypeOK, progressVars,
        warmVars, callVars, poolVars, mainVars
  <2>2. Control'
    <3>1. taken = Iterations(cfg) /\ pc # "spawn"
      BY <1>16 DEF Exit, Control, PathOK
    <3>2. WorkersOK'
      BY <1>16, <3>1, <1>0 DEF TypeOK, Exit, Control, WorkersOK, mainVars
    <3>3. Untouched' /\ PathOK' /\ MergeOK'
      BY <1>16, <1>0
      DEF TypeOK, Control, Untouched, PathOK, MergeOK, Exit, Before, Timing, After,
          callVars, mainVars
    <3> QED  BY <3>2, <3>3 DEF Control
  <2> QED  BY <2>1, <2>2
<1>17. CASE WaitWorkers
  <2>1. TypeOK'
    BY <1>17, <1>0, <1>a, <1>b, <1>c
    DEF TypeOK, WaitWorkers, CloseStop, ProgressTypeOK, progressVars,
        warmVars, callVars, poolVars, mainVars
  <2>2. Control'
    BY <1>17, <1>0
    DEF TypeOK, Control, Untouched, PathOK, WorkersOK, MergeOK, Before, Timing, After,
        WaitWorkers, CloseStop, progressVars, warmVars, callVars, poolVars, mainVars
  <2> QED  BY <2>1, <2>2
<1>18. CASE JoinProgress
  <2>1. TypeOK'
    BY <1>18, <1>0, <1>a, <1>b, <1>c
    DEF TypeOK, JoinProgress, FinishStop, ProgressTypeOK, progressVars,
        warmVars, callVars, poolVars, mainVars
  <2>2. Control'
    <3>1. MergeOK'
      BY <1>18, <1>0
      DEF TypeOK, Control, PathOK, MergeOK, Before, JoinProgress, NothingMerged, mainVars
    <3>2. Untouched' /\ PathOK' /\ WorkersOK'
      BY <1>18, <1>0
      DEF TypeOK, Control, Untouched, PathOK, WorkersOK, JoinProgress, Before, Timing, After,
          callVars, poolVars, mainVars
    <3> QED  BY <3>1, <3>2 DEF Control
  <2> QED  BY <2>1, <2>2
<1>19. CASE MergeShard
  <2> DEFINE i == merged.shard + 1
             s == shards[i]
  <2>1. i \in Nat /\ i \in 1..workers
    BY <1>19 DEF MergeShard, TypeOK, Control, MergeOK, MergeState
  <2>2. s \in Shard
    BY <2>1 DEF TypeOK
  <2>3. /\ Len(s.success) \in Nat /\ Len(s.failure) \in Nat
        /\ merged.durations \o s.success \in Seq(Requests)
        /\ merged.failureDurations \o s.failure \in Seq(Requests)
        /\ MergeErrors(merged.errors, s.errors) \in [Classes -> Nat]
    <3>1. /\ s.success \in Seq(Requests) /\ s.failure \in Seq(Requests)
          /\ s.errors \in [Classes -> Nat]
      BY <2>2 DEF Shard
    <3>2. /\ merged.durations \in Seq(Requests) /\ merged.failureDurations \in Seq(Requests)
          /\ merged.errors \in [Classes -> Nat]
      BY DEF TypeOK, MergeState
    <3> HIDE DEF s
    <3> QED  BY <3>1, <3>2 DEF MergeErrors
  <2>4. /\ merged' =
             [shard            |-> i,
              nSuccess         |-> merged.nSuccess + Len(s.success),
              nFailure         |-> merged.nFailure + Len(s.failure),
              durations        |-> merged.durations \o s.success,
              failureDurations |-> merged.failureDurations \o s.failure,
              errors           |-> MergeErrors(merged.errors, s.errors)]
        /\ pc' = IF i = workers THEN "collect" ELSE "merge"
        /\ pc = "merge"
        /\ UNCHANGED <<workers, collected, result>>
    BY <1>19 DEF MergeShard
  <2> HIDE DEF i, s
  <2>5. merged' \in MergeState /\ merged'.shard = i
    <3>0. merged.nSuccess \in Nat /\ merged.nFailure \in Nat
      BY DEF TypeOK, MergeState
    <3>1. /\ merged.nSuccess + Len(s.success) \in Nat
          /\ merged.nFailure + Len(s.failure) \in Nat
      BY <2>3, <3>0
    <3> QED  BY <2>1, <2>3, <2>4, <3>1 DEF MergeState
  <2>6. TypeOK'
    BY <1>19, <2>4, <2>5, <1>a, <1>b, <1>c
    DEF TypeOK, MergeShard, ProgressTypeOK, progressVars, warmVars, callVars, poolVars
  <2>7. MergeOK'
    BY <2>1, <2>4, <2>5 DEF TypeOK, Control, PathOK, MergeOK, Before, NothingCollected
  <2>8. Untouched' /\ PathOK' /\ WorkersOK'
    BY <1>19, <2>4, <1>0
    DEF TypeOK, Control, Untouched, PathOK, WorkersOK, MergeShard, Before, Timing, After,
        callVars, poolVars
  <2> QED  BY <2>6, <2>7, <2>8 DEF Control
<1>20. CASE CollectSample
  <2> DEFINE round   == collected.round
             samples == shards[collected.at].samples
             next    == NextVisit(round, collected.at)
             more    == IF round > Len(samples) \/ samples[round] \in Range(collected.out)
                        THEN collected.out
                        ELSE Append(collected.out, samples[round])
  <2>1. /\ collected.at \in Workers /\ collected.round \in Nat \ {0} /\ workers \in Nat
        /\ collected.out \in Seq(Errors)
    BY <1>20 DEF CollectSample, TypeOK, Control, MergeOK, CollectState
  <2>2. samples \in Seq(Errors)
    BY <2>1 DEF TypeOK, Shard
  <2>3. next[1] \in Nat \ {0} /\ next[2] \in Workers
    BY <2>1 DEF NextVisit
  <2>4. more \in Seq(Errors)
    BY <2>1, <2>2
  <2>5. /\ collected' = [round |-> next[1], at |-> next[2], out |-> more]
        /\ pc = "collect"
        /\ UNCHANGED <<progressVars, cfg, pc, warmVars, callVars, poolVars, workers, clock, merged, result>>
    BY <1>20 DEF CollectSample
  <2> HIDE DEF round, samples, next, more
  <2>6. collected' \in CollectState /\ collected'.at \in Workers
    BY <2>3, <2>4, <2>5 DEF CollectState
  <2>7. TypeOK'
    BY <2>5, <2>6, <1>a, <1>b, <1>c
    DEF TypeOK, ProgressTypeOK, progressVars, warmVars, callVars, poolVars
  <2>8. Control'
    BY <2>1, <2>5, <2>6, <1>0
    DEF TypeOK, Control, Untouched, PathOK, WorkersOK, MergeOK, Before, Timing, After,
        callVars, poolVars
  <2> QED  BY <2>7, <2>8
<1>21. CASE FinishMerge
  <2>1. TypeOK'
    <3>1. cfg.requests \in Int
      BY <1>0, ConfigAssumption
    <3>2. result' \in Result
      BY <1>21, <3>1 DEF FinishMerge, TypeOK, MergeState, CollectState, Result
    <3> QED
      BY <1>21, <3>2, <1>a, <1>b, <1>c
      DEF TypeOK, FinishMerge, ProgressTypeOK, progressVars, warmVars, callVars, poolVars
  <2>2. Control'
    BY <1>21, <1>0
    DEF TypeOK, Control, Untouched, PathOK, WorkersOK, MergeOK, Before, Timing, After,
        FinishMerge, progressVars, warmVars, callVars, poolVars
  <2> QED  BY <2>1, <2>2
<1>22. CASE Ticker
  <2>1. TypeOK'
    <3>1. ProgressTypeOK'
      <4>1. CASE Tick
        BY <4>1 DEF Tick, TypeOK, ProgressTypeOK
      <4>2. CASE Render
        BY <4>2 DEF Render, TypeOK, ProgressTypeOK
      <4>3. CASE Quit
        BY <4>3 DEF Quit, TypeOK, ProgressTypeOK
      <4> QED  BY <1>22, <4>1, <4>2, <4>3 DEF Ticker, RenderLoop
    <3> QED
      BY <1>22, <3>1, <1>a, <1>b, <1>c
      DEF TypeOK, Ticker, warmVars, callVars, poolVars, mainVars
  <2>2. Control'
    BY <1>22, <1>0
    DEF TypeOK, Control, Untouched, PathOK, WorkersOK, MergeOK, Before, Timing, After,
        Ticker, warmVars, callVars, poolVars, mainVars
  <2> QED  BY <2>1, <2>2
<1>23. CASE UNCHANGED vars
  <2>1. TypeOK'
    BY <1>23, <1>0, <1>a, <1>b, <1>c
    DEF TypeOK, vars, ProgressTypeOK, progressVars,
        warmVars, callVars, poolVars, mainVars
  <2>2. Control'
    BY <1>23, <1>0
    DEF TypeOK, Control, Untouched, PathOK, WorkersOK, MergeOK, Before, Timing, After,
        vars, progressVars, warmVars, callVars, poolVars, mainVars
  <2> QED  BY <2>1, <2>2
<1> QED
  BY <1>1, <1>2, <1>3, <1>4, <1>5, <1>6, <1>7, <1>8, <1>9, <1>10, <1>11, <1>12, <1>13, <1>14, <1>15, <1>16, <1>17, <1>18, <1>19, <1>20, <1>21, <1>22, <1>23
  DEF Next, Main, Goroutine, Terminated

(***************************************************************************)
(* Every variable keeps its type.  In particular no worker indexes a       *)
(* request outside the run, and no merge step a shard outside the slice.   *)
(***************************************************************************)
THEOREM TypeCorrect == Spec => []TypeOK
<1>1. Init => TypeOK /\ Control
  BY InitControl
<1>2. TypeOK /\ Control /\ [Next]_vars => TypeOK' /\ Control'
  BY ControlStep
<1> QED  BY <1>1, <1>2, PTL DEF Spec

-----------------------------------------------------------------------------
(***************************************************************************)
(* The account a run returns is exact: whatever the workers' interleaving, *)
(* the shards file every answer once, under the right head, and the merge  *)
(* neither loses nor repeats one.                                          *)
(***************************************************************************)
(***************************************************************************)
(* Sequences without repetition.                                           *)
(***************************************************************************)
LEMMA AppendFresh ==
  ASSUME NEW S, NEW s \in Seq(S), NEW e \in S
  PROVE  /\ Range(Append(s, e)) = Range(s) \cup {e}
         /\ IsInjective(s) /\ e \notin Range(s) => IsInjective(Append(s, e))
<1>1. /\ Len(Append(s, e)) = Len(s) + 1
      /\ DOMAIN Append(s, e) = 1..(Len(s) + 1)
      /\ DOMAIN s = 1..Len(s) /\ Len(s) \in Nat
      /\ \A i \in 1..Len(s) : Append(s, e)[i] = s[i]
      /\ Append(s, e)[Len(s) + 1] = e
  OBVIOUS
<1>2. Range(Append(s, e)) = Range(s) \cup {e}
  BY <1>1 DEF Range
<1>3. IsInjective(s) /\ e \notin Range(s) => IsInjective(Append(s, e))
  BY <1>1 DEF Range, IsInjective
<1> QED  BY <1>2, <1>3

LEMMA ConcatDisjoint ==
  ASSUME NEW S, NEW s \in Seq(S), NEW t \in Seq(S)
  PROVE  /\ Range(s \o t) = Range(s) \cup Range(t)
         /\ IsInjective(s) /\ IsInjective(t) /\ Range(s) \cap Range(t) = {}
              => IsInjective(s \o t)
<1>1. /\ Len(s) \in Nat /\ Len(t) \in Nat
      /\ DOMAIN s = 1..Len(s) /\ DOMAIN t = 1..Len(t)
      /\ DOMAIN (s \o t) = 1..(Len(s) + Len(t))
      /\ \A i \in 1..Len(s) : (s \o t)[i] = s[i]
      /\ \A i \in 1..Len(t) : (s \o t)[Len(s) + i] = t[i]
  OBVIOUS
<1>2. \A i \in DOMAIN (s \o t) :
        \/ i \in 1..Len(s)
        \/ \E j \in 1..Len(t) : i = Len(s) + j
  <2>1. ASSUME NEW m \in Nat, NEW n \in Nat, NEW i \in 1..(m + n), i \notin 1..m
        PROVE  \E j \in 1..n : i = m + j
    <3>1. i - m \in 1..n /\ i = m + (i - m)
      BY <2>1
    <3> QED  BY <3>1
  <2>2. \A i \in 1..(Len(s) + Len(t)) :
          i \in 1..Len(s) \/ \E j \in 1..Len(t) : i = Len(s) + j
    <3>1. Len(s) \in Nat /\ Len(t) \in Nat
      BY <1>1
    <3> QED  BY <2>1, <3>1
  <2> QED  BY <1>1, <2>2
<1>3. Range(s \o t) = Range(s) \cup Range(t)
  <2>1. Range(s \o t) \subseteq Range(s) \cup Range(t)
    BY <1>1, <1>2 DEF Range
  <2>2. ASSUME NEW i \in 1..Len(s) PROVE s[i] \in Range(s \o t)
    <3>1. i \in DOMAIN (s \o t) /\ (s \o t)[i] = s[i]
      BY <1>1
    <3> QED  BY <3>1 DEF Range
  <2>3. ASSUME NEW i \in 1..Len(t) PROVE t[i] \in Range(s \o t)
    <3>1. Len(s) + i \in DOMAIN (s \o t) /\ (s \o t)[Len(s) + i] = t[i]
      BY <1>1
    <3> QED  BY <3>1 DEF Range
  <2> QED  BY <1>1, <2>1, <2>2, <2>3 DEF Range
<1>4. ASSUME IsInjective(s), IsInjective(t), Range(s) \cap Range(t) = {},
             NEW a \in DOMAIN (s \o t), NEW b \in DOMAIN (s \o t),
             (s \o t)[a] = (s \o t)[b]
      PROVE  a = b
  <2>1. \A i \in 1..Len(s), j \in 1..Len(t) : s[i] # t[j]
    BY <1>1, <1>4 DEF Range
  <2>2. CASE a \in 1..Len(s) /\ b \in 1..Len(s)
    BY <1>1, <1>4, <2>2 DEF IsInjective
  <2>3. CASE a \notin 1..Len(s) /\ b \notin 1..Len(s)
    <3>1. PICK i \in 1..Len(t), j \in 1..Len(t) : a = Len(s) + i /\ b = Len(s) + j
      BY <1>2, <2>3
    <3>2. t[i] = t[j]
      BY <1>1, <1>4, <3>1
    <3> QED  BY <1>1, <1>4, <3>1, <3>2 DEF IsInjective
  <2>4. CASE a \in 1..Len(s) /\ b \notin 1..Len(s)
    BY <1>1, <1>2, <1>4, <2>1, <2>4
  <2>5. CASE a \notin 1..Len(s) /\ b \in 1..Len(s)
    BY <1>1, <1>2, <1>4, <2>1, <2>5
  <2> QED  BY <2>2, <2>3, <2>4, <2>5
<1> QED  BY <1>3, <1>4 DEF IsInjective

LEMMA InjectiveLength ==
  ASSUME NEW S, NEW s \in Seq(S), IsInjective(s)
  PROVE  IsFiniteSet(Range(s)) /\ Cardinality(Range(s)) = Len(s)
<1>1. Len(s) \in Nat /\ DOMAIN s = 1..Len(s) /\ s \in [1..Len(s) -> Range(s)]
  BY DEF Range
<1>2. IsFiniteSet(1..Len(s)) /\ Cardinality(1..Len(s)) = Len(s)
  BY <1>1, FS_Interval
<1>3. s \in Bijection(1..Len(s), Range(s))
  BY <1>1 DEF IsInjective, Range, Bijection, Injection, Surjection
<1>4. ExistsBijection(1..Len(s), Range(s))
  BY <1>3 DEF ExistsBijection
<1> QED  BY <1>2, <1>4, FS_Bijection

-----------------------------------------------------------------------------
(***************************************************************************)
(* Which request is where.                                                 *)
(***************************************************************************)
Calling(w) == wpc[w] = "call"

(* Every request is unbegun, in the hands of exactly one worker, or answered. *)
Dispatch ==
  /\ \A k \in Requests : k > taken => answer[k] = None
  /\ \A w \in Workers : Calling(w) => answer[cur[w]] = None
  /\ \A v, w \in Workers : Calling(v) /\ Calling(w) /\ cur[v] = cur[w] => v = w
  /\ \A k \in Requests :
       k <= taken /\ answer[k] = None => \E w \in Workers : Calling(w) /\ cur[w] = k

Timed(w) == Range(shards[w].success)
Failing(w) == Range(shards[w].failure)
OfClass(ks, c) == {k \in ks : ClassOf[answer[k]] = c}

(* The shards together hold each answer once, under its own head. *)
Filed ==
  /\ \A w \in Workers :
       IsInjective(shards[w].success) /\ IsInjective(shards[w].failure)
  /\ \A w \in Workers : \A k \in Timed(w) : answer[k] = Ok
  /\ \A w \in Workers : \A k \in Failing(w) : answer[k] \in Errors
  /\ \A v, w \in Workers :
       v # w => Timed(v) \cap Timed(w) = {} /\ Failing(v) \cap Failing(w) = {}
  /\ \A k \in Requests : answer[k] = Ok => \E w \in Workers : k \in Timed(w)
  /\ \A k \in Requests : answer[k] \in Errors => \E w \in Workers : k \in Failing(w)

Counted ==
  \A w \in Workers, c \in Classes :
    shards[w].errors[c] = Cardinality(OfClass(Failing(w), c))

(* The merge holds what the shards it has passed hold. *)
MergedSoFar ==
  /\ merged.nSuccess = Len(merged.durations)
  /\ merged.nFailure = Len(merged.failureDurations)
  /\ IsInjective(merged.durations) /\ IsInjective(merged.failureDurations)
  /\ Range(merged.durations) = UNION {Timed(w) : w \in 1..merged.shard}
  /\ Range(merged.failureDurations) = UNION {Failing(w) : w \in 1..merged.shard}
  /\ \A c \in Classes :
       merged.errors[c] = Cardinality(OfClass(Range(merged.failureDurations), c))

Published ==
  pc = "done" =>
    /\ result.successCount = merged.nSuccess
    /\ result.failureCount = merged.nFailure
    /\ result.durations = merged.durations
    /\ result.failureDurations = merged.failureDurations
    /\ result.errors = merged.errors
    /\ result.requestCount = cfg.requests

LEMMA DispatchInit == Init => Dispatch
BY DEF Init, Dispatch, Calling, Workers, Requests

LEMMA DispatchStep ==
  TypeOK /\ Control /\ Dispatch /\ [Next]_vars => Dispatch'
<1> SUFFICES ASSUME TypeOK, Control, Dispatch, [Next]_vars
             PROVE  Dispatch'
  OBVIOUS
<1> USE DEF Workers, Requests, Calling
<1>0. /\ Iterations(cfg) \in Nat /\ cfg \in Configs
      /\ EffectiveWorkers(cfg) \in Nat \ {0}
  BY EffectiveWorkersType DEF TypeOK
<1>c. cfg' = cfg => Iterations(cfg)' = Iterations(cfg)
  BY DEF Iterations
<1>1. ASSUME UNCHANGED <<cfg, callVars, poolVars, workers>>
      PROVE  Dispatch'
  BY <1>1, <1>c DEF Dispatch, callVars, poolVars
<1>2. CASE Allocate
  <2>1. \A w \in Workers' : wpc'[w] = "recv"
    BY <1>2, <1>0 DEF Allocate
  <2>2. UNCHANGED <<cfg, answer, taken>> /\ taken = 0
    BY <1>2 DEF Allocate, Control, Untouched, Before
  <2> QED  BY <2>1, <2>2, <1>0, <1>c DEF Dispatch
<1>3. ASSUME NEW w \in Workers, wpc[w] = "recv", Begin(w), taken < Iterations(cfg),
             UNCHANGED <<cfg, answer, workers>>
      PROVE  Dispatch'
  <2>1. /\ taken' = taken + 1 /\ taken \in Nat
        /\ cur' = [cur EXCEPT ![w] = taken + 1]
        /\ wpc' = [wpc EXCEPT ![w] = "call"]
        /\ taken + 1 \in Requests
    BY <1>3, <1>0 DEF Begin, TypeOK
  <2>2. \A v \in Workers : Calling(v) => cur[v] <= taken
    BY DEF Control, WorkersOK, TypeOK
  <2>3. answer[taken + 1] = None
    BY <2>1 DEF Dispatch
  <2> QED  BY <1>3, <2>1, <2>2, <2>3, <1>0, <1>c DEF Dispatch, TypeOK
<1>4. ASSUME NEW w \in Workers, NEW o \in Answers, Return(w, o)
      PROVE  Dispatch'
  <2>1. o # None /\ cur[w] \in Requests /\ cur[w] <= taken
    BY <1>4, <1>0, ErrorAssumption DEF Answers, Return, Control, WorkersOK, TypeOK
  <2>2. /\ answer' = [answer EXCEPT ![cur[w]] = o]
        /\ wpc' = [wpc EXCEPT ![w] = "count"]
        /\ wpc[w] = "call"
        /\ UNCHANGED <<cfg, cur, taken, workers>>
    BY <1>4 DEF Return, mainVars
  <2> QED  BY <2>1, <2>2, <1>0, <1>c DEF Dispatch, TypeOK
<1>5. ASSUME NEW w \in Workers, NEW at \in {"recv", "exited"},
             wpc[w] # "call", wpc' = [wpc EXCEPT ![w] = at],
             UNCHANGED <<cfg, answer, cur, taken, workers>>
      PROVE  Dispatch'
  BY <1>5, <1>c DEF Dispatch, TypeOK
<1>6. CASE PlainIterate
  <2>1. 1 \in Workers
    BY <1>6 DEF PlainIterate, Control, PathOK
  <2> QED
    BY <1>3, <1>6, <2>1 DEF PlainIterate, callVars, mainVars
<1>7. CASE PlainEnd
  <2>1. 1 \in Workers
    BY <1>7 DEF PlainEnd, Control, PathOK
  <2> QED
    BY <1>5, <1>7, <2>1 DEF PlainEnd, callVars
<1>8. ASSUME NEW w \in Workers, Receive(w)
      PROVE  Dispatch'
  <2>1. taken < Iterations(cfg)
    BY <1>8, <1>0 DEF Receive, TypeOK
  <2> QED
    BY <1>3, <1>8, <2>1 DEF Receive, callVars, mainVars
<1>9. ASSUME NEW w \in Workers, Count(w) \/ Exit(w)
      PROVE  Dispatch'
  BY <1>5, <1>9 DEF Count, Exit, callVars, mainVars
<1>10. CASE \/ SkipWarmup \/ StartWarmup \/ StopWarmup \/ EndWarmup
            \/ PanicOnNegativeCapacity \/ Spawn \/ WaitWorkers \/ JoinProgress
            \/ MergeShard \/ CollectSample \/ FinishMerge \/ Ticker
            \/ \E o \in Answers : WarmupRequest(o)
            \/ UNCHANGED vars
  BY <1>1, <1>10
  DEF SkipWarmup, StartWarmup, StopWarmup, EndWarmup, PanicOnNegativeCapacity, Spawn,
      WaitWorkers, JoinProgress, MergeShard, CollectSample, FinishMerge, Ticker,
      WarmupRequest, vars, mainVars
<1>11. CASE Send \/ CloseJobs
  BY <1>11, <1>c DEF Send, CloseJobs, Dispatch, callVars, mainVars
<1> QED
  BY <1>2, <1>4, <1>6, <1>7, <1>8, <1>9, <1>10, <1>11
  DEF Next, Main, Goroutine, Terminated

-----------------------------------------------------------------------------
(***************************************************************************)
(* The shards.                                                             *)
(***************************************************************************)
Books == Filed /\ Counted

LEMMA BooksInit == Init => Books
BY ErrorAssumption DEF Init, Books, Filed, Counted, Workers, Requests

LEMMA NothingIn == Range(<<>>) = {} /\ IsInjective(<<>>)
BY DEF Range, IsInjective

(* What one call of record does to a shard. *)
LEMMA RecordFields ==
  ASSUME NEW s \in Shard, NEW k \in Requests, NEW o \in Answers
  PROVE  /\ o = Ok => /\ Record(s, k, o).success = Append(s.success, k)
                      /\ Record(s, k, o).failure = s.failure
                      /\ Record(s, k, o).errors = s.errors
         /\ o # Ok => /\ Record(s, k, o).success = s.success
                      /\ Record(s, k, o).failure = Append(s.failure, k)
                      /\ Record(s, k, o).errors =
                           [s.errors EXCEPT ![ClassOf[o]] = @ + 1]
BY DEF Record, Shard

(***************************************************************************)
(* A worker returns from fn and files the request it had in hand.  The     *)
(* request is in no shard yet, because everything in a shard is answered.  *)
(***************************************************************************)
LEMMA BooksReturn ==
  ASSUME TypeOK, Control, Dispatch, Books,
         NEW w \in Workers, NEW o \in Answers, Return(w, o)
  PROVE  Books'
<1> DEFINE k == cur[w]
<1>0. /\ k \in Requests /\ answer[k] = None
      /\ Iterations(cfg) \in Nat
      /\ Ok \notin Errors /\ None \notin Errors /\ Ok # None
  BY EffectiveWorkersType, ErrorAssumption
  DEF Return, Control, WorkersOK, Dispatch, Calling, TypeOK, Requests
<1>1. /\ answer' = [answer EXCEPT ![k] = o]
      /\ shards' = [shards EXCEPT ![w] = Record(shards[w], k, o)]
      /\ workers' = workers /\ cfg' = cfg
      /\ answer \in [Requests -> Answers \cup {None}]
      /\ shards \in [Workers -> Shard]
  BY DEF Return, mainVars, TypeOK
<1>2. Workers' = Workers /\ Requests' = Requests
  BY <1>1 DEF Workers, Requests, Iterations
<1>3. /\ \A v \in Workers : k \notin Timed(v) /\ k \notin Failing(v)
      /\ \A v \in Workers : Timed(v) \subseteq Requests /\ Failing(v) \subseteq Requests
  <2>1. \A v \in Workers : shards[v].success \in Seq(Requests) /\ shards[v].failure \in Seq(Requests)
    BY <1>1 DEF Shard
  <2>2. ASSUME NEW s \in Seq(Requests) PROVE Range(s) \subseteq Requests
    BY DEF Range
  <2> QED  BY <1>0, <2>1, <2>2 DEF Books, Filed, Timed, Failing
<1>4. \A v \in Workers : v # w => shards'[v] = shards[v]
  BY <1>1
<1>5. shards'[w] = Record(shards[w], k, o)
  BY <1>1
<1>6. \A j \in Requests : j # k => answer'[j] = answer[j]
  BY <1>1
<1>7. answer'[k] = o
  BY <1>0, <1>1
<1>8. \A v \in Workers : v # w => Timed(v)' = Timed(v) /\ Failing(v)' = Failing(v)
  BY <1>4 DEF Timed, Failing
<1>9. /\ shards[w] \in Shard
      /\ shards[w].success \in Seq(Requests) /\ shards[w].failure \in Seq(Requests)
      /\ IsInjective(shards[w].success) /\ IsInjective(shards[w].failure)
  BY <1>1 DEF Shard, Books, Filed
<1> HIDE DEF k
<1>10. \A v \in Workers : v # w =>
         \A c \in Classes : OfClass(Failing(v), c)' = OfClass(Failing(v), c)
  BY <1>3, <1>6, <1>8 DEF OfClass
<1>11. CASE o = Ok
  <2>1. /\ shards'[w].success = Append(shards[w].success, k)
        /\ shards'[w].failure = shards[w].failure
        /\ shards'[w].errors = shards[w].errors
    <3>1. shards[w] \in Shard /\ k \in Requests /\ o \in Answers
      BY <1>0, <1>9
    <3>2. /\ Record(shards[w], k, o).success = Append(shards[w].success, k)
          /\ Record(shards[w], k, o).failure = shards[w].failure
          /\ Record(shards[w], k, o).errors = shards[w].errors
      BY <1>11, <3>1, RecordFields, ZenonT(60)
    <3> QED  BY <1>5, <3>2
  <2>2. /\ Timed(w)' = Timed(w) \cup {k} /\ Failing(w)' = Failing(w)
        /\ IsInjective(shards'[w].success) /\ IsInjective(shards'[w].failure)
    BY <1>0, <1>3, <1>9, <2>1, AppendFresh DEF Timed, Failing
  <2>3. Filed'
    BY <1>0, <1>2, <1>3, <1>4, <1>6, <1>7, <1>8, <1>11, <2>2 DEF Books, Filed
  <2>4. \A c \in Classes : OfClass(Failing(w), c)' = OfClass(Failing(w), c)
    BY <1>3, <1>6, <2>2 DEF OfClass
  <2>5. Counted'
    BY <1>2, <1>4, <1>10, <2>1, <2>4 DEF Books, Counted
  <2> QED  BY <2>3, <2>5 DEF Books
<1>12. CASE o # Ok
  <2>0. o \in Errors /\ ClassOf[o] \in Classes
    BY <1>12, ErrorAssumption DEF Answers
  <2>1. /\ shards'[w].success = shards[w].success
        /\ shards'[w].failure = Append(shards[w].failure, k)
        /\ shards'[w].errors = [shards[w].errors EXCEPT ![ClassOf[o]] = @ + 1]
    <3>1. shards[w] \in Shard /\ k \in Requests /\ o \in Answers
      BY <1>0, <1>9
    <3>2. /\ Record(shards[w], k, o).success = shards[w].success
          /\ Record(shards[w], k, o).failure = Append(shards[w].failure, k)
          /\ Record(shards[w], k, o).errors = [shards[w].errors EXCEPT ![ClassOf[o]] = @ + 1]
      BY <1>12, <3>1, RecordFields, ZenonT(60)
    <3> QED  BY <1>5, <3>2
  <2>2. /\ Timed(w)' = Timed(w) /\ Failing(w)' = Failing(w) \cup {k}
        /\ IsInjective(shards'[w].success) /\ IsInjective(shards'[w].failure)
    BY <1>0, <1>3, <1>9, <2>1, AppendFresh DEF Timed, Failing
  <2>3. Filed'
    BY <1>0, <1>2, <1>3, <1>4, <1>6, <1>7, <1>8, <1>12, <2>0, <2>2 DEF Books, Filed
  <2>4. ASSUME NEW c \in Classes
        PROVE  shards'[w].errors[c] = Cardinality(OfClass(Failing(w), c)')
    <3>1. /\ shards[w].errors \in [Classes -> Nat]
          /\ shards[w].errors[c] = Cardinality(OfClass(Failing(w), c))
      BY <1>9 DEF Shard, Books, Counted
    <3>2. IsFiniteSet(OfClass(Failing(w), c))
      <4>1. IsFiniteSet(Failing(w))
        BY <1>9, InjectiveLength DEF Failing
      <4> QED  BY <4>1, FS_Subset DEF OfClass
    <3>3. CASE c = ClassOf[o]
      <4>1. OfClass(Failing(w), c)' = OfClass(Failing(w), c) \cup {k}
        BY <1>3, <1>6, <1>7, <2>2, <3>3 DEF OfClass
      <4>2. k \notin OfClass(Failing(w), c)
        BY <1>3 DEF OfClass
      <4>3. shards'[w].errors[c] = shards[w].errors[c] + 1
        BY <2>0, <2>1, <3>1, <3>3
      <4> QED  BY <3>1, <3>2, <4>1, <4>2, <4>3, FS_AddElement
    <3>4. CASE c # ClassOf[o]
      <4>1. OfClass(Failing(w), c)' = OfClass(Failing(w), c)
        BY <1>3, <1>6, <1>7, <2>2, <3>4 DEF OfClass
      <4> QED  BY <2>1, <3>1, <3>4, <4>1
    <3> QED  BY <3>3, <3>4
  <2>5. Counted'
    BY <1>2, <1>4, <1>10, <2>4 DEF Books, Counted
  <2> QED  BY <2>3, <2>5 DEF Books
<1> QED  BY <1>11, <1>12

LEMMA BooksStep ==
  TypeOK /\ Control /\ Dispatch /\ Books /\ [Next]_vars => Books'
<1> SUFFICES ASSUME TypeOK, Control, Dispatch, Books, [Next]_vars
             PROVE  Books'
  OBVIOUS
<1>1. ASSUME UNCHANGED <<cfg, callVars, workers>>
      PROVE  Books'
  BY <1>1
  DEF Books, Filed, Counted, Timed, Failing, OfClass, callVars, Workers, Requests, Iterations
<1>2. CASE Allocate
  <2>1. /\ answer' = [k \in Requests' |-> None]
        /\ shards' = [w \in Workers' |-> EmptyShard]
    BY <1>2 DEF Allocate, Control, Untouched, Before, Workers, Requests, Iterations
  <2>2. \A w \in Workers' :
          /\ shards'[w].success = <<>> /\ shards'[w].failure = <<>>
          /\ \A c \in Classes : shards'[w].errors[c] = 0
    BY <2>1 DEF EmptyShard
  <2>3. \A w \in Workers' :
          /\ IsInjective(shards'[w].success) /\ IsInjective(shards'[w].failure)
          /\ Timed(w)' = {} /\ Failing(w)' = {}
    BY <2>2, NothingIn DEF Timed, Failing
  <2>4. \A k \in Requests' : answer'[k] # Ok /\ answer'[k] \notin Errors
    BY <2>1, ErrorAssumption
  <2>5. Filed'
    BY <2>3, <2>4 DEF Filed
  <2>6. Counted'
    BY <2>2, <2>3, FS_EmptySet DEF Counted, OfClass
  <2> QED  BY <2>5, <2>6 DEF Books
<1>3. ASSUME NEW w \in Workers, NEW o \in Answers, Return(w, o)
      PROVE  Books'
  BY <1>3, BooksReturn
<1>4. CASE \/ SkipWarmup \/ StartWarmup \/ StopWarmup \/ EndWarmup
           \/ PanicOnNegativeCapacity \/ PlainIterate \/ PlainEnd
           \/ Spawn \/ Send \/ CloseJobs \/ WaitWorkers \/ JoinProgress
           \/ MergeShard \/ CollectSample \/ FinishMerge \/ Ticker
           \/ \E o \in Answers : WarmupRequest(o)
           \/ UNCHANGED vars
  BY <1>1, <1>4
  DEF SkipWarmup, StartWarmup, StopWarmup, EndWarmup, PanicOnNegativeCapacity,
      PlainIterate, PlainEnd, Spawn, Send, CloseJobs,
      WaitWorkers, JoinProgress, MergeShard, CollectSample, FinishMerge, Ticker,
      WarmupRequest, vars, mainVars
<1>5. ASSUME NEW w \in Workers, Goroutine(w)
      PROVE  Books'
  BY <1>1, <1>5 DEF Goroutine, Receive, Count, Exit, mainVars
<1> QED
  BY <1>2, <1>3, <1>4, <1>5 DEF Next, Main, Terminated

-----------------------------------------------------------------------------
(***************************************************************************)
(* The merge.                                                              *)
(***************************************************************************)
LEMMA MergedNothing == merged = NothingMerged => MergedSoFar
<1> SUFFICES ASSUME merged = NothingMerged PROVE MergedSoFar
  OBVIOUS
<1>1. /\ merged.durations = <<>> /\ merged.failureDurations = <<>>
      /\ merged.nSuccess = 0 /\ merged.nFailure = 0 /\ merged.shard = 0
      /\ \A c \in Classes : merged.errors[c] = 0
  BY DEF NothingMerged
<1>2. 1..0 = {}
  OBVIOUS
<1> QED
  BY <1>1, <1>2, NothingIn, EmptySeq, FS_EmptySet DEF MergedSoFar, OfClass

(***************************************************************************)
(* One shard is merged: it holds nothing the merge holds already, so both  *)
(* sequences stay free of repetition and both counts add up.               *)
(***************************************************************************)
LEMMA MergedShard ==
  ASSUME TypeOK, Control, Books, MergedSoFar, MergeShard
  PROVE  MergedSoFar'
<1> DEFINE i == merged.shard + 1
           s == shards[i]
<1>1. /\ merged.shard \in Nat /\ i \in Workers /\ i \in Nat /\ s \in Shard
      /\ \A j \in 1..merged.shard : j \in Workers /\ j # i
      /\ 1..i = 1..merged.shard \cup {i}
  BY SMTT(30) DEF MergeShard, TypeOK, Control, MergeOK, MergeState, Workers
<1>2. /\ merged'.shard = i
      /\ merged'.nSuccess = merged.nSuccess + Len(s.success)
      /\ merged'.nFailure = merged.nFailure + Len(s.failure)
      /\ merged'.durations = merged.durations \o s.success
      /\ merged'.failureDurations = merged.failureDurations \o s.failure
      /\ merged'.errors = MergeErrors(merged.errors, s.errors)
      /\ UNCHANGED <<shards, answer>>
  BY DEF MergeShard, callVars
<1>3. /\ s.success \in Seq(Requests) /\ s.failure \in Seq(Requests)
      /\ s.errors \in [Classes -> Nat]
  BY <1>1 DEF Shard
<1>4. /\ merged.durations \in Seq(Requests) /\ merged.failureDurations \in Seq(Requests)
      /\ merged.errors \in [Classes -> Nat]
  BY DEF TypeOK, MergeState
<1>5. /\ IsInjective(s.success) /\ IsInjective(s.failure)
      /\ Timed(i) = Range(s.success) /\ Failing(i) = Range(s.failure)
  BY <1>1 DEF Books, Filed, Timed, Failing
<1> HIDE DEF i, s
<1>6. /\ Range(merged.durations) \cap Range(s.success) = {}
      /\ Range(merged.failureDurations) \cap Range(s.failure) = {}
  BY <1>1, <1>5 DEF Books, Filed, MergedSoFar
<1>7. /\ IsInjective(merged'.durations)
      /\ Range(merged'.durations) = Range(merged.durations) \cup Timed(i)
  BY <1>2, <1>3, <1>4, <1>5, <1>6, ConcatDisjoint DEF MergedSoFar
<1>8. /\ IsInjective(merged'.failureDurations)
      /\ Range(merged'.failureDurations) = Range(merged.failureDurations) \cup Failing(i)
  BY <1>2, <1>3, <1>4, <1>5, <1>6, ConcatDisjoint DEF MergedSoFar
<1>9. /\ merged'.nSuccess = Len(merged'.durations)
      /\ merged'.nFailure = Len(merged'.failureDurations)
  BY <1>2, <1>3, <1>4, ConcatProperties DEF MergedSoFar
<1>10. ASSUME NEW c \in Classes
       PROVE  merged'.errors[c] = Cardinality(OfClass(Range(merged.failureDurations) \cup Failing(i), c))
  <2> DEFINE A == OfClass(Range(merged.failureDurations), c)
             B == OfClass(Failing(i), c)
  <2>1. IsFiniteSet(A) /\ IsFiniteSet(B)
    <3>1. IsFiniteSet(Range(merged.failureDurations)) /\ IsFiniteSet(Failing(i))
      BY <1>3, <1>4, <1>5, InjectiveLength DEF MergedSoFar
    <3> QED  BY <3>1, FS_Subset DEF OfClass
  <2>2. A \cap B = {} /\ OfClass(Range(merged.failureDurations) \cup Failing(i), c) = A \cup B
    BY <1>5, <1>6 DEF OfClass
  <2>3. merged.errors[c] = Cardinality(A) /\ s.errors[c] = Cardinality(B)
    BY <1>1 DEF MergedSoFar, Books, Counted, s
  <2>4. merged'.errors[c] = merged.errors[c] + s.errors[c]
    BY <1>2 DEF MergeErrors
  <2> HIDE DEF A, B
  <2>5. Cardinality(A \cup B) = Cardinality(A) + Cardinality(B)
    <3>1. Cardinality(A \cup B) = Cardinality(A) + Cardinality(B) - Cardinality(A \cap B)
      BY <2>1, FS_Union
    <3>2. Cardinality(A \cap B) = 0
      BY <2>2, FS_EmptySet
    <3>3. Cardinality(A) \in Nat /\ Cardinality(B) \in Nat
      BY <2>1, FS_CardinalityType
    <3> QED  BY <3>1, <3>2, <3>3
  <2> QED  BY <2>2, <2>3, <2>4, <2>5
<1>11. /\ Range(merged'.durations) = UNION {Timed(w) : w \in 1..i}
       /\ Range(merged'.failureDurations) = UNION {Failing(w) : w \in 1..i}
  BY <1>1, <1>7, <1>8 DEF MergedSoFar
<1>12. /\ (UNION {Timed(w) : w \in 1..merged.shard})' = UNION {Timed(w) : w \in 1..i}
       /\ (UNION {Failing(w) : w \in 1..merged.shard})' = UNION {Failing(w) : w \in 1..i}
  BY <1>2 DEF Timed, Failing
<1>13. \A c \in Classes : merged'.errors[c] = Cardinality(OfClass(Range(merged.failureDurations), c)')
  <2>1. \A c : OfClass(Range(merged.failureDurations), c)'
                 = OfClass(Range(merged.failureDurations) \cup Failing(i), c)
    BY <1>2, <1>8 DEF OfClass
  <2> QED  BY <1>10, <2>1
<1> QED
  BY <1>7, <1>8, <1>9, <1>11, <1>12, <1>13 DEF MergedSoFar

LEMMA MergedStep ==
  TypeOK /\ Control /\ Dispatch /\ Books /\ MergedSoFar /\ [Next]_vars => MergedSoFar'
<1> SUFFICES ASSUME TypeOK, Control, Dispatch, Books, MergedSoFar, [Next]_vars
             PROVE  MergedSoFar'
  OBVIOUS
<1>1. ASSUME UNCHANGED <<callVars, merged>>
      PROVE  MergedSoFar'
  BY <1>1 DEF MergedSoFar, Timed, Failing, OfClass, callVars
<1>2. CASE MergeShard
  BY <1>2, MergedShard
<1>3. ASSUME merged' = NothingMerged
      PROVE  MergedSoFar'
  <2>1. (merged = NothingMerged => MergedSoFar)'
    BY MergedNothing, PTL
  <2> QED  BY <1>3, <2>1
<1>4. CASE Allocate
  BY <1>3, <1>4 DEF Allocate, Control, MergeOK
<1>5. ASSUME NEW w \in Workers, NEW o \in Answers, Return(w, o)
      PROVE  MergedSoFar'
  <2>1. pc \notin After
    BY <1>5 DEF Return, Control, WorkersOK
  <2> QED
    BY <1>3, <1>5, <2>1 DEF Return, Control, MergeOK, After, mainVars
<1>6. CASE \/ SkipWarmup \/ StartWarmup \/ StopWarmup \/ EndWarmup
           \/ PanicOnNegativeCapacity \/ PlainIterate \/ PlainEnd
           \/ Spawn \/ Send \/ CloseJobs \/ WaitWorkers \/ JoinProgress
           \/ CollectSample \/ FinishMerge \/ Ticker
           \/ \E o \in Answers : WarmupRequest(o)
           \/ UNCHANGED vars
  BY <1>1, <1>6
  DEF SkipWarmup, StartWarmup, StopWarmup, EndWarmup, PanicOnNegativeCapacity,
      PlainIterate, PlainEnd, Spawn, Send, CloseJobs,
      WaitWorkers, JoinProgress, CollectSample, FinishMerge, Ticker,
      WarmupRequest, vars, mainVars
<1>7. ASSUME NEW w \in Workers, Goroutine(w)
      PROVE  MergedSoFar'
  BY <1>1, <1>7 DEF Goroutine, Receive, Count, Exit, mainVars
<1> QED
  BY <1>2, <1>4, <1>5, <1>6, <1>7 DEF Next, Main, Terminated

LEMMA PublishedStep == Published /\ [Next]_vars => Published'
<1> SUFFICES ASSUME Published, [Next]_vars PROVE Published'
  OBVIOUS
<1>1. CASE FinishMerge
  BY <1>1 DEF FinishMerge, Published
<1>2. ASSUME pc' # "done" PROVE Published'
  BY <1>2 DEF Published
<1>3. ASSUME UNCHANGED <<cfg, pc, mainVars>> PROVE Published'
  BY <1>3 DEF Published, mainVars
<1>4. CASE \/ SkipWarmup \/ StartWarmup \/ StopWarmup \/ EndWarmup
           \/ Allocate \/ PanicOnNegativeCapacity \/ PlainIterate \/ PlainEnd
           \/ Spawn \/ Send \/ CloseJobs \/ WaitWorkers \/ JoinProgress
           \/ MergeShard \/ CollectSample
           \/ \E o \in Answers : WarmupRequest(o)
  BY <1>2, <1>4
  DEF SkipWarmup, StartWarmup, StopWarmup, EndWarmup, Allocate, PanicOnNegativeCapacity,
      PlainIterate, PlainEnd, Spawn, Send, CloseJobs,
      WaitWorkers, JoinProgress, MergeShard, CollectSample, WarmupRequest
<1>5. CASE \/ Ticker \/ UNCHANGED vars
           \/ \E w \in Workers : Goroutine(w)
           \/ \E w \in Workers, o \in Answers : Return(w, o)
  BY <1>3, <1>5 DEF Ticker, Goroutine, Receive, Count, Exit, Return, vars
<1> QED
  BY <1>1, <1>4, <1>5 DEF Next, Main, Terminated

-----------------------------------------------------------------------------
(***************************************************************************)
(* The inductive invariant, and what follows from it.                      *)
(***************************************************************************)
Invariant ==
  TypeOK /\ Control /\ Dispatch /\ Books /\ MergedSoFar /\ Published

THEOREM Inductive == Spec => []Invariant
<1>1. Init => Invariant
  <2>1. Init => merged = NothingMerged /\ Published
    BY DEF Init, Published
  <2> QED
    BY <2>1, InitControl, DispatchInit, BooksInit, MergedNothing DEF Invariant
<1>2. Invariant /\ [Next]_vars => Invariant'
  BY ControlStep, DispatchStep, BooksStep, MergedStep, PublishedStep DEF Invariant
<1> QED  BY <1>1, <1>2, PTL DEF Spec

(* Once every worker has left, every request has been answered. *)
LEMMA AllAnswered ==
  ASSUME Invariant, pc \in After
  PROVE  \A k \in Requests : answer[k] # None
<1>1. PICK w \in Workers : wpc[w] = "exited"
  BY DEF Invariant, TypeOK, Control, PathOK, WorkersOK, Workers, Before, After
<1>2. taken = Iterations(cfg) /\ \A v \in Workers : wpc[v] # "call"
  BY <1>1 DEF Invariant, Control, WorkersOK
<1>3. Iterations(cfg) \in Nat
  BY EffectiveWorkersType DEF Invariant, TypeOK
<1> QED
  BY <1>2, <1>3 DEF Invariant, Dispatch, Calling, Requests

(* A worker calls fn only while the clock runs. *)
LEMMA ClockRuns ==
  ASSUME Invariant, NEW w \in Workers, wpc[w] = "call"
  PROVE  pc \in Timing /\ clock = "running"
<1>1. pc \notin Before /\ pc # "spawn" /\ pc \notin After
  BY DEF Invariant, TypeOK, Control, Untouched, WorkersOK, Workers
<1> QED
  BY <1>1 DEF Invariant, TypeOK, Control, PathOK, Before, After, Timing

LEMMA ExactFromInvariant == Invariant => ResultExact
<1> SUFFICES ASSUME Invariant, pc = "done" PROVE ResultExact
  BY DEF ResultExact
<1>1. \A k \in Requests : answer[k] \in Answers
  BY AllAnswered DEF Invariant, TypeOK, After
<1>2. merged.shard = workers /\ merged \in MergeState
  BY DEF Invariant, TypeOK, Control, MergeOK
<1>3. /\ merged.durations \in Seq(Requests) /\ merged.failureDurations \in Seq(Requests)
  BY <1>2 DEF MergeState
<1>4. \A s \in Seq(Requests) : Range(s) \subseteq Requests
  BY DEF Range
<1>5. Range(merged.durations) = AnsweredOk
  <2>1. Range(merged.durations) = UNION {Timed(w) : w \in Workers}
    BY <1>2 DEF Invariant, MergedSoFar, Workers
  <2>2. \A k \in Range(merged.durations) : k \in Requests /\ answer[k] = Ok
    BY <1>3, <1>4, <2>1 DEF Invariant, Books, Filed
  <2> QED  BY <2>1, <2>2 DEF AnsweredOk, Invariant, Books, Filed
<1>6. Range(merged.failureDurations) = AnsweredError
  <2>1. Range(merged.failureDurations) = UNION {Failing(w) : w \in Workers}
    BY <1>2 DEF Invariant, MergedSoFar, Workers
  <2>2. \A k \in Range(merged.failureDurations) : k \in Requests /\ answer[k] \in Errors
    BY <1>3, <1>4, <2>1 DEF Invariant, Books, Filed
  <2> QED  BY <2>1, <2>2 DEF AnsweredError, Invariant, Books, Filed
<1>7. /\ merged.nSuccess = Cardinality(AnsweredOk)
      /\ merged.nFailure = Cardinality(AnsweredError)
  BY <1>3, <1>5, <1>6, InjectiveLength DEF Invariant, MergedSoFar
<1>8. \A c \in Classes : merged.errors[c] = Cardinality(AnsweredAs(c))
  BY <1>6 DEF Invariant, MergedSoFar, OfClass, AnsweredAs
<1>9. AnsweredOk \cup AnsweredError = Requests
  BY <1>1 DEF AnsweredOk, AnsweredError, Answers
<1>10. Cardinality(AnsweredOk) + Cardinality(AnsweredError) = Iterations(cfg)
  <2>1. IsFiniteSet(Requests) /\ Cardinality(Requests) = Iterations(cfg)
    <3>1. Iterations(cfg) \in Nat
      BY EffectiveWorkersType DEF Invariant, TypeOK
    <3> QED  BY <3>1, FS_Interval DEF Requests
  <2>2. IsFiniteSet(AnsweredOk) /\ IsFiniteSet(AnsweredError)
    BY <1>9, <2>1, FS_Subset
  <2>3. AnsweredOk \cap AnsweredError = {}
    BY ErrorAssumption DEF AnsweredOk, AnsweredError
  <2>4. Cardinality(AnsweredOk) \in Nat /\ Cardinality(AnsweredError) \in Nat
    BY <2>2, FS_CardinalityType
  <2>5. Cardinality(Requests)
          = Cardinality(AnsweredOk) + Cardinality(AnsweredError) - Cardinality({})
    BY <1>9, <2>2, <2>3, FS_Union
  <2> QED  BY <2>1, <2>4, <2>5, FS_EmptySet
<1>11. cfg.requests >= 0 => result.requestCount = result.successCount + result.failureCount
  <2>1. cfg.requests \in Int
    BY ConfigAssumption DEF Invariant, TypeOK
  <2>2. cfg.requests >= 0 => Iterations(cfg) = cfg.requests
    BY <2>1 DEF Iterations
  <2> QED  BY <1>7, <1>10, <2>2 DEF Invariant, Published
<1> QED
  BY <1>5, <1>6, <1>7, <1>8, <1>9, <1>11 DEF ResultExact, Invariant, MergedSoFar, Published

(***************************************************************************)
(* The clock runs for as long as any timed call of fn is under way, and is *)
(* not stopped before the last request has returned: for every number of   *)
(* requests and workers, TotalSeconds covers exactly the timed phase.      *)
(***************************************************************************)
THEOREM ClockCorrect == Spec => []ClockCoversCalls
<1>1. Invariant => ClockCoversCalls
  <2> SUFFICES ASSUME Invariant PROVE ClockCoversCalls
    OBVIOUS
  <2>1. InFlight # {} => clock = "running"
    BY ClockRuns DEF InFlight
  <2>2. clock = "stopped" => \A k \in Requests : answer[k] # None
    BY AllAnswered DEF Invariant, Control, PathOK
  <2> QED  BY <2>1, <2>2 DEF ClockCoversCalls
<1> QED  BY <1>1, Inductive, PTL

(***************************************************************************)
(* The Result RunConcurrent and Run return is an exact account of what the *)
(* requests returned.                                                      *)
(***************************************************************************)
THEOREM ResultCorrect == Spec => []ResultExact
BY ExactFromInvariant, Inductive, PTL

-----------------------------------------------------------------------------
(***************************************************************************)
(* Places where k stands in a family of sequences without repetition whose *)
(* ranges are disjoint: one if it stands anywhere, none otherwise.         *)
(***************************************************************************)
IsFamily(W, f, n) ==
  /\ \A w \in W : f[w] \in Seq(1..n) /\ IsInjective(f[w])
  /\ \A v, w \in W : v # w => Range(f[v]) \cap Range(f[w]) = {}

ArePlaces(P, W, f, n, k) ==
  \A v : v \in P <=> v \in W \X (1..n) /\ v[2] <= Len(f[v[1]]) /\ f[v[1]][v[2]] = k

LEMMA Places ==
  ASSUME NEW W, NEW f, NEW n \in Nat, NEW k, NEW P,
         IsFamily(W, f, n), ArePlaces(P, W, f, n, k)
  PROVE  Cardinality(P) = IF \E w \in W : k \in Range(f[w]) THEN 1 ELSE 0
<1> USE DEF IsFamily, ArePlaces
<1>1. \A w \in W : /\ Len(f[w]) \in Nat /\ DOMAIN f[w] = 1..Len(f[w])
                   /\ \A j \in 1..n : j <= Len(f[w]) => j \in DOMAIN f[w]
  OBVIOUS
<1>2. ASSUME NEW v \in P PROVE k \in Range(f[v[1]]) /\ v[1] \in W
  BY <1>1, <1>2 DEF Range
<1>3. CASE \E w \in W : k \in Range(f[w])
  <2>1. PICK w \in W : k \in Range(f[w])
    BY <1>3
  <2>2. PICK i \in 1..Len(f[w]) : f[w][i] = k
    BY <1>1, <2>1 DEF Range
  <2>3. Len(f[w]) <= n
    <3>1. IsFiniteSet(Range(f[w])) /\ Cardinality(Range(f[w])) = Len(f[w])
      BY InjectiveLength
    <3>2. Range(f[w]) \subseteq 1..n
      BY <1>1 DEF Range
    <3>3. IsFiniteSet(1..n) /\ Cardinality(1..n) = n
      BY FS_Interval
    <3> QED  BY <3>1, <3>2, <3>3, FS_Subset
  <2>4. <<w, i>> \in P
    BY <1>1, <2>2, <2>3
  <2>5. ASSUME NEW v \in P PROVE v = <<w, i>>
    <3>1. v[1] = w
      BY <1>2, <2>1, <2>5
    <3>2. v[2] = i
      BY <1>1, <2>2, <2>5, <3>1 DEF IsInjective
    <3> QED  BY <2>5, <3>1, <3>2
  <2>6. P = {<<w, i>>}
    BY <2>4, <2>5
  <2> QED  BY <1>3, <2>6, FS_Singleton
<1>4. CASE ~ \E w \in W : k \in Range(f[w])
  <2>1. P = {}
    BY <1>2, <1>4
  <2> QED  BY <1>4, <2>1, FS_EmptySet
<1> QED  BY <1>3, <1>4

(***************************************************************************)
(* At every moment each answered request is in one place of one shard,     *)
(* under its own head, and every other request is in none.                 *)
(***************************************************************************)
THEOREM ShardsCorrect == Spec => []ShardsExact
<1>1. Invariant => ShardsExact
  <2> SUFFICES ASSUME Invariant, NEW k \in Requests
               PROVE  /\ Times(Successes, k) = IF answer[k] = Ok THEN 1 ELSE 0
                      /\ Times(Failures, k) = IF answer[k] \in Errors THEN 1 ELSE 0
    BY DEF ShardsExact
  <2> DEFINE s == [w \in Workers |-> shards[w].success]
             f == [w \in Workers |-> shards[w].failure]
             n == Iterations(cfg)
  <2>1. n \in Nat /\ Requests = 1..n
    BY EffectiveWorkersType DEF Invariant, TypeOK, Requests
  <2>2. \A w \in Workers : s[w] \in Seq(1..n) /\ f[w] \in Seq(1..n)
    BY <2>1 DEF Invariant, TypeOK, Shard
  <2>3. /\ \A w \in Workers : IsInjective(s[w]) /\ IsInjective(f[w])
        /\ \A w \in Workers : Range(s[w]) = Timed(w) /\ Range(f[w]) = Failing(w)
    BY DEF Invariant, Books, Filed, Timed, Failing
  <2>4. /\ \A v, w \in Workers : v # w => Range(s[v]) \cap Range(s[w]) = {}
        /\ \A v, w \in Workers : v # w => Range(f[v]) \cap Range(f[w]) = {}
        /\ answer[k] = Ok <=> \E w \in Workers : k \in Range(s[w])
        /\ answer[k] \in Errors <=> \E w \in Workers : k \in Range(f[w])
    BY <2>3 DEF Invariant, Books, Filed
  <2>5. /\ \A w \in Workers : s[w] = Successes(shards[w])
        /\ \A w \in Workers : f[w] = Failures(shards[w])
    BY DEF Successes, Failures
  <2> HIDE DEF s, f, n
  <2>6. Times(Successes, k) = IF answer[k] = Ok THEN 1 ELSE 0
    <3> DEFINE P == {v \in Workers \X Requests :
                       v[2] <= Len(Successes(shards[v[1]])) /\ Successes(shards[v[1]])[v[2]] = k}
    <3>1. ArePlaces(P, Workers, s, n, k)
      BY <2>1, <2>5 DEF ArePlaces
    <3>2. Times(Successes, k) = Cardinality(P)
      BY DEF Times
    <3> HIDE DEF P
    <3>3. Cardinality(P) = IF \E w \in Workers : k \in Range(s[w]) THEN 1 ELSE 0
      <4>1. IsFamily(Workers, s, n)
        BY <2>2, <2>3, <2>4 DEF IsFamily
      <4>2. n \in Nat
        BY <2>1
      <4> QED  BY <3>1, <4>1, <4>2, Places
    <3> QED  BY <2>4, <3>2, <3>3
  <2>7. Times(Failures, k) = IF answer[k] \in Errors THEN 1 ELSE 0
    <3> DEFINE P == {v \in Workers \X Requests :
                       v[2] <= Len(Failures(shards[v[1]])) /\ Failures(shards[v[1]])[v[2]] = k}
    <3>1. ArePlaces(P, Workers, f, n, k)
      BY <2>1, <2>5 DEF ArePlaces
    <3>2. Times(Failures, k) = Cardinality(P)
      BY DEF Times
    <3> HIDE DEF P
    <3>3. Cardinality(P) = IF \E w \in Workers : k \in Range(f[w]) THEN 1 ELSE 0
      <4>1. IsFamily(Workers, f, n)
        BY <2>2, <2>3, <2>4 DEF IsFamily
      <4>2. n \in Nat
        BY <2>1
      <4> QED  BY <3>1, <4>1, <4>2, Places
    <3> QED  BY <2>4, <3>2, <3>3
  <2> QED  BY <2>6, <2>7
<1> QED  BY <1>1, Inductive, PTL

-----------------------------------------------------------------------------
(***************************************************************************)
(* The runner implements Benchmark: seen through PhaseOf and ReportOf,     *)
(* every step of Runner is a step of Benchmark or changes nothing there.   *)
(***************************************************************************)
LEMMA SameCardinality == \A S : Promise!Cardinality(S) = Cardinality(S)
BY DEF Promise!Cardinality, Cardinality, Promise!IsFiniteSet, IsFiniteSet

LEMMA InitMaps == Init => Promise!BenchmarkInit
BY DEF Init, Promise!BenchmarkInit, PhaseOf, ReportOf, Requests, Iterations, Promise!Iterations

Unseen == UNCHANGED <<cfg, PhaseOf, answer, ReportOf>>

(* A step that stays in its phase and leaves answer and result alone is not seen. *)
LEMMA SamePhase ==
  ASSUME UNCHANGED <<cfg, answer, result>>, PhaseOf' = PhaseOf, pc' = "done" <=> pc = "done"
  PROVE  Unseen
BY DEF Unseen, ReportOf

(* A timed request returns. *)
LEMMA ReturnMaps ==
  ASSUME Invariant, NEW w \in Workers, NEW o \in Answers, Return(w, o)
  PROVE  \E k \in DOMAIN answer, a \in Errors \cup {Ok} : Promise!Answer(k, a)
<1>1. /\ cur[w] \in Requests /\ answer[cur[w]] = None /\ DOMAIN answer = Requests
      /\ answer' = [answer EXCEPT ![cur[w]] = o]
      /\ UNCHANGED <<cfg, pc, result>>
  BY EffectiveWorkersType
  DEF Return, Invariant, TypeOK, Control, WorkersOK, Dispatch, Calling, Requests, mainVars
<1>2. PhaseOf = "timed"
  <2>1. pc \in Timing
    BY ClockRuns DEF Return
  <2> QED  BY <2>1 DEF PhaseOf, Timing
<1>3. UNCHANGED <<PhaseOf, ReportOf>>
  BY <1>1 DEF PhaseOf, ReportOf
<1> QED
  BY <1>1, <1>2, <1>3 DEF Promise!Answer, Answers

(* The account handed back is the one an observer of the answers would give. *)
LEMMA FinishMaps ==
  ASSUME Invariant, Invariant', FinishMerge
  PROVE  Promise!Publish
<1>1. /\ pc = "collect" /\ pc' = "done"
      /\ UNCHANGED <<cfg, answer, shards>>
  BY DEF FinishMerge, callVars
<1>2. PhaseOf = "timed" /\ PhaseOf' = "reported"
  BY <1>1 DEF PhaseOf
<1>3. \A k \in DOMAIN answer : answer[k] # None
  BY <1>1, AllAnswered DEF Invariant, TypeOK, After
<1>4. ResultExact' /\ Published'
  <2>1. (Invariant => ResultExact)'
    BY ExactFromInvariant, PTL
  <2> QED  BY <2>1 DEF Invariant
<1>5. DOMAIN answer = Requests /\ Requests' = Requests
  BY <1>1 DEF Invariant, TypeOK, Requests, Iterations
<1>6. /\ result'.requestCount = cfg.requests
      /\ result'.successCount = Cardinality(AnsweredOk)
      /\ result'.failureCount = Cardinality(AnsweredError)
      /\ Range(result'.durations) = AnsweredOk
      /\ Range(result'.failureDurations) = AnsweredError
      /\ \A c \in Classes : result'.errors[c] = Cardinality(AnsweredAs(c))
  BY <1>1, <1>4, <1>5 DEF ResultExact, Published, AnsweredOk, AnsweredError, AnsweredAs
<1>7. result'.errors = [c \in Classes |-> Cardinality(AnsweredAs(c))]
  <2>1. result'.errors \in [Classes -> Nat]
    BY <1>1 DEF Invariant, TypeOK, MergeState, Published
  <2> QED  BY <1>6, <2>1
<1>8. ReportOf' = Promise!Account(cfg, answer)
  <2>1. /\ Promise!Answered(answer, Ok) = AnsweredOk
        /\ Promise!Failed(answer) = AnsweredError
        /\ \A c : Promise!FailedAs(answer, c) = AnsweredAs(c)
    BY <1>5 DEF Promise!Answered, Promise!Failed, Promise!FailedAs,
                AnsweredOk, AnsweredError, AnsweredAs
  <2>2. [cl \in Classes |-> Cardinality(Promise!FailedAs(answer, cl))]
          = [c \in Classes |-> Cardinality(AnsweredAs(c))]
    BY <2>1
  <2>3. ReportOf' = [ requestCount |-> cfg.requests,
                      successCount |-> Cardinality(AnsweredOk),
                      failureCount |-> Cardinality(AnsweredError),
                      timed        |-> AnsweredOk,
                      timedFailed  |-> AnsweredError,
                      errors       |-> [c \in Classes |-> Cardinality(AnsweredAs(c))] ]
    BY <1>1, <1>6, <1>7 DEF ReportOf
  <2>4. Promise!Account(cfg, answer) =
          [ requestCount |-> cfg.requests,
            successCount |-> Cardinality(Promise!Answered(answer, Ok)),
            failureCount |-> Cardinality(Promise!Failed(answer)),
            timed        |-> Promise!Answered(answer, Ok),
            timedFailed  |-> Promise!Failed(answer),
            errors       |-> [cl \in Classes |-> Cardinality(Promise!FailedAs(answer, cl))] ]
    BY SameCardinality DEF Promise!Account
  <2> QED
    BY <2>1, <2>2, <2>3, <2>4
<1> QED
  BY <1>1, <1>2, <1>3, <1>8 DEF Promise!Publish

LEMMA StepMaps ==
  Invariant /\ Invariant' /\ [Next]_vars
    => Promise!BenchmarkNext \/ Unseen
<1> SUFFICES ASSUME Invariant, Invariant', [Next]_vars
             PROVE  Promise!BenchmarkNext \/ Unseen
  OBVIOUS
<1>1. CASE Allocate
  <2>1. PhaseOf = "warmup" /\ PhaseOf' = "timed" /\ UNCHANGED <<cfg, answer>>
    BY <1>1 DEF Allocate, PhaseOf
  <2>2. ReportOf = None /\ ReportOf' = None
    BY <1>1 DEF Allocate, ReportOf
  <2> QED  BY <2>1, <2>2 DEF Promise!BenchmarkNext, Promise!Begin
<1>2. CASE PanicOnNegativeCapacity \/ EndWarmup
  <2>1. /\ PhaseOf = "warmup" /\ PhaseOf' \in {"warmup", "aborted", "crashed"}
        /\ ReportOf = None /\ ReportOf' = None
        /\ UNCHANGED <<cfg, answer>>
    BY <1>2 DEF PanicOnNegativeCapacity, EndWarmup, PhaseOf, ReportOf, callVars
  <2> QED  BY <2>1 DEF Promise!BenchmarkNext, Promise!Reject, Unseen
<1>3. CASE \E w \in Workers, o \in Answers : Return(w, o)
  BY <1>3, ReturnMaps DEF Promise!BenchmarkNext
<1>4. CASE FinishMerge
  BY <1>4, FinishMaps DEF Promise!BenchmarkNext
<1>5. CASE \/ SkipWarmup \/ StartWarmup \/ StopWarmup
           \/ \E o \in Answers : WarmupRequest(o)
  BY <1>5, SamePhase
  DEF SkipWarmup, StartWarmup, StopWarmup, WarmupRequest, callVars, mainVars, PhaseOf
<1>6. CASE \/ PlainIterate \/ PlainEnd \/ Spawn \/ Send \/ CloseJobs
           \/ WaitWorkers \/ JoinProgress \/ MergeShard \/ CollectSample
  BY <1>6, SamePhase
  DEF PlainIterate, PlainEnd, Spawn, Send, CloseJobs, WaitWorkers, JoinProgress,
      MergeShard, CollectSample, callVars, mainVars, PhaseOf
<1>7. CASE \/ Ticker \/ UNCHANGED vars
           \/ \E w \in Workers : Goroutine(w)
  BY <1>7, SamePhase
  DEF Ticker, Goroutine, Receive, Count, Exit, callVars, mainVars, vars, PhaseOf
<1> QED
  BY <1>1, <1>2, <1>3, <1>4, <1>5, <1>6, <1>7 DEF Next, Main, Terminated

(***************************************************************************)
(* For every configuration: what Run and RunConcurrent do to the outside,  *)
(* the warmup's verdict, the answers and the report, is a behaviour of     *)
(* Benchmark.                                                              *)
(***************************************************************************)
THEOREM RunnerImplementsBenchmark == Spec => ImplementsBenchmark
<1>1. Init => Promise!BenchmarkInit
  BY InitMaps
<1>2. Invariant /\ Invariant' /\ [Next]_vars
        => [Promise!BenchmarkNext]_(Promise!benchmarkVars)
  BY StepMaps DEF Promise!benchmarkVars, Unseen
<1> QED
  BY <1>1, <1>2, Inductive, PTL DEF Spec, ImplementsBenchmark, Promise!BenchmarkSpec

=============================================================================
