------------------------- MODULE RunnerDisplayProofs -------------------------
(***************************************************************************)
(* What a user sees of a run is true: the progress line while it works,    *)
(* and the error samples of its Result.                                    *)
(***************************************************************************)
EXTENDS RunnerProofs

-----------------------------------------------------------------------------
(***************************************************************************)
(* The progress line.                                                      *)
(***************************************************************************)
(* A progress line is being drawn: startProgress was called, Stop has not returned. *)
Drawing ==
  pc \in {"warmup", "warmupStop", "spawn", "plain", "send", "wait", "join"}

Answered == {k \in Requests : answer[k] # None}
Uncounted == {w \in Workers : wpc[w] = "count"}   \* between record and done.Add

(* What the goroutine has loaded is not behind the line, nor the counter behind it. *)
Line ==
  /\ rpc # "off" => Drawing
  /\ Drawing => ~screen.final /\ screen.n <= done
  /\ rpc = "render" => screen.n <= loaded /\ loaded <= done

(* The counter is behind the answers by the workers that have yet to add. *)
Tally == workers > 0 => done + Cardinality(Uncounted) = Cardinality(Answered)

ClosingLine ==
  workers > 0 /\ ~Drawing => screen = [n |-> Iterations(cfg), final |-> TRUE]

Display == Line /\ Tally /\ ClosingLine

LEMMA LineInit == Init => Line
BY DEF Init, ProgressInit, Line, Drawing

(* What a step may do to the progress line, and where the caller then is. *)
LEMMA LineMoves ==
  ASSUME TypeOK, Control, Line, [Next]_vars
  PROVE  \/ /\ UNCHANGED progressVars
            /\ Drawing' = Drawing
         \/ /\ AddDone /\ Drawing /\ Drawing'
         \/ /\ CloseStop /\ Drawing /\ Drawing'
         \/ /\ FinishStop /\ Drawing /\ ~Drawing'
            /\ pc = "join" \/ workers = 0
         \/ /\ StartProgress /\ pc \in {"start", "ready"} /\ Drawing'
         \/ /\ RenderLoop /\ UNCHANGED <<cfg, pc, workers, wpc, answer>>
<1> USE DEF Drawing
<1>0. workers = 0 \/ pc \notin Before
  BY DEF Control, Untouched
<1>1. CASE \/ SkipWarmup \/ PanicOnNegativeCapacity \/ PlainIterate \/ Spawn \/ Send
           \/ CloseJobs \/ CollectSample \/ FinishMerge \/ UNCHANGED vars
  BY <1>1
  DEF SkipWarmup, PanicOnNegativeCapacity, PlainIterate, Spawn, Send, CloseJobs,
      CollectSample, FinishMerge, vars
<1>1a. CASE MergeShard
  <2>1. pc = "merge" /\ pc' \in {"merge", "collect"} /\ UNCHANGED progressVars
    BY <1>1a DEF MergeShard
  <2> QED  BY <2>1
<1>2. ASSUME NEW w \in Workers, Receive(w) \/ Exit(w) \/ \E o \in Answers : Return(w, o)
      PROVE  UNCHANGED progressVars /\ Drawing' = Drawing
  BY <1>2 DEF Receive, Exit, Return
<1>3. ASSUME NEW o \in Answers, WarmupRequest(o)
      PROVE  AddDone /\ Drawing /\ Drawing'
  BY <1>3 DEF WarmupRequest
<1>4. ASSUME NEW w \in Workers, Count(w)
      PROVE  AddDone /\ Drawing /\ Drawing'
  <2>1. pc \notin Before /\ pc \notin After
    BY <1>4 DEF Count, TypeOK, Control, Untouched, WorkersOK, Workers
  <2> QED  BY <1>4, <2>1 DEF Count, TypeOK, Before, After
<1>5. CASE StopWarmup \/ PlainEnd \/ WaitWorkers
  BY <1>5 DEF StopWarmup, PlainEnd, WaitWorkers
<1>6. CASE EndWarmup \/ JoinProgress
  BY <1>0, <1>6 DEF EndWarmup, JoinProgress, Before
<1>7. CASE StartWarmup \/ Allocate
  BY <1>7 DEF StartWarmup, Allocate
<1>8. CASE Ticker
  BY <1>8 DEF Ticker, callVars, poolVars, mainVars
<1> QED
  BY <1>1, <1>1a, <1>2, <1>3, <1>4, <1>5, <1>6, <1>7, <1>8
  DEF Next, Main, Goroutine, Terminated

LEMMA LineStep ==
  TypeOK /\ Control /\ Line /\ [Next]_vars => Line'
<1> SUFFICES ASSUME TypeOK, Control, Line, [Next]_vars PROVE Line'
  OBVIOUS
<1>0. done \in Nat /\ loaded \in Nat /\ screen \in [n: Nat, final: BOOLEAN]
  BY DEF TypeOK, ProgressTypeOK
<1>1. CASE UNCHANGED progressVars /\ Drawing' = Drawing
  BY <1>1 DEF Line, progressVars
<1>2. CASE AddDone /\ Drawing /\ Drawing'
  BY <1>0, <1>2 DEF AddDone, Line
<1>3. CASE CloseStop /\ Drawing /\ Drawing'
  BY <1>3 DEF CloseStop, Line
<1>4. CASE FinishStop /\ ~Drawing'
  BY <1>4 DEF FinishStop, Line
<1>5. CASE StartProgress /\ Drawing'
  BY <1>5 DEF StartProgress, Line
<1>6. CASE RenderLoop /\ UNCHANGED pc
  BY <1>0, <1>6 DEF RenderLoop, Tick, Render, Quit, Line, Drawing
<1> QED
  BY LineMoves, <1>1, <1>2, <1>3, <1>4, <1>5, <1>6

LEMMA TallyInit == Init => Tally
BY DEF Init, Tally

LEMMA TallyStep ==
  TypeOK /\ Control /\ Dispatch /\ Tally /\ [Next]_vars => Tally'
<1> SUFFICES ASSUME TypeOK, Control, Dispatch, Tally, [Next]_vars, workers' > 0
             PROVE  done' + Cardinality(Uncounted') = Cardinality(Answered')
  BY DEF Tally
<1>0. /\ done \in Nat /\ workers \in Nat /\ Iterations(cfg) \in Nat
      /\ wpc \in [Workers -> {"recv", "call", "count", "exited"}]
      /\ answer \in [Requests -> Answers \cup {None}]
  BY EffectiveWorkersType DEF TypeOK, ProgressTypeOK
<1>1. /\ IsFiniteSet(Uncounted) /\ Cardinality(Uncounted) \in Nat
      /\ IsFiniteSet(Answered) /\ Cardinality(Answered) \in Nat
  <2>1. IsFiniteSet(Workers) /\ IsFiniteSet(Requests)
    BY <1>0, FS_Interval DEF Workers, Requests
  <2>2. Uncounted \in SUBSET Workers /\ Answered \in SUBSET Requests
    BY DEF Uncounted, Answered
  <2> QED  BY <2>1, <2>2, FS_Subset, FS_CardinalityType
<1>2. workers = 0 \/ pc \notin Before
  BY DEF Control, Untouched
<1>3. ASSUME UNCHANGED <<cfg, done, wpc, answer, workers>>
      PROVE  done' + Cardinality(Uncounted') = Cardinality(Answered')
  BY <1>3 DEF Tally, Uncounted, Answered, Workers, Requests, Iterations
<1>4. ASSUME UNCHANGED <<cfg, done, answer, workers>>, NEW w \in Workers,
             NEW at \in {"recv", "call", "exited"},
             wpc[w] # "count", wpc' = [wpc EXCEPT ![w] = at]
      PROVE  done' + Cardinality(Uncounted') = Cardinality(Answered')
  <2>1. Uncounted' = Uncounted
    BY <1>0, <1>4 DEF Uncounted, Workers
  <2>2. Answered' = Answered
    BY <1>4 DEF Answered, Requests, Iterations
  <2> QED  BY <1>4, <2>1, <2>2 DEF Tally
<1>5. CASE Allocate
  <2>1. /\ done' = 0 /\ answer' = answer /\ cfg' = cfg
        /\ \A w \in Workers' : wpc'[w] = "recv"
    BY <1>5 DEF Allocate, StartProgress, Workers
  <2>2. answer = [k \in Requests |-> None]
    BY <1>5 DEF Allocate, Control, Untouched, Before
  <2>3. Uncounted' = {} /\ Answered' = {}
    BY <2>1, <2>2 DEF Uncounted, Answered, Requests, Iterations
  <2> QED  BY <2>1, <2>3, FS_EmptySet
<1>6. ASSUME NEW w \in Workers, NEW o \in Answers, Return(w, o)
      PROVE  done' + Cardinality(Uncounted') = Cardinality(Answered')
  <2>1. /\ wpc[w] = "call" /\ wpc' = [wpc EXCEPT ![w] = "count"]
        /\ answer' = [answer EXCEPT ![cur[w]] = o]
        /\ UNCHANGED <<cfg, done, workers>>
    BY <1>6 DEF Return, progressVars, mainVars
  <2>2. cur[w] \in Requests /\ answer[cur[w]] = None /\ o # None
    BY <1>0, <2>1, ErrorAssumption
    DEF Control, WorkersOK, Dispatch, Calling, Answers, Requests, TypeOK
  <2>3. Uncounted' = Uncounted \cup {w} /\ w \notin Uncounted
    BY <1>0, <2>1 DEF Uncounted, Workers
  <2>4. Answered' = Answered \cup {cur[w]} /\ cur[w] \notin Answered
    BY <1>0, <2>1, <2>2 DEF Answered, Requests, Iterations
  <2>5. /\ Cardinality(Uncounted') = Cardinality(Uncounted) + 1
        /\ Cardinality(Answered') = Cardinality(Answered) + 1
    BY <1>1, <2>3, <2>4, FS_AddElement
  <2> QED  BY <1>0, <1>1, <2>1, <2>5 DEF Tally
<1>7. ASSUME NEW w \in Workers, Count(w)
      PROVE  done' + Cardinality(Uncounted') = Cardinality(Answered')
  <2>1. /\ wpc[w] = "count" /\ wpc' = [wpc EXCEPT ![w] = "recv"]
        /\ done' = done + 1 /\ UNCHANGED <<cfg, answer, workers>>
    BY <1>7 DEF Count, AddDone, callVars, mainVars
  <2>2. Uncounted' = Uncounted \ {w} /\ w \in Uncounted
    BY <1>0, <2>1 DEF Uncounted, Workers
  <2>3. Answered' = Answered
    BY <2>1 DEF Answered, Requests, Iterations
  <2>4. Cardinality(Uncounted') = Cardinality(Uncounted) - 1
    BY <1>1, <2>2, FS_RemoveElement
  <2> QED  BY <1>0, <1>1, <2>1, <2>3, <2>4 DEF Tally
<1>8. ASSUME NEW w \in Workers, Receive(w) \/ Exit(w)
      PROVE  done' + Cardinality(Uncounted') = Cardinality(Answered')
  BY <1>4, <1>8 DEF Receive, Begin, Exit, progressVars, callVars, mainVars
<1>9. CASE PlainIterate \/ PlainEnd
  <2>1. 1 \in Workers
    BY <1>0, <1>9 DEF PlainIterate, PlainEnd, Control, PathOK, Workers
  <2> QED
    BY <1>4, <1>9, <2>1
    DEF PlainIterate, PlainEnd, Begin, CloseStop, progressVars, callVars, mainVars
<1>10. CASE \/ SkipWarmup \/ StopWarmup \/ EndWarmup \/ PanicOnNegativeCapacity
            \/ Spawn \/ Send \/ CloseJobs \/ WaitWorkers \/ JoinProgress
            \/ MergeShard \/ CollectSample \/ FinishMerge \/ Ticker \/ UNCHANGED vars
  BY <1>3, <1>10
  DEF SkipWarmup, StopWarmup, EndWarmup, PanicOnNegativeCapacity, Spawn, Send, CloseJobs,
      WaitWorkers, JoinProgress, MergeShard, CollectSample, FinishMerge, Ticker,
      CloseStop, FinishStop, RenderLoop, Tick, Render, Quit,
      vars, progressVars, callVars, poolVars, mainVars
<1>11. CASE StartWarmup \/ \E o \in Answers : WarmupRequest(o)
  BY <1>2, <1>11 DEF StartWarmup, WarmupRequest, Before, mainVars
<1> QED
  BY <1>5, <1>6, <1>7, <1>8, <1>9, <1>10, <1>11
  DEF Next, Main, Goroutine, Terminated

LEMMA ClosingInit == Init => ClosingLine
BY DEF Init, ClosingLine

(***************************************************************************)
(* When Stop draws the closing line of the timed phase every worker has    *)
(* exited, so every request is answered and counted.                       *)
(***************************************************************************)
LEMMA ClosingStep ==
  Invariant /\ Display /\ [Next]_vars => ClosingLine'
<1> SUFFICES ASSUME Invariant, Display, [Next]_vars, workers' > 0, ~Drawing'
             PROVE  screen' = [n |-> Iterations(cfg'), final |-> TRUE]
  BY DEF ClosingLine
<1>0. TypeOK /\ Control /\ Line /\ Tally /\ ClosingLine /\ Iterations(cfg) \in Nat
  BY EffectiveWorkersType DEF Invariant, Display, TypeOK
<1>1. cfg' = cfg /\ (workers' = workers \/ Allocate)
  BY DEF Next, Main, Goroutine, Terminated, Ticker, SkipWarmup, StartWarmup, StopWarmup,
         EndWarmup, PanicOnNegativeCapacity, PlainIterate, PlainEnd, Allocate,
         Spawn, Send, CloseJobs, WaitWorkers, JoinProgress, MergeShard, CollectSample,
         FinishMerge, WarmupRequest, Receive, Count, Exit, Return, vars, mainVars
<1>2. ~Allocate
  BY DEF Allocate, Drawing
<1>3. CASE FinishStop /\ Drawing /\ pc = "join"
  <2>1. Answered = Requests /\ Uncounted = {}
    BY <1>0, <1>3, AllAnswered DEF After, Control, WorkersOK, Answered, Uncounted
  <2>2. Cardinality(Answered) = Iterations(cfg) /\ Cardinality(Uncounted) = 0
    BY <1>0, <2>1, FS_Interval, FS_EmptySet DEF Requests
  <2>3. done = Iterations(cfg)
    BY <1>0, <1>1, <1>2, <2>2 DEF Tally, TypeOK, ProgressTypeOK
  <2> QED  BY <1>1, <1>3, <2>3 DEF FinishStop
<1>4. CASE UNCHANGED progressVars /\ Drawing' = Drawing
  BY <1>0, <1>1, <1>2, <1>4 DEF ClosingLine, progressVars
<1>5. CASE RenderLoop /\ UNCHANGED pc
  BY <1>0, <1>1, <1>2, <1>5
  DEF ClosingLine, Line, Drawing, RenderLoop, Tick, Render, Quit
<1> QED
  BY <1>0, <1>1, <1>2, <1>3, <1>4, <1>5, LineMoves

(***************************************************************************)
(* The line, the counter it is drawn from and the moment of its closing    *)
(* agree in every state, whatever startProgress's goroutine is in the      *)
(* middle of when Stop is called.                                          *)
(***************************************************************************)
THEOREM DisplayInductive == Spec => [](Invariant /\ Display)
<1>1. Init => Display
  BY LineInit, TallyInit, ClosingInit DEF Display
<1>2. Invariant /\ Display /\ [Next]_vars => Display'
  BY LineStep, TallyStep, ClosingStep DEF Display, Invariant
<1> QED  BY <1>1, <1>2, Inductive, PTL DEF Spec

(***************************************************************************)
(* The progress line counts no request that has not returned, and its      *)
(* closing line counts them all, for any number of workers and of ticks.   *)
(***************************************************************************)
THEOREM ScreenIsHonest == Spec => []ScreenHonest
<1>1. Invariant /\ Display => ScreenHonest
  <2> SUFFICES ASSUME Invariant, Display, workers > 0 PROVE ScreenHonest
    BY DEF ScreenHonest
  <2>1. /\ done \in Nat /\ screen \in [n: Nat, final: BOOLEAN]
        /\ Iterations(cfg) \in Nat /\ workers \in Nat
    BY EffectiveWorkersType DEF Invariant, TypeOK, ProgressTypeOK
  <2>2. Cardinality(Uncounted) \in Nat
    <3>1. IsFiniteSet(Workers)
      BY <2>1, FS_Interval DEF Workers
    <3>2. Uncounted \in SUBSET Workers
      BY DEF Uncounted
    <3> QED  BY <3>1, <3>2, FS_Subset, FS_CardinalityType
  <2>3. CASE Drawing
    BY <2>1, <2>2, <2>3 DEF Display, Line, Tally, ScreenHonest, Answered
  <2>4. CASE ~Drawing
    <3>1. pc \in After
      BY <2>4 DEF Invariant, TypeOK, Control, Untouched, Before, Drawing, After
    <3>2. Answered = Requests
      BY <3>1, AllAnswered DEF Answered
    <3>3. Cardinality(Answered) = Iterations(cfg)
      BY <2>1, <3>2, FS_Interval DEF Requests
    <3> QED
      BY <2>1, <2>4, <3>3 DEF Display, ClosingLine, ScreenHonest, Answered
  <2> QED  BY <2>3, <2>4
<1> QED  BY <1>1, DisplayInductive, PTL

(***************************************************************************)
(* The progress line never goes back within a phase, and nothing draws     *)
(* over a closing line: Stop joins the goroutine before it draws it.       *)
(***************************************************************************)
THEOREM ScreenMovesForward == Spec => ScreenForward
<1> DEFINE Forward ==
      \/ pc \in {"start", "ready"} /\ screen' = [n |-> 0, final |-> FALSE]
      \/ ~screen.final /\ screen'.n >= screen.n
<1>1. Invariant /\ Display /\ [Next]_vars => [Forward]_screen
  <2> SUFFICES ASSUME Invariant, Display, [Next]_vars PROVE [Forward]_screen
    OBVIOUS
  <2>0. /\ TypeOK /\ Control /\ Line
        /\ done \in Nat /\ loaded \in Nat /\ screen \in [n: Nat, final: BOOLEAN]
    BY DEF Invariant, Display, TypeOK, ProgressTypeOK
  <2>1. CASE UNCHANGED progressVars \/ AddDone \/ CloseStop
    BY <2>1 DEF progressVars, AddDone, CloseStop
  <2>2. CASE FinishStop /\ Drawing
    BY <2>0, <2>2 DEF FinishStop, Line
  <2>3. CASE StartProgress /\ pc \in {"start", "ready"}
    BY <2>3 DEF StartProgress
  <2>4. CASE RenderLoop
    BY <2>0, <2>4 DEF RenderLoop, Tick, Render, Quit, Line
  <2> QED  BY <2>0, <2>1, <2>2, <2>3, <2>4, LineMoves
<1> QED  BY <1>1, DisplayInductive, PTL DEF Spec, ScreenForward

-----------------------------------------------------------------------------
(***************************************************************************)
(* collectSamples.                                                         *)
(***************************************************************************)
HasError(w) == shards[w].samples # <<>>
FirstError(w) == shards[w].samples[1]

Capped == \A w \in Workers : Len(shards[w].samples) <= MaxErrorSamples

(* In the first round only first errors are shown, of all shards visited; *)
(* after it they are all shown.                                           *)
Fair ==
  /\ IsInjective(collected.out)
  /\ Len(collected.out) <= MergedSampleCap
  /\ collected.round = 1 =>
       /\ Range(collected.out) \subseteq FirstErrors
       /\ \A w \in Workers :
            w < collected.at /\ HasError(w) => FirstError(w) \in Range(collected.out)
  /\ collected.round > 1 => FirstErrors \subseteq Range(collected.out)

SamplesShown == pc = "done" => Collected /\ result.errorSamples = collected.out

Sampled == Capped /\ (pc \in {"collect", "done"} => Fair) /\ SamplesShown

LEMMA SampledInit == Init => Sampled
BY EmptySeq, BoundAssumption DEF Init, Sampled, Capped, SamplesShown, Workers

LEMMA CappedStep ==
  TypeOK /\ Control /\ Capped /\ [Next]_vars => Capped'
<1> SUFFICES ASSUME TypeOK, Control, Capped, [Next]_vars PROVE Capped'
  OBVIOUS
<1>1. ASSUME UNCHANGED <<shards, workers>> PROVE Capped'
  BY <1>1 DEF Capped, Workers
<1>2. CASE Allocate
  <2>1. \A w \in Workers' : shards'[w].samples = <<>>
    BY <1>2 DEF Allocate, EmptyShard, Workers
  <2>2. Len(<<>>) <= MaxErrorSamples
    BY BoundAssumption
  <2> QED  BY <2>1, <2>2 DEF Capped
<1>3. ASSUME NEW w \in Workers, NEW o \in Answers, Return(w, o)
      PROVE  Capped'
  <2>1. /\ shards' = [shards EXCEPT ![w] = Record(shards[w], cur[w], o)]
        /\ shards \in [Workers -> Shard] /\ workers' = workers
    BY <1>3 DEF Return, mainVars, TypeOK
  <2>2. shards[w].samples \in Seq(Errors) /\ Len(shards[w].samples) <= MaxErrorSamples
    BY <2>1 DEF Shard, Capped
  <2>3. Record(shards[w], cur[w], o).samples =
          IF o # Ok /\ Len(shards[w].samples) < MaxErrorSamples
            THEN Append(shards[w].samples, o) ELSE shards[w].samples
    BY <2>1 DEF Record, Shard
  <2>4. Len(Record(shards[w], cur[w], o).samples) <= MaxErrorSamples
    <3>1. CASE o # Ok /\ Len(shards[w].samples) < MaxErrorSamples
      <4>1. Len(Append(shards[w].samples, o)) = Len(shards[w].samples) + 1
        BY <2>2, <3>1 DEF Answers
      <4> QED  BY <2>2, <2>3, <3>1, <4>1, BoundAssumption
    <3>2. CASE ~(o # Ok /\ Len(shards[w].samples) < MaxErrorSamples)
      BY <2>2, <2>3, <3>2
    <3> QED  BY <3>1, <3>2
  <2> QED  BY <2>1, <2>4 DEF Capped, Workers
<1>4. CASE \/ SkipWarmup \/ StartWarmup \/ StopWarmup \/ EndWarmup
           \/ PanicOnNegativeCapacity \/ PlainIterate \/ PlainEnd
           \/ Spawn \/ Send \/ CloseJobs \/ WaitWorkers \/ JoinProgress
           \/ MergeShard \/ CollectSample \/ FinishMerge \/ Ticker \/ UNCHANGED vars
           \/ \E o \in Answers : WarmupRequest(o)
  BY <1>1, <1>4
  DEF SkipWarmup, StartWarmup, StopWarmup, EndWarmup, PanicOnNegativeCapacity,
      PlainIterate, PlainEnd, Spawn, Send, CloseJobs, WaitWorkers, JoinProgress,
      MergeShard, CollectSample, FinishMerge, Ticker, WarmupRequest,
      vars, callVars, mainVars
<1>5. ASSUME NEW w \in Workers, Goroutine(w) PROVE Capped'
  BY <1>1, <1>5 DEF Goroutine, Receive, Count, Exit, callVars, mainVars
<1> QED
  BY <1>2, <1>3, <1>4, <1>5 DEF Next, Main, Terminated

(***************************************************************************)
(* One visit of collectSamples.                                            *)
(***************************************************************************)
LEMMA FairVisit ==
  ASSUME TypeOK, Control, Fair, CollectSample
  PROVE  Fair'
<1> DEFINE round   == collected.round
           at      == collected.at
           out     == collected.out
           samples == shards[at].samples
           next    == NextVisit(round, at)
           more    == IF round > Len(samples) \/ samples[round] \in Range(out) THEN out
                      ELSE Append(out, samples[round])
<1>1. /\ at \in Workers /\ round \in Nat \ {0} /\ workers \in Nat
      /\ out \in Seq(Errors) /\ at \in Nat
  BY DEF CollectSample, TypeOK, Control, MergeOK, CollectState, Workers
<1>2. samples \in Seq(Errors)
  BY <1>1 DEF TypeOK, Shard
<1>3. /\ collected' = [round |-> next[1], at |-> next[2], out |-> more]
      /\ UNCHANGED <<shards, workers>>
      /\ Len(out) < MergedSampleCap
  <2>1. ~(Len(out) >= MergedSampleCap)
    BY DEF CollectSample, Collected
  <2> QED  BY <1>1, <2>1, BoundAssumption DEF CollectSample, callVars
<1>4. next = IF at < workers THEN <<round, at + 1>> ELSE <<round + 1, 1>>
  BY DEF NextVisit
<1>5. Workers' = Workers /\ FirstErrors' = FirstErrors
  BY <1>3 DEF Workers, FirstErrors
<1>6. \A w \in Workers : HasError(w)' = HasError(w) /\ FirstError(w)' = FirstError(w)
  BY <1>3 DEF HasError, FirstError
<1>7. \A w \in Workers : HasError(w) => FirstError(w) \in FirstErrors
  BY DEF HasError, FirstError, FirstErrors
<1>8. samples = <<>> <=> ~HasError(at)
  BY DEF HasError
<1>9. samples[1] = FirstError(at)
  BY DEF FirstError
<1>10. \A e \in FirstErrors : \E w \in Workers : HasError(w) /\ e = FirstError(w)
  BY DEF HasError, FirstError, FirstErrors
<1> HIDE DEF samples, next
<1>11. /\ IsInjective(more) /\ Len(more) <= MergedSampleCap
       /\ Range(out) \subseteq Range(more)
       /\ round <= Len(samples) => samples[round] \in Range(more)
       /\ \A e \in Range(more) :
            e \in Range(out) \/ (round <= Len(samples) /\ e = samples[round])
  <2>1. CASE round > Len(samples) \/ samples[round] \in Range(out)
    BY <1>1, <1>2, <1>3, <2>1, BoundAssumption DEF Fair
  <2>2. CASE ~(round > Len(samples) \/ samples[round] \in Range(out))
    <3>1. more = Append(out, samples[round]) /\ samples[round] \in Errors
      BY <1>1, <1>2, <2>2
    <3>2. /\ Range(more) = Range(out) \cup {samples[round]}
          /\ IsInjective(more)
      BY <1>1, <2>2, <3>1, AppendFresh DEF Fair
    <3>3. Len(more) = Len(out) + 1
      BY <1>1, <3>1
    <3> QED  BY <1>1, <1>2, <1>3, <2>2, <3>2, <3>3, BoundAssumption
  <2> QED  BY <2>1, <2>2
<1> HIDE DEF more
<1>12. round = 1 /\ HasError(at) => FirstError(at) \in Range(more)
  BY <1>2, <1>8, <1>9, <1>11
<1>13. round = 1 => Range(more) \subseteq FirstErrors
  <2>1. 1 <= Len(samples) => samples[1] \in FirstErrors
    BY <1>1, <1>2, <1>7, <1>8, <1>9
  <2> QED  BY <1>11, <2>1 DEF Fair
<1>14. CASE at < workers
  <2>1. collected' = [round |-> round, at |-> at + 1, out |-> more]
    BY <1>3, <1>4, <1>14
  <2>2. \A w \in Workers : w < at + 1 => w < at \/ w = at
    BY <1>1 DEF Workers
  <2>3. round = 1 => \A w \in Workers :
          w < at + 1 /\ HasError(w) => FirstError(w) \in Range(more)
    BY <1>11, <1>12, <2>2 DEF Fair
  <2>4. round > 1 => FirstErrors \subseteq Range(more)
    BY <1>11 DEF Fair
  <2> QED  BY <1>5, <1>6, <1>11, <1>13, <2>1, <2>3, <2>4 DEF Fair
<1>15. CASE ~(at < workers)
  <2>1. collected' = [round |-> round + 1, at |-> 1, out |-> more]
    BY <1>3, <1>4, <1>15
  <2>2. at = workers /\ \A w \in Workers : w < at \/ w = at
    BY <1>1, <1>15 DEF Workers
  <2>3. FirstErrors \subseteq Range(more)
    <3>1. CASE round = 1
      <4>1. \A w \in Workers : HasError(w) => FirstError(w) \in Range(more)
        BY <1>11, <1>12, <2>2, <3>1 DEF Fair
      <4> QED  BY <1>10, <4>1
    <3>2. CASE round > 1
      BY <1>11, <3>2 DEF Fair
    <3> QED  BY <1>1, <3>1, <3>2
  <2> QED  BY <1>1, <1>11, <2>1, <1>5, <2>3 DEF Fair
<1> QED  BY <1>14, <1>15

LEMMA SampledStep ==
  TypeOK /\ Control /\ Sampled /\ [Next]_vars => Sampled'
<1> SUFFICES ASSUME TypeOK, Control, Sampled, [Next]_vars PROVE Sampled'
  OBVIOUS
<1>1. Capped'
  BY CappedStep DEF Sampled
<1>2. CASE CollectSample
  <2>1. pc = "collect" /\ pc' = "collect"
    BY <1>2 DEF CollectSample
  <2>2. Fair'
    BY <1>2, <2>1, FairVisit DEF Sampled
  <2> QED  BY <1>1, <2>1, <2>2 DEF Sampled, SamplesShown
<1>3. CASE FinishMerge
  <2>1. /\ pc = "collect" /\ pc' = "done" /\ Collected
        /\ result'.errorSamples = collected.out
        /\ UNCHANGED <<collected, shards, workers>>
    BY <1>3 DEF FinishMerge, callVars
  <2>2. Fair' /\ Collected'
    BY <2>1 DEF Sampled, Fair, Collected, FirstErrors, FirstError, HasError, Workers
  <2> QED  BY <1>1, <2>1, <2>2 DEF Sampled, SamplesShown
<1>4. CASE MergeShard
  <2>1. pc = "merge" /\ pc' \in {"merge", "collect"} /\ collected' = collected
    BY <1>4 DEF MergeShard
  <2>2. collected' = [round |-> 1, at |-> 1, out |-> <<>>]
    BY <2>1 DEF Control, MergeOK, NothingCollected
  <2>3. /\ Range(<<>>) = {} /\ IsInjective(<<>>) /\ Len(<<>>) <= MergedSampleCap
        /\ \A w \in Workers' : ~(w < 1)
    BY NothingIn, BoundAssumption DEF Workers
  <2>4. Fair'
    BY <2>2, <2>3 DEF Fair
  <2> QED  BY <1>1, <2>1, <2>4 DEF Sampled, SamplesShown
<1>5. ASSUME pc' \notin {"collect", "done"} PROVE Sampled'
  BY <1>1, <1>5 DEF Sampled, SamplesShown
<1>6. ASSUME UNCHANGED <<pc, shards, workers, collected, result>> PROVE Sampled'
  BY <1>1, <1>6
  DEF Sampled, SamplesShown, Fair, Collected, FirstErrors, FirstError, HasError, Workers
<1>7. CASE \/ SkipWarmup \/ StartWarmup \/ StopWarmup \/ EndWarmup
           \/ Allocate \/ PanicOnNegativeCapacity \/ PlainIterate \/ PlainEnd
           \/ Spawn \/ Send \/ CloseJobs \/ WaitWorkers \/ JoinProgress
           \/ \E o \in Answers : WarmupRequest(o)
  BY <1>5, <1>7
  DEF SkipWarmup, StartWarmup, StopWarmup, EndWarmup, Allocate, PanicOnNegativeCapacity,
      PlainIterate, PlainEnd, Spawn, Send, CloseJobs, WaitWorkers, JoinProgress,
      WarmupRequest
<1>8. CASE Ticker \/ UNCHANGED vars \/ \E w \in Workers : Goroutine(w)
  BY <1>6, <1>8 DEF Ticker, Goroutine, Receive, Count, Exit, vars, callVars, mainVars
<1>9. ASSUME NEW w \in Workers, NEW o \in Answers, Return(w, o) PROVE Sampled'
  <2>1. wpc[w] = "call" /\ pc' = pc
    BY <1>9 DEF Return
  <2>2. pc \notin {"collect", "done"}
    BY <2>1 DEF Control, WorkersOK, After
  <2> QED  BY <1>5, <2>1, <2>2
<1> QED
  BY <1>2, <1>3, <1>4, <1>7, <1>8, <1>9 DEF Next, Main, Terminated

(***************************************************************************)
(* The errors a Result shows are drawn from every worker's first before    *)
(* any worker's second, and none is shown twice.                           *)
(***************************************************************************)
THEOREM SamplesAreRepresentative == Spec => []SamplesRepresentative
<1>1. Invariant /\ Sampled => SamplesRepresentative
  <2> SUFFICES ASSUME Invariant, Sampled, pc = "done" PROVE SamplesRepresentative
    BY DEF SamplesRepresentative
  <2>1. /\ Fair /\ Collected /\ result.errorSamples = collected.out
        /\ collected.round \in Nat \ {0} /\ collected.out \in Seq(Errors)
    BY DEF Sampled, SamplesShown, Invariant, TypeOK, CollectState
  <2>2. CASE collected.round > 1
    BY <2>1, <2>2 DEF Fair, SamplesRepresentative
  <2>3. CASE collected.round = 1 /\ Len(collected.out) >= MergedSampleCap
    BY <2>1, <2>3, BoundAssumption DEF Fair, SamplesRepresentative
  <2>4. CASE collected.round = 1 /\ collected.round > MaxErrorSamples
    <3>1. MaxErrorSamples = 0
      BY <2>4, BoundAssumption
    <3>2. \A w \in Workers : shards[w].samples = <<>>
      <4>1. \A w \in Workers : shards[w].samples \in Seq(Errors)
        BY DEF Invariant, TypeOK, Shard
      <4>2. \A w \in Workers : Len(shards[w].samples) <= 0
        BY <3>1 DEF Sampled, Capped
      <4> QED  BY <4>1, <4>2, EmptySeq
    <3>3. FirstErrors = {}
      BY <3>2 DEF FirstErrors
    <3> QED  BY <2>1, <3>3 DEF Fair, SamplesRepresentative
  <2> QED  BY <2>1, <2>2, <2>3, <2>4 DEF Collected
<1>2. Invariant /\ [Next]_vars /\ Sampled => Sampled'
  BY SampledStep DEF Invariant
<1> QED  BY <1>1, <1>2, SampledInit, Inductive, PTL DEF Spec

=============================================================================
