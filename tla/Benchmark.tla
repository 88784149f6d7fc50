----------------------------- MODULE Benchmark ------------------------------
(***************************************************************************)
(* What a benchmark run promises, whatever threads and buffers it uses: a  *)
(* warmup either rejects the target or lets the timed phase begin; in the  *)
(* timed phase every request is answered at most once, in any order; and   *)
(* the one report published is an exact account of those answers.          *)
(***************************************************************************)
EXTENDS Integers, FiniteSets

CONSTANTS
  Configs,   \* the configurations a run may have
  Errors,    \* the errors a request may return
  Classes,   \* the labels classify gives them
  ClassOf,   \* classify: a function from Errors to Classes
  Ok,        \* the answer of a request that returned no error
  None       \* no answer yet

VARIABLES
  cfg,       \* the configuration of this run
  phase,     \* "warmup", "timed", "reported", "aborted" or "crashed"
  answer,    \* what each timed request returned so far
  report     \* the published account, None before

benchmarkVars == <<cfg, phase, answer, report>>

Iterations(c) == IF c.requests > 0 THEN c.requests ELSE 0

(* The requests that returned a given answer, or an error of a given class. *)
Answered(ans, o) == {k \in DOMAIN ans : ans[k] = o}
Failed(ans) == {k \in DOMAIN ans : ans[k] \in Errors}
FailedAs(ans, c) == {k \in Failed(ans) : ClassOf[ans[k]] = c}

(* The account an all-seeing observer of the answers would give. *)
Account(c, ans) ==
  [ requestCount |-> c.requests,
    successCount |-> Cardinality(Answered(ans, Ok)),
    failureCount |-> Cardinality(Failed(ans)),
    timed        |-> Answered(ans, Ok),
    timedFailed  |-> Failed(ans),
    errors       |-> [cl \in Classes |-> Cardinality(FailedAs(ans, cl))] ]

BenchmarkInit ==
  /\ cfg \in Configs
  /\ phase = "warmup"
  /\ answer = [k \in 1..Iterations(cfg) |-> None]
  /\ report = None

Reject ==
  /\ phase = "warmup"
  /\ phase' \in {"aborted", "crashed"}
  /\ UNCHANGED <<cfg, answer, report>>

Begin ==
  /\ phase = "warmup"
  /\ phase' = "timed"
  /\ UNCHANGED <<cfg, answer, report>>

Answer(k, o) ==
  /\ phase = "timed"
  /\ answer[k] = None
  /\ answer' = [answer EXCEPT ![k] = o]
  /\ UNCHANGED <<cfg, phase, report>>

Publish ==
  /\ phase = "timed"
  /\ \A k \in DOMAIN answer : answer[k] # None
  /\ phase' = "reported"
  /\ report' = Account(cfg, answer)
  /\ UNCHANGED <<cfg, answer>>

BenchmarkNext ==
  \/ Reject
  \/ Begin
  \/ \E k \in DOMAIN answer, o \in Errors \cup {Ok} : Answer(k, o)
  \/ Publish

BenchmarkSpec == BenchmarkInit /\ [][BenchmarkNext]_benchmarkVars

=============================================================================
