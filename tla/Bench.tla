------------------------------- MODULE Bench --------------------------------
(***************************************************************************)
(* cmd/bench/main.go: from the command line to the exit code.  The flags   *)
(* and the query file are checked, every test is run on every query in     *)
(* every run, the entries are printed per run or at the end.  The process  *)
(* may be killed at any moment; lines are written one by one and stay.     *)
(*                                                                         *)
(* A benchmark is what the module Benchmark promises of it: it fails, or   *)
(* returns an exact count of successes and failures.                       *)
(***************************************************************************)
EXTENDS Integers, Sequences, SequencesExt

CONSTANTS
  Texts,      \* the labels and the statements of queries, the empty one included
  Commands    \* the command lines: see CommandAssumption

available ==
  {"Sync", "SyncSessions", "Goroutines", "GoroutinesSessions", "SyncImplicit",
   "SyncSessionsImplicit", "GoroutinesImplicit", "GoroutinesSessionsImplicit"}

ASSUME TextAssumption == "" \in Texts

(* cypher: the flag's value, and whether it was on the command line; file: *)
(* whether -queries-file is given and decodes, and its entries.            *)
ASSUME CommandAssumption ==
  Commands \subseteq
    [ tests: Seq(STRING), api: STRING, mode: STRING, runs: Int, format: STRING,
      cypher: [explicit: BOOLEAN, text: Texts], requests: Int,
      file: [given: BOOLEAN, decodes: BOOLEAN,
             queries: Seq([label: Texts, cypher: Texts])] ]

VARIABLES
  cmd,      \* the command line
  pc,       \* "flags", "queries", "runs", "loop", "flush", "print", "exited", "killed"
  queries,  \* what resolveQueries returned
  run,      \* runs begun
  next,     \* the benchmarks of this run tried so far
  entries,  \* the entries collected and not yet handed to a printer
  out,      \* the entries on stdout
  aborted,  \* the count that decides the exit code
  exit,     \* the exit code, -1 before
  tried     \* history: per benchmark, what dispatch returned

vars == <<cmd, pc, queries, run, next, entries, out, aborted, exit, tried>>

-----------------------------------------------------------------------------
Failed == [requests |-> -1, success |-> -1]   \* dispatch returned an error
Outcomes == [requests: Int, success: Int]
Items == [run: Nat, query: Nat, test: Nat]
Records == [item: Items, outcome: Outcomes]

TypeOK ==
  /\ cmd \in Commands
  /\ pc \in {"flags", "queries", "runs", "loop", "flush", "print", "exited", "killed"}
  /\ queries \in Seq([label: Texts, cypher: Texts])
  /\ run \in 0..cmd.runs \cup {0}
  /\ next \in 0..(Len(queries) * Len(cmd.tests))
  /\ entries \in Seq(Records) /\ out \in Seq(Records) /\ tried \in Seq(Records)
  /\ aborted \in 0..Len(tried)
  /\ exit \in -1..2 /\ (exit >= 0 <=> pc = "exited")

Init ==
  /\ cmd \in Commands
  /\ pc = "flags"
  /\ queries = <<>> /\ run = 0 /\ next = 0
  /\ entries = <<>> /\ out = <<>>
  /\ aborted = 0 /\ exit = -1
  /\ tried = <<>>

Exit(code) == pc' = "exited" /\ exit' = code

-----------------------------------------------------------------------------
(***************************************************************************)
(* Start-up.                                                               *)
(***************************************************************************)
isKnown(name) == name \in available

BadFlags ==
  \/ cmd.tests = <<>>
  \/ \E i \in DOMAIN cmd.tests : ~isKnown(cmd.tests[i])
  \/ cmd.api \notin {"queryv2", "legacy"}
  \/ cmd.mode \notin {"read", "write"}
  \/ cmd.runs < 1
  \/ cmd.file.given /\ cmd.cypher.explicit

RefuseFlags ==
  /\ pc = "flags" /\ BadFlags
  /\ Exit(1)
  /\ UNCHANGED <<cmd, queries, run, next, entries, out, aborted, tried>>

(* -runs with a format other than benchstat: a warning on stderr, no more; *)
(* what the warning says is RunsNeedBenchstat.                             *)
AcceptFlags ==
  /\ pc = "flags" /\ ~BadFlags
  /\ pc' = "queries"
  /\ UNCHANGED <<cmd, queries, run, next, entries, out, aborted, exit, tried>>

(* queryfile.Load succeeds. *)
Loads(file) ==
  /\ file.decodes /\ file.queries # <<>>
  /\ \A i \in DOMAIN file.queries : file.queries[i].label # "" /\ file.queries[i].cypher # ""

resolveQueries ==
  /\ pc = "queries"
  /\ IF ~cmd.file.given
       THEN /\ queries' = << [label |-> "", cypher |-> cmd.cypher.text] >>
            /\ pc' = "runs" /\ UNCHANGED exit
       ELSE IF Loads(cmd.file)
         THEN queries' = cmd.file.queries /\ pc' = "runs" /\ UNCHANGED exit
         ELSE Exit(1) /\ UNCHANGED queries
  /\ UNCHANGED <<cmd, run, next, entries, out, aborted, tried>>

-----------------------------------------------------------------------------
(***************************************************************************)
(* The loop.                                                               *)
(***************************************************************************)
(* The benchmarks of a run: all tests on the first query, then the next.   *)
PerRun == Len(queries) * Len(cmd.tests)
Item(k) ==
  [ run |-> run, query |-> (k \div Len(cmd.tests)) + 1, test |-> (k % Len(cmd.tests)) + 1 ]

InLoop == pc = "loop" /\ next < PerRun

BeginRunOnceMore ==   \* mutant: the loop counts from zero to -runs inclusive
  /\ pc = "runs" /\ run <= cmd.runs
  /\ pc' = "loop" /\ run' = run + 1 /\ next' = 0
  /\ UNCHANGED <<cmd, queries, entries, out, aborted, exit, tried>>

BeginRun ==
  /\ pc = "runs" /\ run < cmd.runs
  /\ pc' = "loop" /\ run' = run + 1 /\ next' = 0
  /\ UNCHANGED <<cmd, queries, entries, out, aborted, exit, tried>>

Tried(outcome) ==
  /\ tried' = Append(tried, [item |-> Item(next), outcome |-> outcome])
  /\ next' = next + 1
  /\ UNCHANGED <<cmd, pc, queries, run, out, exit>>

DispatchFailsUncounted ==   \* mutant: the error is logged and nothing more
  /\ InLoop
  /\ Tried(Failed)
  /\ UNCHANGED <<entries, aborted>>

(* The client could not be built, or warmup rejected the target. *)
DispatchFails ==
  /\ InLoop
  /\ Tried(Failed)
  /\ aborted' = aborted + 1
  /\ UNCHANGED entries

(* The outcomes Benchmark allows: -n is not checked, and -1 runs nothing. *)
Returned ==
  [requests: {cmd.requests}, success: 0..(IF cmd.requests > 0 THEN cmd.requests ELSE 0)]

DispatchDropsAllFailed ==   \* mutant: an all-failed benchmark is not an entry
  /\ InLoop /\ cmd.requests >= -1
  /\ \E o \in Returned :
       /\ Tried(o)
       /\ IF o.requests > 0 /\ o.success = 0
            THEN aborted' = aborted + 1 /\ UNCHANGED entries
            ELSE /\ entries' = Append(entries, [item |-> Item(next), outcome |-> o])
                 /\ UNCHANGED aborted

DispatchReturns ==
  /\ InLoop /\ cmd.requests >= -1
  /\ \E o \in Returned :
       /\ Tried(o)
       /\ aborted' = IF o.requests > 0 /\ o.success = 0 THEN aborted + 1 ELSE aborted
       /\ entries' = Append(entries, [item |-> Item(next), outcome |-> o])

(* make with a negative capacity, in measure: the process ends. *)
DispatchPanics ==
  /\ InLoop /\ cmd.requests < -1
  /\ Exit(2)
  /\ UNCHANGED <<cmd, queries, run, next, entries, out, aborted, tried>>

EndRunUnflushed ==   \* mutant: the entries of every format are kept to the end
  /\ pc = "loop" /\ next = PerRun
  /\ pc' = "runs"
  /\ UNCHANGED <<cmd, queries, run, next, entries, out, aborted, exit, tried>>

EndRun ==
  /\ pc = "loop" /\ next = PerRun
  /\ pc' = IF cmd.format = "benchstat" THEN "flush" ELSE "runs"
  /\ UNCHANGED <<cmd, queries, run, next, entries, out, aborted, exit, tried>>

(* Each entry is a write of its own, but for JSON, which is one. *)
Write(count) ==
  /\ out' = out \o SubSeq(entries, 1, count)
  /\ entries' = SubSeq(entries, count + 1, Len(entries))
  /\ UNCHANGED <<cmd, pc, queries, run, next, aborted, exit, tried>>

FlushLine ==
  /\ pc = "flush" /\ entries # <<>>
  /\ Head(entries).outcome.success > 0
  /\ Write(1)

(* PrintBenchstat leaves out an entry without a success. *)
FlushNothing ==
  /\ pc = "flush" /\ entries # <<>>
  /\ Head(entries).outcome.success = 0
  /\ entries' = Tail(entries)
  /\ UNCHANGED <<cmd, pc, queries, run, next, out, aborted, exit, tried>>

EndFlush ==
  /\ pc = "flush" /\ entries = <<>>
  /\ pc' = "runs"
  /\ UNCHANGED <<cmd, queries, run, next, entries, out, aborted, exit, tried>>

EndRuns ==
  /\ pc = "runs" /\ run = cmd.runs
  /\ pc' = "print"
  /\ UNCHANGED <<cmd, queries, run, next, entries, out, aborted, exit, tried>>

(* PrintJSON, and PrintTable for every format that is not json or benchstat. *)
Output ==
  /\ pc = "print" /\ entries # <<>>
  /\ Write(IF cmd.format = "json" THEN Len(entries) ELSE 1)

Finish ==
  /\ pc = "print" /\ entries = <<>>
  /\ Exit(IF aborted > 0 THEN 1 ELSE 0)
  /\ UNCHANGED <<cmd, queries, run, next, entries, out, aborted, tried>>

(* A signal, or the machine: nothing is caught. *)
Kill ==
  /\ pc \notin {"exited", "killed"}
  /\ pc' = "killed"
  /\ UNCHANGED <<cmd, queries, run, next, entries, out, aborted, exit, tried>>

Next ==
  \/ RefuseFlags \/ AcceptFlags \/ resolveQueries
  \/ BeginRun \/ DispatchFails \/ DispatchReturns \/ DispatchPanics \/ EndRun
  \/ FlushLine \/ FlushNothing \/ EndFlush \/ EndRuns \/ Output \/ Finish
  \/ Kill
  \/ pc \in {"exited", "killed"} /\ UNCHANGED vars

Spec == Init /\ [][Next]_vars

-----------------------------------------------------------------------------
(* What the command line asks for, in order: every run, query and test. *)
Asked ==
  [k \in 1..(cmd.runs * PerRun) |->
     [ run |-> ((k - 1) \div PerRun) + 1,
       query |-> (((k - 1) % PerRun) \div Len(cmd.tests)) + 1,
       test |-> ((k - 1) % Len(cmd.tests)) + 1 ]]

(* The benchmarks that returned a result the format has a line for, in order. *)
HasLine(format, t) ==
  t.outcome # Failed /\ (format = "benchstat" => t.outcome.success > 0)

Lines(format, records) ==
  LET upTo[k \in 0..Len(records)] ==
        IF k = 0 THEN <<>>
        ELSE IF HasLine(format, records[k]) THEN Append(upTo[k - 1], records[k])
        ELSE upTo[k - 1]
  IN  upTo[Len(records)]

Reportable(records) == Lines(cmd.format, records)

AllFailed(o) == o.requests > 0 /\ o.success = 0

(***************************************************************************)
(* What is on stdout is, at every moment and after a kill, a beginning of  *)
(* the results obtained, in the order asked for, none of them twice or     *)
(* under another benchmark's name; and when the command exits by itself it *)
(* is all of them, after every benchmark of each run it began was tried    *)
(* once, however many failed; and with benchstat it began as many runs as  *)
(* -runs says (the loop of main).  How many runs the other formats owe is  *)
(* left open here: see RunsNeedBenchstat.                                  *)
(***************************************************************************)
ReportExact ==
  /\ IsPrefix([k \in DOMAIN tried |-> tried[k].item], Asked)
  /\ IsPrefix(out, Reportable(tried))
  /\ pc = "exited" /\ exit # 2 /\ run > 0 =>
       /\ Len(tried) = run * PerRun
       /\ out = Reportable(tried)
       /\ cmd.format = "benchstat" => run = cmd.runs

(***************************************************************************)
(* The exit code tells a script the truth: 0 means that the command line   *)
(* was accepted and every benchmark of each run begun returned a result,   *)
(* none with all its requests failed; 1 that it was refused, the query file     *)
(* included, before any request was made or line written, or that some     *)
(* benchmark could not run (comments at aborted; queryfile.Load).          *)
(***************************************************************************)
ExitTellsTruth ==
  /\ exit = 0 => Len(tried) = run * PerRun /\ tried # <<>>
  /\ exit \in {0, 1} /\ tried # <<>> =>
       (exit = 1 <=> \E k \in DOMAIN tried : tried[k].outcome = Failed \/ AllFailed(tried[k].outcome))
  /\ exit = 1 /\ tried = <<>> => out = <<>> /\ run = 0
  /\ tried # <<>> /\ cmd.file.given =>
       ~cmd.cypher.explicit /\ "" \notin UNION {{q.label, q.cypher} : q \in Range(cmd.file.queries)}

(***************************************************************************)
(* With benchstat a kill loses at most the run it interrupts: the results  *)
(* of all runs before are on stdout (comment at the flush).                *)
(***************************************************************************)
FinishedRunsKept ==
  cmd.format = "benchstat" /\ run > 0 =>
    IsPrefix(Reportable(SubSeq(tried, 1, (run - 1) * PerRun)), out)

(***************************************************************************)
(* The comment of PrintBenchstat: "any failures are appended as a trailing *)
(* comment so they can't pass unnoticed".                                  *)
(***************************************************************************)
FailuresNoticed ==
  cmd.format = "benchstat" /\ pc = "exited" =>
    \A k \in DOMAIN tried :
      tried[k].outcome.success < tried[k].outcome.requests => tried[k] \in Range(out)

(***************************************************************************)
(* The warning of main: "-runs %d has no effect with -format %s; use       *)
(* -format benchstat".  With another format the benchmarks are run once.   *)
(***************************************************************************)
RunsNeedBenchstat ==
  cmd.format # "benchstat" => \A k \in DOMAIN tried : tried[k].item.run = 1

=============================================================================
