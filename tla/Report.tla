------------------------------- MODULE Report -------------------------------
(***************************************************************************)
(* internal/results/table.go: PrintTable, PrintJSON and PrintBenchstat,    *)
(* one entry at a time, over the figures of Latency and the labels of      *)
(* ErrorClass.  A line is a record of what it says, its layout left out;   *)
(* names and messages are the texts of ErrorClass.                         *)
(***************************************************************************)
EXTENDS Latency, ErrorClass

CONSTANTS
  Reports,     \* the sequences of entries to be printed
  Terminals,   \* [COLUMNS, size]: the variable and the terminal's width, 0 if unusable
  LabelRank,   \* the place of each label in the order of strings
  SampleLimit  \* the runes shown of a sample, 120 in the code

ASSUME SampleAssumption == SampleLimit \in Nat

ASSUME TerminalAssumption == Terminals \subseteq [COLUMNS: Int, size: Int]

VARIABLES
  format,      \* which of the three printers was called
  terminal,    \* the terminal it prints on
  entries,     \* its argument
  printed,     \* how many entries it has been through
  lines,       \* what it said of them
  footnote     \* "pending", then "note" if the table ends with that on failures, or "none"

vars == <<format, terminal, entries, printed, lines, footnote>>

-----------------------------------------------------------------------------
(***************************************************************************)
(* The Result of an entry: seconds is the wall time in the unit of the     *)
(* durations, durations those of the successes, failures the errors and    *)
(* durations of the others; the counts of both are the lengths (the        *)
(* runner's ResultExact).  requests is RequestCount, which the runner sets *)
(* from -n: not the sum of the two when -n is negative.                    *)
(***************************************************************************)
SuccessCount(r) == Len(r.durations)
FailureCount(r) == Len(r.failures)
RequestCount(r) == r.requests
FailureDurations(r) == [i \in DOMAIN r.failures |-> r.failures[i].dur]
LabelOf(r) == [i \in DOMAIN r.failures |-> classify(r.failures[i].err)]

Errors(r) ==
  [l \in {LabelOf(r)[i] : i \in DOMAIN r.failures} |->
     Cardinality({i \in DOMAIN r.failures : LabelOf(r)[i] = l})]

IsUnreliableAboveHalf(r) ==   \* mutant: a tolerated share of failures, as the Python tool has
  2 * FailureCount(r) > RequestCount(r)

IsUnreliable(r) == FailureCount(r) > 0

(* A rate is a count and the time it took. *)
PerSecond(count, r) == IF r.seconds <= 0 THEN <<0, 1>> ELSE <<count, r.seconds>>
RequestsPerSecond(r) == PerSecond(SuccessCount(r), r)
AttemptedPerSecond(r) == PerSecond(RequestCount(r), r)

(* int64 of a float: just below a whole number if the quotient is one. *)
NsPerOp(r) ==
  LET q == r.seconds \div SuccessCount(r)
  IN  IF r.seconds > 0 /\ r.seconds % SuccessCount(r) = 0 THEN {q, q - 1} ELSE {q}

(* What a run can have returned: every request it was asked for is a       *)
(* success or a failure, and a negative number of them is none.            *)
AnError == [is: SUBSET Kinds, code: Nat, msg: Seq(Runes)]
ResultFields ==
  [ requests: Int, durations: Seq(0..(Half - 1)),
    failures: Seq([err: AnError, dur: 0..(Half - 1)]),
    seconds: Nat, samples: Seq(Seq(Runes)) ]
AResult ==
  {r \in ResultFields :
     Len(r.durations) + Len(r.failures) = IF r.requests > 0 THEN r.requests ELSE 0}

AnEntry == [name: Seq(Runes), label: Seq(Runes), result: AResult]

ASSUME ReportAssumption == Reports \subseteq Seq(AnEntry)

(* Different labels have different places. *)
ASSUME RankAssumption ==
  /\ LabelRank \in [DOMAIN LabelRank -> Nat] /\ IsInjective(LabelRank)
  /\ \A es \in Reports : \A i \in DOMAIN es :
       \A j \in DOMAIN es[i].result.failures : LabelOf(es[i].result)[j] \in DOMAIN LabelRank

-----------------------------------------------------------------------------
terminalWidth ==
  IF terminal.COLUMNS > 0 THEN terminal.COLUMNS
  ELSE IF terminal.size > 0 THEN terminal.size
  ELSE 80

FixedColumns == 12 + 10 + 14 + 6
ColTestMin == 20

testColWidth ==
  IF terminalWidth - FixedColumns < ColTestMin THEN ColTestMin
  ELSE terminalWidth - FixedColumns

(* formatErrors: most frequent first, equal counts in the order of the labels. *)
Listed(errs, before) ==
  LET order == Ordered(DOMAIN errs, before) IN [i \in DOMAIN order |-> <<order[i], errs[order[i]]>>]

Pairs(errs) == (DOMAIN errs) \X (DOMAIN errs)

formatErrorsRareFirst(errs) ==   \* mutant: the comparison turned round
  Listed(errs, {p \in Pairs(errs) : \/ errs[p[1]] < errs[p[2]]
                                    \/ errs[p[1]] = errs[p[2]] /\ LabelRank[p[1]] < LabelRank[p[2]]})

formatErrors(errs) ==
  Listed(errs, {p \in Pairs(errs) : \/ errs[p[1]] > errs[p[2]]
                                    \/ errs[p[1]] = errs[p[2]] /\ LabelRank[p[1]] < LabelRank[p[2]]})

(* The map itself, which encoding/json writes in the order of its keys. *)
jsonErrors(errs) == Listed(errs, {p \in Pairs(errs) : LabelRank[p[1]] < LabelRank[p[2]]})

(* The table and JSON put the query first, benchstat the test. *)
Joined(a, b) == IF b = <<>> THEN a ELSE IF a = <<>> THEN b ELSE a \o <<"/">> \o b
Mark == <<" ", "*">>

(* What PrintTable may say of an entry.  A line holds the whole summary, of  *)
(* which each format shows some figures; NoStats stands for none.          *)
TableLine(e) ==
  LET name == Joined(e.label, e.name)
      marked == IF IsUnreliable(e.result) THEN name \o Mark ELSE name
  IN  [ name: {TruncateRunes(marked, testColWidth)},
        counts: {<<FailureCount(e.result), RequestCount(e.result)>>},
        rate: {RequestsPerSecond(e.result)},
        latency: computeStats(e.result.durations),
        errors: {formatErrors(Errors(e.result))},
        timeToFail: computeStats(FailureDurations(e.result)),
        samples: {[i \in DOMAIN e.result.samples |->
                     TruncateRunes(e.result.samples[i], SampleLimit)]} ]

JsonLine(e) ==
  [ name: {Joined(e.label, e.name)},
    counts: {<<FailureCount(e.result), RequestCount(e.result)>>},
    success: {SuccessCount(e.result)},
    unreliable: {IsUnreliable(e.result)},
    rate: {RequestsPerSecond(e.result)},
    attempted: {AttemptedPerSecond(e.result)},
    latency: computeStats(e.result.durations),
    errors: {jsonErrors(Errors(e.result))},
    samples: {e.result.samples} ]

BenchstatLine(e) ==
  [ name: {Joined(e.name, e.label)},
    counts: {<<FailureCount(e.result), RequestCount(e.result)>>},
    nsPerOp: NsPerOp(e.result),
    latency: computeStats(e.result.durations),
    errors: {formatErrors(Errors(e.result))} ]

-----------------------------------------------------------------------------
Init ==
  /\ format \in {"table", "json", "benchstat"}
  /\ terminal \in Terminals
  /\ entries \in Reports
  /\ printed = 0
  /\ lines = <<>>
  /\ footnote = "pending"

Entry == entries[printed + 1]

Emit(possible) ==
  /\ printed < Len(entries)
  /\ printed' = printed + 1
  /\ \E line \in possible : lines' = Append(lines, line)
  /\ UNCHANGED <<format, terminal, entries, footnote>>

PrintTable == format = "table" /\ Emit(TableLine(Entry))

PrintJSON == format = "json" /\ Emit(JsonLine(Entry))

PrintBenchstat ==
  /\ format = "benchstat" /\ printed < Len(entries)
  /\ SuccessCount(Entry.result) # 0
  /\ Emit(BenchstatLine(Entry))

(* PrintBenchstat: an entry without a success has no line. *)
SkipEntry ==
  /\ format = "benchstat" /\ printed < Len(entries)
  /\ SuccessCount(Entry.result) = 0
  /\ printed' = printed + 1
  /\ UNCHANGED <<format, terminal, entries, lines, footnote>>

EndReport ==
  /\ printed = Len(entries) /\ footnote = "pending"
  /\ footnote' = IF format = "table" /\ \E i \in DOMAIN entries : IsUnreliable(entries[i].result)
                   THEN "note" ELSE "none"
  /\ UNCHANGED <<format, terminal, entries, printed, lines>>

Printed == footnote # "pending" /\ UNCHANGED vars

Next == PrintTable \/ PrintJSON \/ PrintBenchstat \/ SkipEntry \/ EndReport \/ Printed

Spec == Init /\ [][Next]_vars

-----------------------------------------------------------------------------
(***************************************************************************)
(* Properties                                                              *)
(***************************************************************************)
(* The entry of each line: benchstat leaves some out. *)
HasLine(e) == format # "benchstat" \/ SuccessCount(e.result) > 0

Shown ==
  LET upTo[n \in 0..Len(entries)] ==
        IF n = 0 THEN <<>>
        ELSE IF HasLine(entries[n]) THEN Append(upTo[n - 1], entries[n])
        ELSE upTo[n - 1]
  IN  upTo[printed]

Overflows(d) == Total(d) >= Half

(***************************************************************************)
(* The figures of a line are in order, from the minimum through the        *)
(* percentiles to the maximum; and unless the sum of the durations left    *)
(* the 64 bits it is kept in, the mean is between the extremes and the     *)
(* deviation is no more than their distance (computeStats).                *)
(***************************************************************************)
FiguresOrdered ==
  \A i \in DOMAIN lines :
    LET s == lines[i].latency
    IN  /\ s.Min <= s.P50 /\ s.P50 <= s.P90 /\ s.P90 <= s.P95 /\ s.P95 <= s.P99
        /\ s.P99 <= s.P999 /\ s.P999 <= s.Max
        /\ ~Overflows(Shown[i].result.durations) =>
             s.Min <= s.Mean /\ s.Mean <= s.Max /\ s.StdDev <= s.Max - s.Min

(* The k-th smallest of d, found by counting. *)
Smallest(d, k) ==
  CHOOSE v \in Range(d) : /\ Cardinality({i \in DOMAIN d : d[i] < v}) < k
                         /\ Cardinality({i \in DOMAIN d : d[i] <= v}) >= k

(* v is, rounded down, as far from the one observation to the next as the rank is. *)
Interpolates(d, p, v) ==
  LET rank == p * (Len(d) - 1)
      low == Smallest(d, rank \div 1000 + 1)
      high == IF Len(d) = 1 THEN low ELSE Smallest(d, rank \div 1000 + 2)
      exact == 1000 * low + (rank % 1000) * (high - low)
  IN  1000 * v \in (exact - 1000)..exact

(***************************************************************************)
(* A percentile lies between the two observations its rank falls between,  *)
(* found by counting and not by sorting, at the rank's place between them: *)
(* a high percentile of a small sample is not taken from too low a rank    *)
(* (comment of percentile).  The property is about ranks and neighbours;   *)
(* the unit of rounding it allows for is the one Truncated assumes.        *)
(***************************************************************************)
PercentilesInterpolated ==
  \A i \in DOMAIN lines :
    LET d == Shown[i].result.durations
        s == lines[i].latency
    IN  d # <<>> =>
          /\ Interpolates(d, 500, s.P50) /\ Interpolates(d, 900, s.P90)
          /\ Interpolates(d, 950, s.P95) /\ Interpolates(d, 990, s.P99)
          /\ Interpolates(d, 999, s.P999)

(* b is a with one digit or space more in a run, or with a URL in front. *)
Varies(a, b) ==
  \/ \E k \in DOMAIN a : /\ a[k] \in {"digit", "space"}
                         /\ b = InsertAt(a, k, a[k])
  \/ \E k \in DOMAIN b : b[k] = "mark" /\ a = SubSeq(b, k + 1, Len(b))

(***************************************************************************)
(* Failures are counted by cause: two errors of the same kind whose texts  *)
(* differ only in the length of a number, in spacing or in the URL in      *)
(* front share a label (comment of summarize); two statuses or Cypher      *)
(* codes never do; and a request that ran into its deadline is a timeout,  *)
(* whatever lower-level errors the chain holds, unless the server answered *)
(* (comment in classify).                                                  *)
(***************************************************************************)
BucketsByCause ==
  \A i \in DOMAIN lines :
    LET f == Shown[i].result.failures
        label == LabelOf(Shown[i].result)
        answered(k) == f[k].err.is \cap AnswerTypes # {}
    IN  \A j, k \in DOMAIN f :
          /\ f[j].err.is = f[k].err.is /\ f[j].err.code = f[k].err.code
               /\ Varies(f[j].err.msg, f[k].err.msg) => label[j] = label[k]
          /\ answered(j) /\ answered(k) /\ f[j].err.code # f[k].err.code => label[j] # label[k]
          /\ "context.DeadlineExceeded" \in f[k].err.is /\ ~answered(k) => label[k][1] = "timeout"

(***************************************************************************)
(* The failures listed in a line are all those of the entry: each label    *)
(* once, the counts adding up to the failures, in the text formats most    *)
(* frequent first, and in an order that does not depend on the map         *)
(* (formatErrors, jsonEntry).                                              *)
(***************************************************************************)
FailuresListed ==
  \A i \in DOMAIN lines :
    LET l == lines[i].errors
    IN  /\ Total([j \in DOMAIN l |-> l[j][2]]) = FailureCount(Shown[i].result)
        /\ \A j, k \in DOMAIN l : j < k =>
             /\ l[j][1] # l[k][1]
             /\ format # "json" => l[j][2] >= l[k][2]
             /\ format = "json" \/ l[j][2] = l[k][2] =>
                  LabelRank[l[j][1]] < LabelRank[l[k][1]]

(***************************************************************************)
(* Every entry is reported, in order and with its own failures and request *)
(* count, benchstat's entries without a success excepted; and no report    *)
(* that shows a failure passes for a reliable one: the table ends with the *)
(* note, JSON flags the entry.                                             *)
(***************************************************************************)
ReportComplete ==
  /\ Len(lines) = Len(Shown)
  /\ \A i \in DOMAIN lines :
       LET r == Shown[i].result
       IN  /\ lines[i].counts = <<Len(r.failures), r.requests>>
           /\ format = "json" => (lines[i].unreliable <=> FailureCount(r) > 0)
  /\ format = "table" /\ footnote # "pending" =>
       (footnote = "note" <=> \E i \in DOMAIN entries : FailureCount(entries[i].result) > 0)

(***************************************************************************)
(* No name is wider than its column, however long the query's label, so    *)
(* the columns stay aligned, and no sample than its limit (comment of      *)
(* truncate).  The cell of the failures is text too, but nothing cuts it.  *)
(***************************************************************************)
TextFits ==
  format = "table" => \A i \in DOMAIN lines :
    /\ Len(lines[i].name) <= testColWidth
    /\ \A j \in DOMAIN lines[i].samples : Len(lines[i].samples[j]) <= SampleLimit

(***************************************************************************)
(* The comment of PrintTable: it marks "any run that had failures with an  *)
(* asterisk".                                                              *)
(***************************************************************************)
FailuresMarked ==
  format = "table" => \A i \in DOMAIN lines :
    IsUnreliable(Shown[i].result) => IsSuffix(Mark, lines[i].name)

=============================================================================
