------------------------------ MODULE MCReport ------------------------------
(* Instances of Report for TLC. *)
EXTENDS Report

Letters(n) == [i \in 1..n |-> "letter"]
TestNames == {Letters(4), Letters(26)}     \* "Sync", "GoroutinesSessionsImplicit"
QueryNames == {<<>>, Letters(13)}          \* no query file, "filtered-scan"

MCTerminals ==
  {[COLUMNS |-> 0, size |-> 0], [COLUMNS |-> 60, size |-> 0], [COLUMNS |-> 0, size |-> 200]}

Error(is, code, msg) == [is |-> is, code |-> code, msg |-> msg]

(* Texts that just fit and that do not; each the same with a longer number, *)
(* with wider spacing, behind a URL.                                       *)
Text == <<"wide", "digit", "space", "letter", "digit">>
Texts ==
  UNION {{t, InsertAt(t, 2, "digit"), InsertAt(t, 3, "space"), <<"letter", "mark">> \o t} :
           t \in {Text, Text \o Letters(2)}} \cup {Letters(5), <<>>}

MCErrors ==
  {Error({}, 0, t) : t \in Texts} \cup
  { Error({"StatusError"}, 503, <<>>), Error({"StatusError"}, 404, <<>>),
    Error({"StatusError", "context.DeadlineExceeded"}, 503, <<>>),
    Error({"CypherError"}, 1, <<>>), Error({"CypherError"}, 0, <<>>),
    Error({"ECONNRESET", "context.DeadlineExceeded"}, 0, Text),
    Error({"DNSError", "net.Error.Timeout"}, 0, Text),
    Error({"ECONNREFUSED"}, 0, Text), Error({"net.Error.Timeout"}, 0, Text) }

MCLabelRank ==
  LET order == FoldSet(LAMBDA l, s : Append(s, l), <<>>, {classify(e) : e \in MCErrors})
  IN  [l \in {order[i] : i \in DOMAIN order} |-> CHOOSE i \in DOMAIN order : order[i] = l]

Durations(top, n) == UNION {[1..k -> {0, 1, top}] : k \in 0..n}
Failures(errors, n) ==
  UNION {[1..k -> [err: errors, dur: {7}]] : k \in 0..n}

Result(durations, failures, seconds) ==
  [ requests |-> Len(durations) + Len(failures),
    durations |-> durations, failures |-> failures, seconds |-> seconds,
    samples |-> [i \in DOMAIN failures |-> failures[i].err.msg] ]

Entries(results) ==
  {[name |-> n, label |-> q, result |-> r] : n \in TestNames, q \in QueryNames, r \in results}

(* Figures: every small set of durations, one that overflows, a long one.   *)
Figures ==
  {Result(d, <<>>, 6) : d \in Durations(6, 4) \cup Durations(15, 2)
                              \cup {[i \in 1..12 |-> (5 * i) % 13]}}

(* Labels: every pair and some triples of failures. *)
Labels ==
  {Result(<<3>>, f, 0) : f \in Failures(MCErrors, 2)} \cup
  {Result(<<>>, f, 9) : f \in Failures({e \in MCErrors : e.is \subseteq {"StatusError"}}, 3)}

Mixed == {[Result(<<>>, <<>>, 0) EXCEPT !.requests = -1], Result(<<>>, <<>>, 0),
          Result(<<2, 1>>, <<>>, 3),
          Result(<<>>, <<[err |-> Error({}, 0, Text), dur |-> 5]>>, 5),
          Result(<<4>>, <<[err |-> Error({"StatusError"}, 503, Text), dur |-> 5]>>, 5)}

MCReports ==
  {<<[name |-> Letters(4), label |-> <<>>, result |-> r]>> : r \in Figures \cup Labels} \cup
  UNION {[1..k -> Entries(Mixed)] : k \in 0..2}

=============================================================================
