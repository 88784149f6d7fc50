------------------------------ MODULE MCBench -------------------------------
(* Instances of Bench for TLC. *)
EXTENDS Bench

MCTexts == {"", "q", "r", "RETURN 1", "RETURN 2"}

Query(label, cypher) == [label |-> label, cypher |-> cypher]
File(queryList) == [given |-> TRUE, decodes |-> TRUE, queries |-> queryList]
NoFile == [given |-> FALSE, decodes |-> FALSE, queries |-> <<>>]

Files ==
  { NoFile, [given |-> TRUE, decodes |-> FALSE, queries |-> <<>>], File(<<>>),
    File(<< Query("q", "RETURN 1"), Query("", "RETURN 1") >>),
    File(<< Query("q", "") >>),
    File(<< Query("q", "RETURN 1"), Query("r", "RETURN 2") >>) }

Command(tests, runs, format, requests, file) ==
  [ tests |-> tests, api |-> "queryv2", mode |-> "read", runs |-> runs, format |-> format,
    cypher |-> [explicit |-> FALSE, text |-> "RETURN 1"], requests |-> requests, file |-> file ]

Usual == Command(<<"Sync">>, 1, "table", 1, NoFile)

(* Runs, queries and tests in every combination of one and two, in each     *)
(* format, one of them unknown; and the request counts at their edges.     *)
Measured ==
  {Command(tests, runs, format, 1, file) :
     tests \in {<<"Sync">>, <<"Sync", "SyncSessions">>}, runs \in {1, 2},
     format \in {"table", "json", "benchstat", "csv"}, file \in Files} \cup
  {Command(<<"Sync", "Sync">>, runs, format, n, NoFile) :
     runs \in {1, 3}, format \in {"table", "benchstat"}, n \in {-2, -1, 0, 2}}

Refused ==
  { [Usual EXCEPT !.tests = <<>>], [Usual EXCEPT !.tests = <<"Sync", "Async">>],
    [Usual EXCEPT !.api = "bolt"], [Usual EXCEPT !.mode = "any"],
    [Usual EXCEPT !.runs = 0], [Usual EXCEPT !.runs = -1] } \cup
  {[Usual EXCEPT !.cypher.explicit = TRUE, !.file = f] : f \in Files}

MCCommands == Measured \cup Refused

=============================================================================
