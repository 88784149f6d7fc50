------------------------------- MODULE MCPool -------------------------------
(* Instances of Pool for TLC. *)
EXTENDS Pool

Config(test, workers, requests) == [test |-> test, workers |-> workers, requests |-> requests]

AllTests == SessionTests \cup ConcurrentTests \cup ManagedTests \cup {"SyncImplicit"}

(* Every benchmark with two workers asked for; and, for a concurrent one,   *)
(* workers unset, more than requests, and a negative number of them.       *)
MCConfigs ==
  {Config(t, 2, 3) : t \in AllTests} \cup
  {Config("GoroutinesSessionsImplicit", w, 2) : w \in {0, 3}} \cup
  {Config("GoroutinesSessions", 0, -1), Config("GoroutinesSessionsImplicit", 0, 3)}

MCClusterConfigs == {Config("GoroutinesSessions", 2, 3)}

=============================================================================
