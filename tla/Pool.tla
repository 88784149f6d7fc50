-------------------------------- MODULE Pool --------------------------------
(***************************************************************************)
(* benchmarks.go and internal/transport: the http.Client of one benchmark, *)
(* shared by the workers the runner starts, and its idle connections, from *)
(* construction to release.  HTTP/1; an HTTP/2 client multiplexes one      *)
(* connection.                                                             *)
(*                                                                         *)
(* net/http is external and modelled from what its Transport does with the *)
(* settings given to it: a request takes the idle connection of its host   *)
(* that was used last, or waits while one is dialled; whichever comes      *)
(* first, the dialled one or one another worker gives back, serves it.     *)
(* The proxy in front of the cluster closes what was idle too long.  Time  *)
(* passes in ticks of ten seconds.                                         *)
(***************************************************************************)
EXTENDS Integers, Sequences, SequencesExt

CONSTANTS
  Configs,      \* [test, workers, requests]: the benchmark and the two flags
  Proxy,        \* the host of the base URL
  Nodes,        \* the hosts that Location headers name
  MinPoolSize,  \* minPoolSize, 100 in the code
  MaxDials      \* bound: dials under way for one host

ASSUME PoolAssumption == MinPoolSize \in Nat \ {0} /\ MaxDials \in Nat
ASSUME ConfigAssumption == Configs \subseteq [test: STRING, workers: Int, requests: Int]
ASSUME HostAssumption == Proxy \notin Nodes

VARIABLES
  cfg,        \* the configuration
  phase,      \* the client: "none", "open", "released"
  size,       \* MaxIdleConns and MaxIdleConnsPerHost of its transport
  idle,       \* per host: its idle connections, the one longest in the pool first
  dials,      \* per host: dials under way
  closeIdle,  \* the transport's flag, set by CloseIdleConnections
  todo,       \* per worker: the hosts of the requests its TxFunc still makes
  conn,       \* per worker: "none", "waiting", "live" or "dead" connection in use
  warm        \* history, per host: once a connection per worker was open, and none was lost since

poolVars == <<idle, dials, closeIdle>>
vars == <<cfg, phase, size, poolVars, todo, conn, warm>>

Hosts == {Proxy} \cup Nodes

-----------------------------------------------------------------------------
(***************************************************************************)
(* The eight benchmarks by their three traits, and their settings.         *)
(***************************************************************************)
SessionTests ==
  {"SyncSessionsImplicit", "GoroutinesSessionsImplicit", "SyncSessions", "GoroutinesSessions"}
ConcurrentTests ==
  {"GoroutinesImplicit", "GoroutinesSessionsImplicit", "Goroutines", "GoroutinesSessions"}
ManagedTests == {"Sync", "SyncSessions", "Goroutines", "GoroutinesSessions"}

Session == cfg.test \in SessionTests

poolSizeWithoutFloor(concurrency) == 2 * concurrency   \* mutant: no minPoolSize

poolSize(concurrency) ==
  IF 2 * concurrency < MinPoolSize THEN MinPoolSize ELSE 2 * concurrency

rawWorkers(c) == c.workers   \* mutant: the flag as it is

effectiveConcurrency(c) == IF c.workers <= 0 THEN c.requests ELSE c.workers

(* The goroutines newSessionClient is told will share the client. *)
SharedBy(c) == IF c.test \in ConcurrentTests THEN effectiveConcurrency(c) ELSE 1

(* MaxIdleConns and MaxIdleConnsPerHost of NewSession; NewFresh keeps none. *)
MaxIdle(c) == IF c.test \in SessionTests THEN poolSize(SharedBy(c)) ELSE 0

(* The workers RunConcurrent and Run start: the runner's EffectiveWorkers. *)
Started(c) ==
  LET asked == IF c.workers <= 0 \/ c.workers > c.requests THEN c.requests ELSE c.workers
  IN  IF c.test \notin ConcurrentTests \/ asked < 1 THEN 1 ELSE asked

Workers == 1..Started(cfg)

(* idleConnTimeout, 20s, and HAProxy's timeout http-keep-alive, 30s, in ticks. *)
idleConnTimeoutOfProxy == 4   \* mutant: longer than the proxy's

idleConnTimeout == 2
KeepAlive == 3

-----------------------------------------------------------------------------
Conns == [age: 0..KeepAlive, dead: BOOLEAN]

Pooled == UNION {{h} \X DOMAIN idle[h] : h \in Hosts}

TypeOK ==
  /\ cfg \in Configs
  /\ phase \in {"none", "open", "released"}
  /\ size \in Nat
  /\ idle \in [Hosts -> Seq(Conns)] /\ Cardinality(Pooled) <= size
  /\ dials \in [Hosts -> 0..MaxDials]
  /\ closeIdle \in BOOLEAN
  /\ todo \in [Workers -> Seq(Hosts)]
  /\ conn \in [Workers -> {"none", "waiting", "live", "dead"}]
  /\ warm \in [Hosts -> BOOLEAN]

Init ==
  /\ cfg \in Configs
  /\ phase = "none"
  /\ size = 0
  /\ idle = [h \in Hosts |-> <<>>]
  /\ dials = [h \in Hosts |-> 0]
  /\ closeIdle = FALSE
  /\ todo = [w \in Workers |-> <<>>]
  /\ conn = [w \in Workers |-> "none"]
  /\ warm = [h \in Hosts |-> FALSE]

UsedBy(w, h) == conn[w] \in {"live", "dead"} /\ Head(todo[w]) = h
OpenTo(h) == Len(idle[h]) + Cardinality({w \in Workers : UsedBy(w, h)})
Waiting(h) == {w \in Workers : conn[w] = "waiting" /\ Head(todo[w]) = h}

(* The history: what was lost other than by the pool's own limits resets it. *)
Warmed == warm' = [h \in Hosts |-> warm[h] \/ OpenTo(h)' >= Started(cfg)]
Lost(h) == warm' = [warm EXCEPT ![h] = FALSE]

-----------------------------------------------------------------------------
(***************************************************************************)
(* The benchmark.                                                          *)
(***************************************************************************)
(* newSessionClient, sessionHTTPClient, NewFresh. *)
OpenClient ==
  /\ phase = "none"
  /\ phase' = "open"
  /\ size' = MaxIdle(cfg)
  /\ UNCHANGED <<cfg, poolVars, todo, conn, warm>>

(* The TxFunc of one iteration: one request, or begin, execute and commit. *)
StartTx(w) ==
  /\ phase = "open" /\ todo[w] = <<>>
  /\ IF cfg.test \in ManagedTests
       THEN \E n \in Nodes \cup {Proxy} :
              /\ n = Proxy => Nodes = {}
              /\ todo' = [todo EXCEPT ![w] = <<Proxy, n, n>>]
       ELSE todo' = [todo EXCEPT ![w] = <<Proxy>>]
  /\ UNCHANGED <<cfg, phase, size, poolVars, conn, warm>>

(* Nothing is sent after a failure, but a rollback when it is execute that failed. *)
AfterFailure(hosts) == IF Len(hosts) = 2 THEN Tail(hosts) ELSE <<>>

ReleaseForgotten ==   \* mutant: the deferred CloseIdleConnections left out
  /\ phase = "open" /\ \A w \in Workers : todo[w] = <<>>
  /\ phase' = "released"
  /\ UNCHANGED <<cfg, size, poolVars, todo, conn, warm>>

(* The runner has returned; defer httpClient.CloseIdleConnections(). *)
Release ==
  /\ phase = "open" /\ \A w \in Workers : todo[w] = <<>>
  /\ phase' = "released"
  /\ IF Session
       THEN /\ idle' = [h \in Hosts |-> <<>>]
            /\ closeIdle' = TRUE
            /\ warm' = [h \in Hosts |-> FALSE]
       ELSE UNCHANGED <<idle, closeIdle, warm>>
  /\ UNCHANGED <<cfg, size, dials, todo, conn>>

-----------------------------------------------------------------------------
(***************************************************************************)
(* http.Transport.                                                         *)
(***************************************************************************)
(* A connection too old is not used but closed, should its timer be late.  *)
(* When the one used last is too old, so are all before it.                *)
Usable(h) == idle[h] # <<>> /\ Last(idle[h]).age <= idleConnTimeout

TakeIdle(w) ==
  /\ conn[w] = "none" /\ todo[w] # <<>>
  /\ LET h == Head(todo[w])
     IN  /\ Usable(h)
         /\ idle' = [idle EXCEPT ![h] = Front(@)]
         /\ conn' = [conn EXCEPT ![w] = IF Last(idle[h]).dead THEN "dead" ELSE "live"]
  /\ closeIdle' = FALSE
  /\ UNCHANGED <<cfg, phase, size, dials, todo, warm>>

Dial(w) ==
  /\ conn[w] = "none" /\ todo[w] # <<>>
  /\ LET h == Head(todo[w])
     IN  /\ ~Usable(h) /\ dials[h] < MaxDials
         /\ idle' = [idle EXCEPT ![h] = <<>>]
         /\ dials' = [dials EXCEPT ![h] = @ + 1]
         /\ IF idle[h] # <<>> THEN Lost(h) ELSE UNCHANGED warm
  /\ conn' = [conn EXCEPT ![w] = "waiting"]
  /\ closeIdle' = FALSE
  /\ UNCHANGED <<cfg, phase, size, todo>>

(* The hosts one of whose idle connections may be the oldest of all. *)
Oldest ==
  {h \in Hosts : /\ idle[h] # <<>>
                 /\ \A g \in Hosts : idle[g] # <<>> => Head(idle[g]).age <= Head(idle[h]).age}

(* tryPutIdleConn, no one waiting: keep-alives off, released, full for the  *)
(* host, or full altogether, when the oldest idle connection is closed.    *)
PutIdle(h) ==
  IF size = 0 \/ closeIdle \/ Len(idle[h]) >= size
    THEN UNCHANGED idle
    ELSE LET longer == [idle EXCEPT ![h] = Append(@, [age |-> 0, dead |-> FALSE])]
         IN  IF Cardinality(Pooled) < size
               THEN idle' = longer
               ELSE \E g \in Oldest : idle' = [longer EXCEPT ![g] = Tail(@)]

(* A dial whose request gave up or was served by another connection. *)
Surplus(h) == dials[h] > Cardinality(Waiting(h))

DialEnds(h) ==
  /\ dials[h] > 0
  /\ dials' = [dials EXCEPT ![h] = @ - 1]
  /\ \/ \E w \in Waiting(h) : conn' = [conn EXCEPT ![w] = "live"] /\ UNCHANGED idle
     \/ /\ Surplus(h) /\ (Session => Waiting(h) = {})
        /\ PutIdle(h)
        /\ UNCHANGED conn
  /\ UNCHANGED <<cfg, phase, size, closeIdle, todo>>
  /\ Warmed

(* The response was read to its end: the connection goes to a waiting      *)
(* request or to the pool, before the caller goes on.                      *)
Respond(w) ==
  /\ conn[w] = "live"
  /\ \E rest \in {Tail(todo[w]), AfterFailure(todo[w])} : todo' = [todo EXCEPT ![w] = rest]
  /\ LET h == Head(todo[w])
     IN  IF Waiting(h) = {} \/ ~Session
           THEN PutIdle(h) /\ conn' = [conn EXCEPT ![w] = "none"]
           ELSE /\ UNCHANGED idle
                /\ \E v \in Waiting(h) : conn' = [conn EXCEPT ![w] = "none", ![v] = "live"]
  /\ UNCHANGED <<cfg, phase, size, dials, closeIdle>>
  /\ Warmed

(* The exchange breaks, or the call's deadline passes, after which nothing  *)
(* more is sent: the connection is closed.                                 *)
Break(w) ==
  /\ conn[w] \in {"live", "dead"}
  /\ \E rest \in {AfterFailure(todo[w]), <<>>} : todo' = [todo EXCEPT ![w] = rest]
  /\ conn' = [conn EXCEPT ![w] = "none"]
  /\ Lost(Head(todo[w]))
  /\ UNCHANGED <<cfg, phase, size, poolVars>>

(* The deadline passes before there is a connection; the dial goes on. *)
GiveUp(w) ==
  /\ conn[w] = "waiting"
  /\ todo' = [todo EXCEPT ![w] = <<>>]
  /\ conn' = [conn EXCEPT ![w] = "none"]
  /\ UNCHANGED <<cfg, phase, size, poolVars, warm>>

DialFails(h) ==
  /\ dials[h] > 0
  /\ dials' = [dials EXCEPT ![h] = @ - 1]
  /\ \/ Surplus(h) /\ UNCHANGED <<todo, conn>>
     \/ \E w \in Waiting(h) : /\ todo' = [todo EXCEPT ![w] = AfterFailure(@)]
                              /\ conn' = [conn EXCEPT ![w] = "none"]
  /\ UNCHANGED <<cfg, phase, size, idle, closeIdle, warm>>

Drop(h, i) ==
  /\ idle' = [idle EXCEPT ![h] = RemoveAt(@, i)]
  /\ Lost(h)
  /\ UNCHANGED <<cfg, phase, size, dials, closeIdle, todo, conn>>

(* The idle timer of the connection; it may be late. *)
IdleTimeout(h, i) == idle[h][i].age >= idleConnTimeout /\ Drop(h, i)

(* The client learns that the proxy closed the connection. *)
NoticeClosed(h, i) == idle[h][i].dead /\ Drop(h, i)

ProxyCloses(i) ==
  /\ idle[Proxy][i].age >= KeepAlive /\ ~idle[Proxy][i].dead
  /\ idle' = [idle EXCEPT ![Proxy][i].dead = TRUE]
  /\ UNCHANGED <<cfg, phase, size, dials, closeIdle, todo, conn, warm>>

Older(c) == [c EXCEPT !.age = IF @ < KeepAlive THEN @ + 1 ELSE @]

Tick ==
  /\ idle' = [h \in Hosts |-> [i \in DOMAIN idle[h] |-> Older(idle[h][i])]]
  /\ idle' # idle
  /\ UNCHANGED <<cfg, phase, size, dials, closeIdle, todo, conn, warm>>

-----------------------------------------------------------------------------
Next ==
  \/ OpenClient \/ Release \/ Tick
  \/ \E w \in Workers : \/ StartTx(w) \/ TakeIdle(w) \/ Dial(w)
                        \/ Respond(w) \/ Break(w) \/ GiveUp(w)
  \/ \E h \in Hosts : DialEnds(h) \/ DialFails(h)
  \/ \E h \in Hosts : \E i \in DOMAIN idle[h] : IdleTimeout(h, i) \/ NoticeClosed(h, i)
  \/ \E i \in DOMAIN idle[Proxy] : ProxyCloses(i)
  \/ phase = "released" /\ UNCHANGED vars

Spec == Init /\ [][Next]_vars

-----------------------------------------------------------------------------
(***************************************************************************)
(* No request is ever written on a connection that the proxy has closed:   *)
(* the client lets go of it first, even when its timer is late (comment of *)
(* idleConnTimeout).                                                       *)
(***************************************************************************)
NoDeadConnection == \A w \in DOMAIN conn : conn[w] # "dead"

(***************************************************************************)
(* Idle sockets belong to a session benchmark that is running: none stays  *)
(* after its release, a dial that ends later included, and a benchmark of  *)
(* fresh connections never has any (newSessionClient, SyncSessions).       *)
(***************************************************************************)
SocketsReleased == Pooled # {} => Session /\ phase = "open"

(***************************************************************************)
(* The pool causes no churn: once a host has a connection per worker that  *)
(* really runs, it keeps as many until the network, the proxy or a timeout *)
(* takes one; no surplus is closed and dialled again under load (comments  *)
(* of poolSize and effectiveConcurrency).                                  *)
(***************************************************************************)
StaysWarm ==
  Session => \A h \in Hosts : warm[h] => OpenTo(h) >= Started(cfg)

=============================================================================
