----------------------------- MODULE ManagedTx ------------------------------
(***************************************************************************)
(* internal/managed: Client.RunTransaction, called concurrently by the     *)
(* workers of the runner, against a cluster behind a round-robin balancer. *)
(*                                                                         *)
(* A call makes one HTTP exchange at a time: begin, execute, commit, or a  *)
(* rollback after a failed execute.  The network may break any exchange,   *)
(* with the request delivered before, after or never; the context of a     *)
(* call may expire at any time, after which no request of it is sent.  A   *)
(* node numbers its transactions itself, so one number may name two        *)
(* transactions on two nodes.                                              *)
(*                                                                         *)
(* The nodes and the balancer are not part of the repository: they do what *)
(* the package comment of managed.go and haproxy01.cfg say of them.  A     *)
(* node's Location header names that node's own address.                   *)
(***************************************************************************)
EXTENDS Naturals, Sequences, FiniteSets

CONSTANTS
  Calls,       \* the calls of RunTransaction
  Nodes,       \* the cluster members
  Balancer,    \* the host of the base URL
  HasTimeout,  \* whether a call's context carries a deadline
  MaxFaults    \* bound: how often something outside the client goes wrong

ASSUME HostAssumption == Balancer \notin Nodes
ASSUME TimeoutAssumption == HasTimeout \in BOOLEAN
ASSUME FaultAssumption == MaxFaults \in Nat

VARIABLES
  legacy,    \* the client's API flavor
  pc,        \* per call: "start", the exchange it is in, or "returned"
  ret,       \* per call: "none", "nil" or "err"
  expired,   \* per call: whether its context has expired
  url,       \* per call: the transaction URL begin returned: a host and a number
  response,  \* per call: the answer to the exchange it is in, NoResponse before
  pending,   \* <<call, operation>> of the requests on their way
  log,       \* per node: its transactions in the order of their numbers
  hit,       \* history: per call, what went wrong outside the client
  faults     \* how often something did: bounded by MaxFaults

clientVars == <<pc, ret, url>>
faultVars == <<hit, faults>>
vars == <<legacy, clientVars, expired, response, pending, log, faultVars>>

Ops == {"begin", "execute", "commit", "rollback"}
Hosts == Nodes \cup {Balancer}
NoUrl == [host |-> Balancer, id |-> 0]
Urls == [host: Hosts, id: Nat]

NoResponse == [kind |-> "none", location |-> NoUrl]
Responses ==
  [kind: {"none", "ok", "status", "errors", "noLocation"}, location: Urls]

Entries == Calls \X (Ops \cup {"failed"})
Transactions == [state: {"open", "committed", "closed"}, ops: Seq(Entries)]

TypeOK ==
  /\ legacy \in BOOLEAN
  /\ pc \in [Calls -> Ops \cup {"start", "returned"}]
  /\ ret \in [Calls -> {"none", "nil", "err"}]
  /\ expired \in [Calls -> BOOLEAN]
  /\ url \in [Calls -> Urls]
  /\ response \in [Calls -> Responses]
  /\ pending \subseteq Calls \X Ops
  /\ log \in [Nodes -> Seq(Transactions)]
  /\ hit \in [Calls -> SUBSET (Ops \cup {"unreadable", "location", "replay"})]
  /\ faults \in 0..MaxFaults

Init ==
  /\ legacy \in BOOLEAN
  /\ pc = [c \in Calls |-> "start"]
  /\ ret = [c \in Calls |-> "none"]
  /\ expired = [c \in Calls |-> FALSE]
  /\ url = [c \in Calls |-> NoUrl]
  /\ response = [c \in Calls |-> NoResponse]
  /\ pending = {}
  /\ log = [n \in Nodes |-> <<>>]
  /\ hit = [c \in Calls |-> {}]
  /\ faults = 0

Fault(c, what) ==
  /\ faults < MaxFaults /\ faults' = faults + 1
  /\ hit' = [hit EXCEPT ![c] = @ \cup {what}]

-----------------------------------------------------------------------------
(***************************************************************************)
(* The client.  Enter(c, op) starts an exchange: an expired context makes  *)
(* httpClient.Do fail before anything is sent.                             *)
(***************************************************************************)
Enter(c, op) ==
  /\ pc' = [pc EXCEPT ![c] = op]
  /\ pending' = IF expired[c] THEN pending ELSE pending \cup {<<c, op>>}
  /\ response' = [response EXCEPT ![c] = NoResponse]
  /\ UNCHANGED ret

Return(c, r) ==
  /\ pc' = [pc EXCEPT ![c] = "returned"]
  /\ ret' = [ret EXCEPT ![c] = r]
  /\ response' = [response EXCEPT ![c] = NoResponse]
  /\ UNCHANGED pending

(* httpClient.Do returns an error: the deadline passed or the connection failed. *)
DoFails(c, op) ==
  /\ pc[c] = op
  /\ IF expired[c] THEN UNCHANGED faultVars ELSE Fault(c, op)

Answered(c, op, kind) == pc[c] = op /\ response[c].kind = kind

(***************************************************************************)
(* execute and commit return nil, their status being 2xx: the body shows   *)
(* no error, or the legacy body is cut short and cannot be decoded.        *)
(***************************************************************************)
Accepts(c, op) ==
  \/ Answered(c, op, "ok") /\ UNCHANGED faultVars
  \/ /\ legacy /\ response[c].kind \in {"ok", "errors"} /\ pc[c] = op
     /\ Fault(c, "unreadable")

RejectsAllBut200(c, op) ==   \* mutant: a status of 202 is an error
  \/ (response[c].kind # "none" /\ pc[c] = op) /\ UNCHANGED faultVars
  \/ DoFails(c, op)

(* execute and commit return an error. *)
Rejects(c, op) ==
  \/ (Answered(c, op, "status") \/ Answered(c, op, "errors")) /\ UNCHANGED faultVars
  \/ DoFails(c, op)

CallBegin(c) ==
  /\ pc[c] = "start"
  /\ Enter(c, "begin")
  /\ UNCHANGED <<legacy, expired, url, log, faultVars>>

BeginFails(c) ==
  /\ \/ (Answered(c, "begin", "status") \/ Answered(c, "begin", "noLocation")) /\ UNCHANGED faultVars
     \/ DoFails(c, "begin")
  /\ Return(c, "err")
  /\ UNCHANGED <<legacy, expired, url, log>>

(* base.ResolveReference(ref): an absolute Location keeps its own host. *)
ResolveOnBase(location) ==   \* mutant: only the number of the Location is kept
  [host |-> Balancer, id |-> location.id]

ResolvePathOnly(location) ==   \* mutant: a Location used as it is, without a host
  [host |-> "", id |-> location.id]

Resolve(location) == location

BeginSucceeds(c) ==
  /\ Answered(c, "begin", "ok")
  /\ url' = [url EXCEPT ![c] = Resolve(response[c].location)]
  /\ Enter(c, "execute")
  /\ UNCHANGED <<legacy, expired, log, faultVars>>

ExecuteSucceeds(c) ==
  /\ Accepts(c, "execute")
  /\ Enter(c, "commit")
  /\ UNCHANGED <<legacy, expired, url, log>>

ExecuteFailsNoRollback(c) ==   \* mutant: the best-effort rollback left out
  /\ Rejects(c, "execute")
  /\ Return(c, "err")
  /\ UNCHANGED <<legacy, expired, url, log>>

ExecuteFailsIgnored(c) ==   \* mutant: the error does not stop the cycle
  /\ Rejects(c, "execute")
  /\ Enter(c, "commit")
  /\ UNCHANGED <<legacy, expired, url, log>>

ExecuteFails(c) ==
  /\ Rejects(c, "execute")
  /\ Enter(c, "rollback")
  /\ UNCHANGED <<legacy, expired, url, log>>

(* rollback's own outcome is ignored. *)
RollbackEndsUnbounded(c) ==   \* mutant: rollback under a context without a deadline
  /\ pc[c] = "rollback" /\ response[c] # NoResponse
  /\ Return(c, "err")
  /\ UNCHANGED <<legacy, expired, url, log, faultVars>>

RollbackEnds(c) ==
  /\ \/ pc[c] = "rollback" /\ response[c] # NoResponse /\ UNCHANGED faultVars
     \/ DoFails(c, "rollback")
  /\ Return(c, "err")
  /\ UNCHANGED <<legacy, expired, url, log>>

CommitSucceedsUnchecked(c) ==   \* mutant: the legacy errors array not looked at
  /\ (Answered(c, "commit", "ok") \/ Answered(c, "commit", "errors")) /\ UNCHANGED faultVars
  /\ Return(c, "nil")
  /\ UNCHANGED <<legacy, expired, url, log>>

CommitSucceeds(c) ==
  /\ Accepts(c, "commit")
  /\ Return(c, "nil")
  /\ UNCHANGED <<legacy, expired, url, log>>

CommitFails(c) ==
  /\ Rejects(c, "commit")
  /\ Return(c, "err")
  /\ UNCHANGED <<legacy, expired, url, log>>

Deadline(c) ==
  /\ HasTimeout /\ pc[c] \in Ops /\ ~expired[c]
  /\ expired' = [expired EXCEPT ![c] = TRUE]
  /\ UNCHANGED <<legacy, clientVars, response, pending, log, faultVars>>

-----------------------------------------------------------------------------
(***************************************************************************)
(* The cluster.  A request reaches the node its URL names, or any node if  *)
(* that is the balancer; begin is always sent to the balancer.  An answer  *)
(* reaches the client only if it still waits for it.                       *)
(***************************************************************************)
Reaches(c, op, n) ==
  /\ <<c, op>> \in pending
  /\ op = "begin" \/ url[c].host \in {n, Balancer}

Reply(c, op, kind, location) ==
  /\ pending' = pending \ {<<c, op>>}
  /\ response' = IF pc[c] = op
                   THEN [response EXCEPT ![c] = [kind |-> kind, location |-> location]]
                   ELSE response

Alive(n, id) == id \in 1..Len(log[n]) /\ log[n][id].state = "open"

Update(n, id, state, entry) ==
  log' = [log EXCEPT ![n][id] = [state |-> state, ops |-> Append(@.ops, entry)]]

Open(c, n) ==
  log' = [log EXCEPT ![n] = Append(@, [state |-> "open", ops |-> << <<c, "begin">> >>])]

(* How a node reports a failed statement: legacy as 2xx with an errors array. *)
FailureKind == IF legacy THEN "errors" ELSE "status"

ServeBegin(c, n) ==
  /\ Reaches(c, "begin", n)
  /\ Open(c, n)
  /\ \/ Reply(c, "begin", "ok", [host |-> n, id |-> Len(log[n]) + 1]) /\ UNCHANGED faultVars
     \/ /\ Reply(c, "begin", "noLocation", NoUrl)
        /\ Fault(c, "location")
  /\ UNCHANGED <<legacy, clientVars, expired>>

(* retry-on empty-response: the balancer sends again what a node has served. *)
ReplayBegin(c, n) ==
  /\ Reaches(c, "begin", n)
  /\ Open(c, n)
  /\ Fault(c, "replay")
  /\ UNCHANGED <<legacy, clientVars, expired, response, pending>>

ServeExecute(c, n) ==
  /\ Reaches(c, "execute", n) /\ Alive(n, url[c].id)
  /\ \/ /\ Update(n, url[c].id, "open", <<c, "execute">>)
        /\ Reply(c, "execute", "ok", NoUrl)
     \/ \E state \in {"open", "closed"} :
          /\ Update(n, url[c].id, state, <<c, "failed">>)
          /\ Reply(c, "execute", FailureKind, NoUrl)
  /\ UNCHANGED <<legacy, clientVars, expired, faultVars>>

ServeCommit(c, n) ==
  /\ Reaches(c, "commit", n) /\ Alive(n, url[c].id)
  /\ \/ /\ Update(n, url[c].id, "committed", <<c, "commit">>)
        /\ Reply(c, "commit", "ok", NoUrl)
     \/ /\ Update(n, url[c].id, "closed", <<c, "failed">>)
        /\ Reply(c, "commit", FailureKind, NoUrl)
  /\ UNCHANGED <<legacy, clientVars, expired, faultVars>>

ServeRollback(c, n) ==
  /\ Reaches(c, "rollback", n) /\ Alive(n, url[c].id)
  /\ Update(n, url[c].id, "closed", <<c, "rollback">>)
  /\ Reply(c, "rollback", "ok", NoUrl)
  /\ UNCHANGED <<legacy, clientVars, expired, faultVars>>

(* 404 *)
NotFound(c, op, n) ==
  /\ op # "begin" /\ Reaches(c, op, n) /\ ~Alive(n, url[c].id)
  /\ Reply(c, op, "status", NoUrl)
  /\ UNCHANGED <<legacy, clientVars, expired, log, faultVars>>

(* 5xx from a node or the balancer, the request not looked at. *)
Refuse(c, op) ==
  /\ <<c, op>> \in pending
  /\ Reply(c, op, "status", NoUrl)
  /\ Fault(c, op)
  /\ UNCHANGED <<legacy, clientVars, expired, log>>

(* A node ends a transaction left open for too long. *)
Expire(n, id) ==
  /\ Alive(n, id)
  /\ faults < MaxFaults /\ faults' = faults + 1
  /\ log' = [log EXCEPT ![n][id].state = "closed"]
  /\ UNCHANGED <<legacy, clientVars, expired, response, pending, hit>>

-----------------------------------------------------------------------------
Client(c) ==
  \/ BeginSucceeds(c) \/ BeginFails(c)
  \/ ExecuteSucceeds(c) \/ ExecuteFails(c)
  \/ RollbackEnds(c)
  \/ CommitSucceeds(c) \/ CommitFails(c)

Serve(c) ==
  \/ \E n \in Nodes : \/ ServeBegin(c, n) \/ ReplayBegin(c, n) \/ ServeExecute(c, n)
                      \/ ServeCommit(c, n) \/ ServeRollback(c, n)
                      \/ \E op \in Ops : NotFound(c, op, n)
  \/ \E op \in Ops : Refuse(c, op)

Terminated == (\A c \in Calls : pc[c] = "returned") /\ UNCHANGED vars

Next ==
  \/ \E c \in Calls : CallBegin(c) \/ Client(c) \/ Deadline(c) \/ Serve(c)
  \/ \E n \in Nodes : \E id \in 1..Len(log[n]) : Expire(n, id)
  \/ Terminated

(***************************************************************************)
(* Only two things are sure to happen: the deadline, and that a client     *)
(* whose context has expired or whose answer is there goes on.  Neither    *)
(* the cluster's answers nor a broken connection is.                       *)
(***************************************************************************)
Fairness ==
  \A c \in Calls :
    /\ WF_vars(Deadline(c))
    /\ WF_vars(Client(c) /\ (expired[c] \/ response[c] # NoResponse))

Spec == Init /\ [][Next]_vars
FairSpec == Spec /\ Fairness

-----------------------------------------------------------------------------
(***************************************************************************)
(* Properties                                                              *)
(***************************************************************************)
Owner(t) == t.ops[1][1]
Whole(c) == << <<c, "begin">>, <<c, "execute">>, <<c, "commit">> >>
AllTransactions == UNION {{n} \X (1..Len(log[n])) : n \in Nodes}
Of(t) == log[t[1]][t[2]]

(***************************************************************************)
(* A begin/execute/commit cycle stays pinned to the transaction its begin  *)
(* opened (package comment, "Cluster routing"): no call ever executes in,  *)
(* commits or rolls back a transaction of another call, although numbers   *)
(* repeat between nodes.                                                   *)
(***************************************************************************)
Pinned ==
  \A t \in AllTransactions :
    \A j \in 1..Len(Of(t).ops) : Of(t).ops[j][1] = Owner(Of(t))

(***************************************************************************)
(* RunTransaction returns nil only if a transaction holding its statement, *)
(* once, and nothing else was committed; unless a legacy response of the   *)
(* call could not be decoded, which checkBody takes for success.           *)
(***************************************************************************)
NilMeansCommitted ==
  \A c \in Calls :
    ret[c] = "nil" /\ "unreadable" \notin hit[c] =>
      \E t \in AllTransactions : Of(t) = [state |-> "committed", ops |-> Whole(c)]

(***************************************************************************)
(* A statement of a call that returned an error was committed only if the  *)
(* deadline passed or the commit exchange itself broke: no other error is  *)
(* reported for work that was done.                                        *)
(***************************************************************************)
ErrorMeansNotCommitted ==
  \A c \in Calls :
    ret[c] = "err" /\ (\E t \in AllTransactions :
                         Of(t).state = "committed" /\ Owner(Of(t)) = c)
      => expired[c] \/ "commit" \in hit[c]

(***************************************************************************)
(* A call that has returned left no transaction open, unless its deadline  *)
(* passed, or begin, commit or the rollback itself broke or was refused,   *)
(* or the balancer replayed begin.  A broken, late or refused execute or a *)
(* failed statement alone is cleaned up after.                             *)
(***************************************************************************)
NothingLeftOpen ==
  \A c \in Calls :
    ret[c] # "none" /\ (\E t \in AllTransactions :
                          Of(t).state = "open" /\ Owner(Of(t)) = c)
      => expired[c] \/ hit[c] \cap {"begin", "commit", "rollback", "location", "replay"} # {}

(***************************************************************************)
(* With a deadline every call returns, whatever the cluster leaves         *)
(* unanswered, the rollback included: it runs under the same context.      *)
(***************************************************************************)
CallsReturn ==
  HasTimeout => \A c \in Calls : pc[c] \in Ops ~> pc[c] = "returned"

(***************************************************************************)
(* RunTransaction's comment: "On execute failure a best-effort rollback    *)
(* (DELETE) is attempted before returning the error", so the DELETE is     *)
(* sent whenever execute failed.                                           *)
(***************************************************************************)
RollbackAttempted ==
  [][\A c \in Calls :
       pc[c] = "execute" /\ pc'[c] = "rollback" => <<c, "rollback">> \in pending']_vars

-----------------------------------------------------------------------------
(***************************************************************************)
(* RunTransaction implements the Transaction specification.                *)
(***************************************************************************)
OutcomeOf ==
  [c \in Calls |->
     CASE ret[c] = "none" -> "running"
       [] ret[c] = "err"  -> "failed"
       [] ret[c] = "nil"  -> IF "unreadable" \in hit[c] THEN "unverified" ELSE "ok"]

Applications(c) ==
  {a \in AllTransactions \X (1..3) :
     /\ Of(a[1]).state = "committed"
     /\ a[2] <= Len(Of(a[1]).ops) /\ Of(a[1]).ops[a[2]] = <<c, "execute">>}

AppliedOf == [c \in Calls |-> Cardinality(Applications(c))]

Promise == INSTANCE Transaction WITH outcome <- OutcomeOf, applied <- AppliedOf

(* Every run, seen through OutcomeOf and AppliedOf, is one of Transaction. *)
ImplementsTransaction == Promise!TransactionSpec

=============================================================================
